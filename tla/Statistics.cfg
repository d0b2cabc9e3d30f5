SPECIFICATION Spec
CONSTANTS
    User = {"a", "b", "bot", "system"}
    System = "system"
    Conv = {"g", "d"}
    Groups = {"g"}
    Message = {1, 2, 3, 4, 5, 6, 7}
    ConvOf <- MCConvOf
    DayOf <- MCDayOf
    KindOf <- MCKindOf
    About <- MCAbout
    TargetOf <- MCTargetOf
    Day = {1, 2}
    Name = {"then", "now"}
    NameOf <- MCNameOf
    Nameless = "nameless"
    Rosters <- MCRosters
    Fans = {"a"}
    InitialVersions = {0, 1, 4, 6}
    PageSize = 3
    MaxLikes = 1
    MaxCrashes = 1
INVARIANTS SchemaIsWhole BoardIsOfTheRows PanelsAgree
CHECK_DEADLOCK FALSE
