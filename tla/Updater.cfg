SPECIFICATION FairSpec
CONSTANTS
    MaxVersion = 3
    MaxClicks = 3
    MaxQuits = 2
PROPERTIES StagedNeverOlder PanelResolves UpdateLands
