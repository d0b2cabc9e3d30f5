------------------------------- MODULE Media -------------------------------
(***************************************************************************)
(* The media cache: the queue the store keeps (uncached_avatar_urls,       *)
(* uncached_media_urls, mark_media_unavailable, put_media and what a       *)
(* changed message does to its attachment), the engine's pass over it      *)
(* (cache_media_up_to) and the command that fetches one asset for the      *)
(* reader (client_sync_media), beside each other and across restarts.      *)
(*                                                                         *)
(* An attachment is numbered by the age of its message and has an address  *)
(* of its own; an address, once it expires, stays refused.                 *)
(***************************************************************************)
EXTENDS Integers, FiniteSets, FiniteSetsExt

CONSTANTS
    Avatars,        \* addresses of avatars
    Attachments,    \* attachments: numbers, newer messages the greater ones
    Wanted,         \* bound: the attachments the reader asks for
    Nothing,        \* no address
    MediaPerCycle,  \* media_per_cycle: addresses tried in a pass
    MaxChanges,     \* bound: changes of messages held
    MaxRestarts     \* bound: restarts of the process

ASSUME MediaAssumption ==
    /\ IsFiniteSet(Avatars) /\ IsFiniteSet(Attachments)
    /\ Attachments \subseteq Nat
    /\ Wanted \subseteq Attachments
    /\ Avatars \cap Attachments = {}
    /\ Nothing \notin Avatars \cup Attachments
    /\ MediaPerCycle \in Nat \ {0}
    /\ MaxChanges \in Nat /\ MaxRestarts \in Nat

Url      == Avatars \cup Attachments
Fetchers == {"engine", "reader"}

VARIABLES
    dead,       \* the addresses that have expired
    flag,       \* attachments.cached: 0, 1 or 2
    cache,      \* media_cache: the addresses with a row
    files,      \* the addresses whose file is written
    blocked,    \* blocked_media: refused in this process
    todo,       \* what its pass still has to try
    job,        \* what each of the two fetches
    revisions,  \* changes of messages so far
    restarts,   \* restarts so far
    unmarked    \* attachments refused of which the store has no mark, because
                \* it was not written or was taken back (a history)

storeVars  == <<flag, cache>>
engineVars == <<blocked, todo>>
mediaVars == <<dead, storeVars, files, engineVars, job, revisions, restarts, unmarked>>

\* attachments.cached: to be fetched, held, or not to be had.
Flag == {0, 1, 2}

Resting == [pc |-> "idle", url |-> Nothing]

----------------------------------------------------------------------------
(* The store *)

\* insert_messages: COUNT(*) over media_cache.
CachedAtInsert(u) == IF u \in cache THEN 1 ELSE 0

\* An edit, a reaction, a deletion: the attachments of a changed row are
\* deleted and inserted.
Change(u) ==
    /\ u \in Attachments
    /\ revisions < MaxChanges
    /\ revisions' = revisions + 1
    /\ flag' = [flag EXCEPT ![u] = CachedAtInsert(u)]
    /\ unmarked' = IF flag[u] = 2 THEN unmarked \cup {u} ELSE unmarked
    /\ UNCHANGED <<dead, cache, files, engineVars, job, restarts>>

\* A bug FlagAgrees must catch as well: what is cached is marked too.
BugMarkAll(u) ==
    IF u \in Attachments THEN [flag EXCEPT ![u] = 2] ELSE flag

\* A bug EverythingComes must catch: nothing is kept of a refusal.
BugMarkNone(u) == flag

\* mark_media_unavailable: only what is pending.  An avatar has no such mark.
MarkUnavailable(u) ==
    IF u \in Attachments /\ flag[u] = 0 THEN [flag EXCEPT ![u] = 2] ELSE flag

\* put_media.
PutMedia(u) ==
    /\ cache' = cache \cup {u}
    /\ flag' = IF u \in Attachments
               THEN [flag EXCEPT ![u] = 1] ELSE flag

UncachedAvatars == Avatars \ cache
Pending == {u \in Attachments : flag[u] = 0}

\* The share of the avatars.
AvatarCap == IF MediaPerCycle \div 2 > 1 THEN MediaPerCycle \div 2 ELSE 1

Least(a, b) == IF a <= b THEN a ELSE b

\* uncached_avatar_urls: some of them, in the order of the scan.
AvatarBatches == kSubset(Least(AvatarCap, Cardinality(UncachedAvatars)), UncachedAvatars)

\* uncached_media_urls: the newest.
Newest(n) == {u \in Pending : Cardinality({v \in Pending : v > u}) < n}

----------------------------------------------------------------------------
(* The engine's pass *)

\* A bug EverythingComes must catch: the attachments take the whole budget.
BugAttachmentsFirst ==
    /\ todo = {} /\ job["engine"] = Resting
    /\ todo' = Newest(MediaPerCycle)
    /\ UNCHANGED <<dead, storeVars, files, blocked, job, revisions, restarts,
                   unmarked>>

\* cache_media_up_to: the queue is read once, at the head of the pass.
StartPass ==
    /\ todo = {} /\ job["engine"] = Resting
    /\ \E batch \in AvatarBatches :
          todo' = batch \cup Newest(MediaPerCycle - Cardinality(batch))
    /\ UNCHANGED <<dead, storeVars, files, blocked, job, revisions, restarts,
                   unmarked>>

\* Avatars come first, then the newest attachment.
IsNext(u) ==
    /\ u \in todo
    /\ u \in Avatars \/ (todo \cap Avatars = {} /\ \A v \in todo : u >= v)

Take(u) ==
    /\ job["engine"] = Resting
    /\ IsNext(u)
    /\ todo' = todo \ {u}
    /\ job' = IF u \in blocked THEN job
              ELSE [job EXCEPT !["engine"] = [pc |-> "asking", url |-> u]]
    /\ UNCHANGED <<dead, storeVars, files, blocked, revisions, restarts,
                   unmarked>>

\* 429: the rest of the pass is left.
Throttled ==
    /\ job["engine"].pc = "asking"
    /\ job' = [job EXCEPT !["engine"] = Resting]
    /\ todo' = {}
    /\ UNCHANGED <<dead, storeVars, files, blocked, revisions, restarts,
                   unmarked>>

----------------------------------------------------------------------------
(* The reader's command *)

\* client_sync_media: what is cached is answered at once.
Ask(u) ==
    /\ u \in Wanted
    /\ job["reader"] = Resting
    /\ u \notin cache
    /\ job' = [job EXCEPT !["reader"] = [pc |-> "asking", url |-> u]]
    /\ UNCHANGED <<dead, storeVars, files, engineVars, revisions, restarts,
                   unmarked>>

----------------------------------------------------------------------------
(* What both do with an address *)

Fetched(f) ==
    /\ job[f].pc = "asking"
    /\ job[f].url \notin dead
    /\ job' = [job EXCEPT ![f].pc = "got"]
    /\ UNCHANGED <<dead, storeVars, files, engineVars, revisions, restarts,
                   unmarked>>

\* is_permanent: a 4xx.
Gone(f) ==
    /\ job[f].pc = "asking"
    /\ job[f].url \in dead
    /\ job' = [job EXCEPT ![f].pc = "refused"]
    /\ blocked' = IF f = "engine" THEN blocked \cup {job[f].url} ELSE blocked
    /\ UNCHANGED <<dead, storeVars, files, todo, revisions, restarts,
                   unmarked>>

\* A 5xx, or no connection: it stays in the queue.
FetchFails(f) ==
    /\ job[f].pc = "asking"
    /\ job' = [job EXCEPT ![f] = Resting]
    /\ UNCHANGED <<dead, storeVars, files, engineVars, revisions, restarts,
                   unmarked>>

Mark(f) ==
    /\ job[f].pc = "refused"
    /\ flag' = MarkUnavailable(job[f].url)
    /\ unmarked' = unmarked \ {job[f].url}
    /\ job' = [job EXCEPT ![f] = Resting]
    /\ UNCHANGED <<dead, cache, files, engineVars, revisions, restarts>>

\* A bug RowHasFile must catch: the row first.
BugRowFirst(f) ==
    /\ job[f].pc = "got"
    /\ PutMedia(job[f].url)
    /\ job' = [job EXCEPT ![f].pc = "written"]
    /\ UNCHANGED <<dead, files, engineVars, revisions, restarts, unmarked>>

WriteFile(f) ==
    /\ job[f].pc = "got"
    /\ files' = files \cup {job[f].url}
    /\ job' = [job EXCEPT ![f].pc = "written"]
    /\ UNCHANGED <<dead, storeVars, engineVars, revisions, restarts, unmarked>>

Record(f) ==
    /\ job[f].pc = "written"
    /\ PutMedia(job[f].url)
    /\ job' = [job EXCEPT ![f] = Resting]
    /\ UNCHANGED <<dead, files, engineVars, revisions, restarts, unmarked>>

\* The file cannot be written, or the store refuses the row (the next attempt
\* overwrites the file) or the mark.
StepFails(f) ==
    /\ job[f].pc \in {"got", "refused"}
    /\ job' = [job EXCEPT ![f] = Resting]
    /\ unmarked' = IF job[f].pc = "refused" /\ job[f].url \in Pending
                   THEN unmarked \cup {job[f].url} ELSE unmarked
    /\ UNCHANGED <<dead, storeVars, files, engineVars, revisions, restarts>>

----------------------------------------------------------------------------
(* The world *)

Expire(u) ==
    /\ u \notin dead
    /\ dead' = dead \cup {u}
    /\ UNCHANGED <<storeVars, files, engineVars, job, revisions, restarts,
                   unmarked>>

\* The process stops wherever it is, and starts again.
Restart ==
    /\ restarts < MaxRestarts
    /\ restarts' = restarts + 1
    /\ blocked' = {}
    /\ todo' = {}
    /\ job' = [f \in Fetchers |-> Resting]
    /\ UNCHANGED <<dead, storeVars, files, revisions, unmarked>>

----------------------------------------------------------------------------
MediaInit ==
    /\ dead = {}
    /\ flag = [u \in Attachments |-> 0]
    /\ cache = {}
    /\ files = {}
    /\ blocked = {}
    /\ todo = {}
    /\ job = [f \in Fetchers |-> Resting]
    /\ revisions = 0
    /\ restarts = 0
    /\ unmarked = {}

MediaNext ==
    \/ \E u \in Url : Change(u) \/ Take(u) \/ Ask(u) \/ Expire(u)
    \/ StartPass \/ Throttled \/ Restart
    \/ \E f \in Fetchers : \/ Fetched(f) \/ Gone(f) \/ FetchFails(f)
                           \/ Mark(f) \/ WriteFile(f) \/ Record(f) \/ StepFails(f)

MediaSpec == MediaInit /\ [][MediaNext]_mediaVars

Engine ==
    \/ StartPass \/ \E u \in Url : Take(u)
    \/ FetchFails("engine") \/ Record("engine")

Answered(u) ==
    (Fetched("engine") \/ Gone("engine")) /\ job["engine"].url = u

Kept(u) == (WriteFile("engine") \/ Mark("engine")) /\ job["engine"].url = u

\* The loop starts pass after pass.  An address asked for over and over is
\* answered some time, and disk and store accept what they are given over and
\* over.
FairMediaSpec ==
    /\ MediaSpec
    /\ WF_mediaVars(Engine)
    /\ \A u \in Url : SF_mediaVars(Answered(u)) /\ SF_mediaVars(Kept(u))

----------------------------------------------------------------------------
(* Properties *)

MediaTypeOK ==
    /\ dead \subseteq Url /\ cache \subseteq Url /\ files \subseteq Url
    /\ blocked \subseteq Url /\ todo \subseteq Url
    /\ flag \in [Attachments -> Flag]
    /\ job \in [Fetchers -> [pc : {"idle", "asking", "got", "written", "refused"},
                             url : Url \cup {Nothing}]]
    /\ revisions \in 0..MaxChanges /\ restarts \in 0..MaxRestarts
    /\ unmarked \subseteq Attachments
    /\ Cardinality(todo) <= MediaPerCycle

\* A row of the cache never points at a file that was not written (the comment
\* in cache_media_up_to), wherever the process stops.
RowHasFile == cache \subseteq files

\* The flag of an attachment says cached exactly when there is a row, though
\* two tasks fetch, mark and record it and its message changes meanwhile: what
\* has a file is never marked unavailable, and what is cached never queued.
FlagAgrees ==
    \A u \in Attachments : flag[u] = 1 <=> u \in cache

\* Whatever does not expire comes to be cached.  Refused attachments leave the
\* queue, and those that do not (the store has no mark for them: the engine
\* skips them and the queue still counts them) hold up the others only if they
\* fill the budget of every pass; dead avatars, which nothing takes out of the
\* queue, only if they fill the share of every pass.
EverythingComes ==
    /\ <>[](\/ Pending \subseteq dead
            \/ Cardinality(unmarked) >= MediaPerCycle - AvatarCap)
    /\ <>[](\/ UncachedAvatars \subseteq dead
            \/ Cardinality(dead \cap UncachedAvatars) >= AvatarCap)
=============================================================================
