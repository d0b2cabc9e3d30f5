# A verified model of the GroupMe desktop archive

The program is a Tauri shell around GroupMe's web client. Its own logic is an
archive: one process-wide loop copies every conversation of the account into
`archive.db`, a socket adds messages as they happen, and a local reader serves
the result offline. This directory models that logic in TLA+, checks it with
TLC on small instances and proves its central properties with TLAPS.

Paths below are relative to `src/src-tauri/src/` unless they start with `docs/`.

## 1. Inventory

| Component | State | Operations | Correct when |
|---|---|---|---|
| Sync engine, one visit (`sync.rs`) | per conversation `oldest_id`, `newest_id`, `backfill_complete`; during a visit a copy of them, the page, the backfill budget | tail, seed, walk back; write rows, apply events, write cursors | no hole between the cursors; completeness is true; nothing is forgotten, wherever a visit stops |
| Sync engine, the cycle (`sync.rs`) | report, listed conversations, which were never tailed, which pass 1 swept | list groups and chats, recent-first pass, deep pass, media pass, stand down | newest messages of all come before the history of any; a refused list or page ends the cycle; every conversation is reached |
| Sync loop and priority queue (`lib.rs`, `client_commands.rs`) | `SyncNow.queue`, a notify permit, the delay | push, notify, drain, cycle, select on delay, wake-up and token | no request sleeps through a rest; the loop comes to rest; one visit at a time |
| Archive store, messages (`store.rs`) | `messages`, `sync_state`, `attachments`, `users`, daily rollups | `insert_messages`, `apply_event`, `recompute_rollup_bucket`, cursor access, queries | rows never vanish; a deletion once known stays known; counts follow rows |
| Archive store, conversations (`store.rs`, `sync.rs`) | `conversations`, `members` | upserts of lists and rosters, former flags, read receipts | the former flag follows the last answer; rows settle once the server is quiet; every roster comes |
| Archive store, statistics and schema (`store.rs`) | daily tables, `user_version` | migrate, insert, the panels | a migration is whole or not there; the daily tables count the rows; panels agree |
| Realtime worker (`realtime.rs`) | socket, watch set, backoff attempt | session, hold, subscribe, persist frames, reconnect | never moves a cursor; a session is subscribed to the watch set; the kept worker comes back, the replaced one ends |
| API client (`api.rs`) | pacing, retry attempt | page requests, retry policy, interception fallback | reads are replayed, sends are not; a refusal is told apart from a failure |
| Media cache (`sync.rs`, `store.rs`, `client_commands.rs`) | `cached` flags, `media_cache`, files, blocked set | take queue, download, write, record, mark unavailable; the reader's own fetch | a row has its file; flags agree with rows; dead assets do not starve live ones |
| Account and token (`lib.rs`, `token.rs`) | token watch, `account_user_id`, fingerprint, keyring | adopt, publish, verify, persist, restart of the loop | one account per archive; nothing is persisted for an unverified one; no rotation is lost; a good token starts syncing |
| Connectivity (`connectivity.rs`, `lib.rs`) | state, two counters, override, page shown | concurrent polls, override, window switch | counters and state agree; the override holds; the state and the page follow the network |
| Updater (`updater.rs`) | check guard, staged update, last phase | check, download, restart, install on exit | nothing staged is replaced by something older; a dialog always ends; the last release lands |
| Proxy window (`proxy.rs`) | window built, ready, pending replies | ensure ready, fetch, result | replies reach their callers; readiness is not lost |
| Client write commands (`client_commands.rs`, `client.html`) | composer, message list | send, edit, delete, react, then mirror | one press posts once; what is shown is archived; what was written comes to be read where it was written |
| Reader commands, tray, front end | view state | queries, menus, rendering | modelled only where they share state with the above |

How they interact. The sync loop is one task; it awaits every visit, so visits
never overlap. The realtime worker, the client commands and the readers are other
tasks. All share one `Mutex<Store>`: a lock region is atomic towards the others,
and a region with two transactions (rows, then cursors) can still be cut by a stop
of the process. The webview reaches the loop only through events (token, online,
offline) and commands (`client_sync_now`).

The behaviours that are hard here: state read before an await and used after it
(the copy of the cursors, a fetched page); two writers of one message in either
order (page and frame); stops between two transactions; a wake-up racing a drain;
refusals that must silence the rest of a cycle; progress that must be real for the
loop to stay awake. `PROJECT.json` lists each with its line.

## 2. Modules

| Module | Models | Is |
|---|---|---|
| `Archive` | what the cursors promise | abstract specification: rows only grow; a window is claimed only over rows held; a seal only where the window reaches the first message |
| `SyncCursor` | `sync_conversation_detail` and what it calls | one visit at a time to any conversation, posts and frames in between |
| `SyncCycle` | `run_sync_loop`, `SyncNow`, `run_cycle` | decides which visits are made; instantiates `SyncCursor` |
| `MessageContent` | `insert_messages`, `apply_event`, rollups | what the archive says of one message; instantiates `SyncCursor` for its conversation |
| `Account` | `publish_token` to `persist_token`, `start_sync` | how a token becomes the one sync loop, and of whom the archive is |
| `Connectivity` | `ConnectivityMonitor`, `spawn_connectivity_watch` | whether GroupMe can be reached, and the page shown for it |
| `Library` | the head of `run_cycle`, the `conversations` table | which conversations there are, who left, what is unread, whose roster is missing |
| `Media` | `cache_media_up_to`, `client_sync_media`, the queues of the store | what stands behind the media pass of `SyncCycle` |
| `Realtime` | `Worker`, `RealtimeSlot`, `client_watch_conversation` | the workers of successive tokens, beside each other |
| `DmKeys` | `dm_recipient`, `dm_thread_key`, `conversation_channel` and its inverse | the two names of a direct message, as operators |
| `Outbox` | composer, `client_send_message`, `client_delete_message`, `send_with_policy`, frames, poll | the way of a message out and back; extends `DmKeys` |
| `Statistics` | `migrate`, `insert_messages`, `recompute_rollup_bucket`, the panels | what is counted, and that it survives a migration |
| `Updater` | `run`, `try_run`, `updater_restart`, `install_staged_on_exit` | the loop, the dialog and one staged update |
| `Store_proofs` | | the theorems about `Statistics`, `Library` and `Media` |
| `Outbox_proofs` | | the theorems about `DmKeys`, `Outbox` and `Realtime` |
| the other `*_proofs` | | the theorems about the module of that name |
| `MC*` | | instances for TLC |

Refinement runs in one line: `SyncCycle` implements `SyncCursor`
(`VisitsAsDescribed`), which implements `Archive` (`KeepsThePromise`). `Account`,
`Connectivity` and `Updater` share no state with them: what the loop does once it may
sync is `SyncCycle`'s, and the network that one fails on is the environment of the other.

The remaining modules cut the rest of the program where it shares one table or one
channel. `SyncCycle` has one action for the head of a cycle and one for the media pass;
`Library` and `Media` are these two in full, with the rows they keep, and with the actors
outside the loop that touch the same rows (the server, the reader's command). `Realtime`
is the worker without its messages, `Outbox` the messages without the worker: a frame
there may arrive at any time or never, which covers every state of the other.
`Statistics` has the insertion of `MessageContent` with every message counted instead of
one followed in full.

Two modules of proofs extend three components each. These share no names, which is why
the specifications of `Library`, `Media` and `Realtime` bear theirs (`LibrarySpec`,
`mediaVars`), and why the place of the loop is `step` in the first, the edits are
`revisions` in the second and what the window is told is `notice` in the third.

### SyncCursor

A message is its position in its conversation. GroupMe ids are opaque growing
numbers and the code uses only their order (`id_sort_key`), so nothing is lost;
`None` is 0. A page is a contiguous run that touches the cursor it was asked for
and may be shorter than the limit, which `docs/architecture.md` insists on; it is
empty only when nothing lies there. Whether `after_id` repeats the cursor's own
message is a constant: `SyncCursor` is run with it, `SyncCycle` without, the theorems
hold for both.

| Action | Code |
|---|---|
| `Visit` | `get_sync_state` at the start of a visit (`sync.rs:642`) |
| `Fetch` | `fetch_page`: the answer is taken now and written later |
| `InsertRows`, `PutCursors` | the two transactions of `write_page`, then the tests of the loop that follow |
| `EmptyPage` | the two ways an empty page is read: end of history, or nothing newer |
| `VisitFails` | any error of request or store, and a stop of the process |
| `RealtimeMessage` | `persist_message`: a row, no cursor |
| `Send` | somebody posts |

`Visit` leaves open who is visited and with which budget: a superset of what the
cycle does, which is why what is proved here holds for every scheduler.

### SyncCycle

`loop` is where `run_sync_loop` stands: `starting`, `drain`, `priority`, then the
parts of `run_cycle` (`groups`, `chats`, `aside`, `list`, `recent`, `deep`), then `rest`,
its `select!`. `Push` and `Notify` are separate because `enqueue` releases the mutex
before `notify_one`. Failures are of three kinds: one that is about a conversation
(the cycle goes on), a refusal (401, or 429 beyond the client's retries), and a stop of
the process. What a refusal does depends on what was asked for, and `refused` says which
it was until the next request is answered:

| Refused | Action | Then | `refused` |
|---|---|---|---|
| a list (`sync.rs:278-331`), a page of either pass | `ListRefused`, `VisitRefused` | `stand_down`: the cycle ends, the rest is long | `cycle` |
| receipts (`sync.rs:214-221`), a roster (`sync.rs:368-392`) | `AsideRefused` | logged; the next request follows | `logged` |
| a page of a priority visit (`lib.rs:800`) | `VisitRefused` | logged; the next request follows | `logged` |
| a download (`sync.rs:816-826`) | `MediaRefused` | the media pass ends, `finish` reports as ever: the rest may be short | `pass` |

`StandsDown` speaks of the first line alone, which is where the code asks `stand_down`.
`gained` and `progressed` carry what `ConversationOutcome` reports: new rows,
rows found changed, and a beginning reached.

### MessageContent

One message, `Target`, is edited and deleted; each change rewrites it at GroupMe
and appends an event to the conversation, as the comment at `sync.rs:939` says. A
page carries a snapshot of the target from the time of its answer. `row` has the
two places the code keeps a deletion in: `column` (`deleted_at`, merged with
`COALESCE`) and the content rebuilt from `raw_json` (replaced). `counted` is the
`deleted` count of `stats_events_daily`, as the set of deletions it includes; only
notices with the system flag are counted (`store.rs:1166`), which `IsGroup` stands for.

| Action | Code |
|---|---|
| `Frame` | `persist_message` of an event or another message, at any time, again or never |
| `WholeCopy` | a whole message of any age written late: a delayed frame of the target, or the answer of `client_edit_message` mirrored after its await |
| `MirrorDelete` | `client_delete_message` applying its own deletion |
| `Fetch`, `InsertRows`, `ApplyEvents`, `PutCursors` | a page: the answer, `insert_messages`, `apply_event` for each event, the cursors |

`ContentAt(n)` is the target as it was when the conversation had come to message n, so
`WholeCopy` may bring back anything the target ever was. `stale` is a history: whether the
last whole copy written came this way and was out of date. The two guarantees about the
content that readers see hold except then; what the column says, and the counts, do not
depend on it.

### Account

A token is a model value with an owner: the id `/users/me` would answer, or `None` for
one GroupMe refuses. The fingerprint is the token it was made of (a collision of hashes
is out of scope). `loop` is where `start_sync` stands, and each await is a boundary
between two actions.

| Action | Code |
|---|---|
| `Capture`, `LoadSaved` | the two sources of a token: an event any script of the page can emit, the credential store |
| `Publish`, `FindNoLoop`, `StartLoop`, `LoseRace` | `publish_token`: `send_if_modified`, or the race to fill `TOKEN_TX` |
| `Take`, `Identified`, `Unidentified` | `borrow_and_update`, `client.me()`; every error parks the loop |
| `Claim`, `Refuse`, `Die`, `DieClaimed` | `verify_account`, one lock region; an error of the archive ends the task, before or after the claim |
| `RecordFingerprint`, `SaveToken` | the two halves of `persist_token`, either may fail |
| `ShareClient`, `OpenSocket` | what may write is opened |
| `TokenChanged` | `changed()` where the loop is parked and in the `select!` of `run_sync_loop` |
| `Write`, `SocketStops` | messages reach the archive; an old worker runs until it notices its handle is gone |
| `Network`, `Restart` | the environment; a restart keeps the disk only |

### Connectivity

Polls are counted, not named: `probing`, then `good` or `bad` until one takes the lock.
`poll_now` from the loop of `run()` and from events of the page is the same action. The
override's flag is an atomic read outside the lock in one place and inside it in another,
and both are modelled where they are. `page` is what the window shows; navigation takes
effect at once. `placed` is the one variable without a counterpart: it tells whether the
watching task was the last to have a say on the page.

| Action | Code |
|---|---|
| `StartPoll`, `ProbeAnswers`, `Success`, `Failure` | `poll_now`: the probe, then `apply_result` under the lock |
| `Toggle`, `RefreshReads`, `RefreshForces` | the tray's toggle, `refresh_override`, `force_offline_now` |
| `WatchChange`, `Return` | the watching task, cut at its await of `preferred_ui` |
| `SwitchUi`, `RouterRoutes`, `ReadOffline`, `ReaderRetries`, `WindowLost`, `WindowRebuilt` | the user, the router, the reader and the watchdog move the window too |

### Library

A request and the write of its answer are two actions, and the server moves in between.
`evidence` is a history: whether the last answer stored about a group listed it.

| Action | Code |
|---|---|
| `Leave`, `Join`, `NewMessage`, `MarkRead` | the account on GroupMe, moved by this client or another |
| `GroupsAnswered`, `GroupsCutShort`, `StoreGroups` | `groups()` page by page (`api.rs:392`), then `upsert_group_meta` for each and `mark_former_groups` in one hop |
| `ChatsAnswered`, `StoreChats` | `chats()`, `upsert_chat` |
| `ReceiptsAnswered`, `StoreReceipts`, `ReceiptsFail` | `refresh_read_state`, `apply_read_receipts` |
| `ListRosters`, `DetailAnswered`, `StoreDetail`, `DetailFails` | `groups_needing_members`, `group_detail`, `upsert_group` |
| `ListFails` | an error of a list: the cycle goes on, or stands down |

`unread` has the three values the code can tell apart: none, some, and not known, for a
receipt names the last message read and no count.

### Media

Two fetchers, `engine` and `reader`, each `asking`, `got` (bytes in memory), `written`
(the file is there) or `refused`. The flags 0, 1 and 2 are those of the `attachments`
table. `Change` is what any edit or reaction does: the attachments of the row are deleted
and inserted again with the flag `media_cache` gives them, which forgets a refusal.
`StartPass` reads both queues once, avatars in no order with half of the budget as their
share, then the newest attachments. `Throttled` is the 429 that ends a pass.

### Realtime

A worker is the number of the token it was spawned for. `phase` is where its `run` stands.
`Rotate` is `start_sync` replacing the handle; the old worker learns of it only by reading
its channel to the end (`HangUp`), and cannot while it connects. `Connect` and `Handshake`
have a failing counterpart, `Lost`; `Unauthorized` is `looks_like_auth_failure`.
`TakeCommand` is `Obey` while the socket is up and `Note` in `wait_out_backoff`, where
typing is dropped. A refused subscription is an answer on its way (`rejected`), and what
`ReadRefusal` removes is what `conversation_of_channel` can name: a group, not a direct
message. `asked` is a history of what the reader last asked each worker to watch.

### DmKeys and Outbox

`DmKeys` has no state. A direct message is filed under the id of the other person
(`Stored`) and named on the socket by both ids in numerical order (`ThreadKey`).

In `Outbox` a message is its number in the order GroupMe accepted it. `request` holds the
send and the delete under way (the page allows one of each): `waiting`, `performed` (done
at GroupMe, answer on its way), `mirrored`. `call` numbers the presses, as the
`source_guid` of a send does, and a replay keeps the number it had. `Ascending` is the order
of a list read from the archive; `RemoveLocal` takes the optimistic row out of the list.

| Action | Code |
|---|---|
| `Open`, `Send`, `Delete` | `openConversation`, `doSend`, `doDelete` and the commands up to their request |
| `SendPerformed`, `DeletePerformed`, `OtherPosts` | GroupMe acts, and a frame is on its way or lost |
| `RateLimited`, `ServerError`, `Refused` | `send_with_policy`: what each status means before and after GroupMe has acted; `Retry` decides what is replayed |
| `Mirror`, `Return` | `mirror_to_archive`, then `replaceMessage` in the page |
| `StoreFrame`, `EmitFrame` | `persist`, then the event to the window |
| `Poll` | a visit, as far as this module needs it |

### Statistics

The file and the transaction of `migrate` are two records of the same shape; `Commit` and
`Crash` decide which remains. A message never changes but for its likes. The daily tables
are one function from conversation and day to a tally, which has a column for messages, for
likes either way and for each kind of event. `Counted` is the set a column counts, a
message or a message with who likes it; `Bucket` is `recompute_rollup_bucket`, which takes
the sizes of these sets, and which `InsertMessages` calls for the days of a page and
`BackfillMessages`, `BackfillLikes`, `BackfillEvents` replace for an old archive.

Who a message counts for is told apart by two fields, and direct messages lack one of
them. The notices of GroupMe have the user `System` for their sender everywhere (`UserOf`),
but the system flag in groups only (`IsSystem`; `sync.rs:945`). So `group_stats`, which
goes by the flag (`From`), takes GroupMe for a sender of a chat of two; the leaderboard and
`past_members`, which go by `sender_type` (`SentBy`, `Wrote`), do not; and the deletions of
a direct message are counted nowhere. `OffBoard` is what lies between the two. The panels are operators: `Board` sums the tally, `GroupStats`, `UserProfile`, `PastMembers`
and `CountsByKind` read the rows. A sum is the size of a set too (`SumOver`), so that what
it is equal to can be proved by a bijection and without induction.

### Updater

`at` says where the loop and the command of the dialog are: `start`, `asking`,
`downloading`, `closing` (the end is announced, the guard still up), `reannounce` (a click
that found the guard taken) and `installing`. `NextProcess` is the end of one process and
the start of the next, with nothing kept but the disk.

## 3. Runs

| Run | Question | Bounds |
|---|---|---|
| `SyncCursor` | are the cursors safe, do they keep `Archive`'s promise, is everything archived in the end? | one conversation of 3 growing to 6, pages of 2, budget 2, inclusive tail |
| `SyncCycle` | queue, order of passes, standing down, refinement; does the loop rest, and catch up? | a group of 2 and a direct message of 1, growing to 2, pages of 1, one priority request, one download |
| `MessageContent` | what do the merge rules guarantee? | one post of a group growing to 5 messages on two days, pages of 2, budget 2, frames of every message and copies of the first as it was at any time |
| `Account` | whose messages, what is kept, is a rotation lost, does a good token end in syncing? | two tokens of one person, one of another, one refused; one token on its way at a time |
| `Connectivity` | do state, override and page agree; does the state follow the network? | thresholds 3 and 1, four polls and override events at once |
| `Realtime` | is a session subscribed to what is watched, does the kept worker return, does the replaced one end? | two generations of the worker, a direct message and a group the server refuses, two commands queued |
| `Library` | does the former flag follow the evidence; do rows, flags and rosters settle? | two groups and a direct message, one roster per cycle, one move of the server |
| `Outbox` | does a press post once, is what is shown archived, does what was written in a group come to be read there? | a group and a direct message with a person of the lower id, one replay, two messages, two presses |
| `OutboxReadable` | is a frame that was stored read in its thread? **No** | the same |
| `Media` | do rows, files and flags agree; does everything that lives come? | an avatar, two attachments, two addresses a pass, one change, one restart |
| `Updater` | is something newer replaced by something older, does the dialog come to an end, does the last release land? | three versions, three clicks, two ends of the process |
| `Statistics` | is a migration whole, are the daily tables right, do the panels agree? | five messages of a group and two of a chat, notices in both, on two days, schemas 0, 1, 4 and 6, pages of at most 3, one like, one crash |

Why these are enough. A hole needs a window, a page that does not touch it and one
message between: three messages and pages shorter than the rest. A visit touches one row,
so one conversation is enough for `SyncCursor`; `SyncCycle` has two, and is shown to
refine the same module with two.
A page of 2 can be full, short or empty, and a budget of 2 is both spent and left
over; pages of 1 make every tail and walk of the cycle take several visits. One
request in the queue and one caller between push and notify cover the race with the
drain; the theorem about it has no such bound. `MaxSent` limits posts, not steps: the
engine goes on visiting when it is reached.

In `Account` one person with two tokens is what a rotation needs, a second person what a
switch of accounts needs, a refused token what parks the loop; the race to fill `TOKEN_TX`
needs two tokens on their way, which the saved one beside a captured one provides. Four
tasks in `Connectivity` are a tick, two events of the page and the override; three
failures in flight at once reach the threshold of 3. Counters of the code are only
compared with their thresholds, and the model counts up to these.

A rotation of the socket needs two workers; a command lost between them, or taken in the
middle of a reconnect, needs a queue of two (leave one thread, watch the next). The two
conversations differ in what a refusal of their subscription removes. In `Library` two
groups and a limit of one make the batch of rosters choose, and one move lands between
any request and its write; the settled state does not depend on how it was reached.
Two messages and two presses let a send be replayed beside an echo, a poll and a deletion,
and let the thread change under it. Media needs an avatar and two attachments so that
each share of the budget has somebody to starve. Three versions are what "older" needs,
two of them released while the process runs; a click that races the loop, one that restarts
and one after a failure are three. The seven messages of `Statistics` are one of each kind
the counts tell apart in a group, and a post and its deletion in a chat, where the notice
lacks the flag; and the four schemas are each a different set of arms still to run.

Nothing is assumed of the socket in `MessageContent`: a frame is handled whenever, as often
as it likes, or never, and one that shows the target shows it as it was at any time up to
then.

Two more properties are stated, hold on the same instances and have no run:
`NeverFalselyConnected` of `Realtime`, which is proved, and `SendingEnds` of `Outbox`; and so
do the type invariants, which are proved. `ReaderIsServed` has two parts: what a session is
subscribed to (`SubscribedIsWatched`), and what a worker with no command left watches
(`AskedIsWatched`). `TableSettles` has two as well, what rows and former flags come to.

Deadlock is checked in every run but two: the workers of `Realtime` that were refused have
stopped for good, and `Statistics` comes to an end when its bounds are used up.

### Fairness

`SyncCycle`: `WF(LoopStep)` and `WF(Notify)`. The loop is one task that is polled
whenever it can go on, its delay always ends, and a caller past its push has only a
synchronous call left before the notify. Nothing is assumed of failures: `GoesIdle`
holds though one conversation may fail in every cycle. Its two premises exclude what
is outside the loop: the process is not restarted for ever, and messages already held
cease to be changed by others. `CatchesUp` has the premise that failures cease.

`SyncCursor`: the scheduler is left open, so its fairness stands for what the cycle
does. Strong fairness on a full visit to each conversation, and on each step of one,
says that a visit is not interrupted every single time; `CatchesUp` derives the same
conclusion from the actual passes and weak fairness of the loop.

`Account`: `WF(LoopStep)` only. The tasks that hand tokens over, the page and the network
need not do anything. `GoodTokenSyncs` has the premise that GroupMe answers all along.

`Connectivity`: weak fairness of each step of the monitor and of the watching task.
`run()` polls for ever, a probe ends within its timeout, the lock is never held over an
await, and `preferred_ui` is one read of the archive. The user, the page and the
network may do as they like; `FollowsTheNetwork` has as premise that the network and the
override settle.

`Realtime`: weak fairness of the head of the loop and of the end of the delay. Strong
fairness of connecting and of the handshake: an attempt made over and over succeeds some
time. Strong fairness of reading the channel: `recv` is one arm of a `select!` that
answers at once when something is there or the channel is closed. The last is why
`DroppedWorkerEnds` holds only together with the one for `Connect`: `connect_async` has no
limit of its own (`realtime.rs:322`), and a worker inside it hears nothing.

`Library`: the loop runs cycle after cycle (weak), and a call made over and over is
answered some time (strong). Nothing of the world outside: its moves are bounded.

`Media`: the loop starts pass after pass (weak); an address asked for over and over is
answered some time, and disk and store accept what they are given over and over (strong).
`EverythingComes` names what the code does not promise: refused attachments without a
mark, and dead avatars, may fill the share of every pass.

`Outbox`: a request ends in one way or another, the two steps after it are run, an event
that was stored is emitted, and each thread is polled (weak). Frames may all be lost.

`Updater`: both calls have a time limit, so a run goes on and ends (weak); the loop comes
round again (weak); a release asked for again and again is found and downloaded (strong).

## 4. Disagreements between code and comments

The run `OutboxReadable` shows one: **a direct message that comes by the socket is filed
where nobody looks** (`realtime.rs:844`, comment at `realtime.rs:50`). Its row is written
under the thread key of the frame, the reader and the poll use the id of the person, and
`insert_messages` leaves a row under the key it was first given: the poll does not file
it again.

The modules state further sentences of comments and docs as definitions that TLC refutes
on the instances of the runs, with a suitable spec as INVARIANT or PROPERTY. They are in
no run, for the runs are kept to one for each question; a config that is in no run gives
TLC the instance where there is one:

| Config | With | Refutes |
|---|---|---|
| `SyncCycleRefused` | `MCSyncCycle` | `PausesWhereverRefused` |
| `SyncCursorEmpty` | `MCSyncCursor` | `CompleteIsComplete` where a conversation starts empty |
| `MessageContentGone`, `MessageContentText`, `MessageContentRollups` | `MCMessageContent` | `KnownGoneReadsGone`, `SettledTextIsCurrent`, `RollupsNeverDrift` |
| `AccountOutage` | `MCAccount` | `OutageOutlived` |

All of them, and what the code does:

| Definition | Code | Says otherwise |
|---|---|---|
| `PausesWhereverRefused` (`SyncCycle`) | only the lists and the pages of a cycle ask `stand_down`; after a refused priority visit, receipt or roster the next request follows (`lib.rs:800`, `sync.rs:214`, `sync.rs:368`) | `sync.rs:594`: "it applies wherever the error surfaced" |
| `CompleteIsComplete`, where a conversation starts empty (`SyncCursor`) | an empty first page seals the history (`sync.rs:674`): what is posted before the next visit beyond one page is never fetched | `docs/schema.md:213` |
| `KnownGoneReadsGone` (`MessageContent`) | a copy made before a deletion, in a page, a delayed frame or the answer of an edit, brings back the text: the column survives, `raw_json`, which readers use, does not (`store.rs:972`) | `store.rs:968` |
| `SettledTextIsCurrent` (`MessageContent`) | events are applied unconditionally, newest page first: of two edits on two pages the older wins for good (`sync.rs:958`) | `store.rs:1176` |
| `RollupsNeverDrift` (`MessageContent`) | a deletion is not recounted when its target is archived on another day's page (`store.rs:1041`) | `store.rs:1036` |
| `OutageOutlived` (`Account`) | any error of `/users/me` waits for a *different* token, and the page repeats the same one: a good kept token and an outage at the start park the loop for good (`lib.rs:688`) | `lib.rs:220` |
| `KnownMeansStored` | the fingerprint is written before the credential store is tried (`lib.rs:752`) | `lib.rs:737` |
| `EmptyListMarksNobody` | a list that is answered, and empty, marks every group former until the next one (`sync.rs:284`) | the comment there: "or returned nothing" |
| `ShownOnce` | a frame that overtakes the answer of a send is shown beside the optimistic row | `client_commands.rs:236` |
| `SentWhereWritten` | the text of a failed send comes back into whichever thread is open (`client.html:4402`) | the comments in `doSend` |
| `AnnouncedIsRunning` | a click between the end of a run and the fall of its guard announces a check nobody makes (`updater.rs:243`) | `updater.rs:242` |
| `NamesAreCurrent` | a page of older messages gives its senders their old names (`store.rs:995`) | nothing: it is what one expects of a profile |

What does hold in each of these neighbourhoods is checked beside it: `StandsDown`
where `stand_down` is asked, completeness where no conversation starts empty,
`GoodTokenSyncs` while GroupMe answers, `NothingKeptUnverified`, `WindowKnowsDeletion` of
the column for good and of the content until a stale copy comes, `OneEditIsKept` of one
change, `SameDayIsCounted` of deletions in a group on the day of their target,
`BoardIsOfTheRows` (never more deletions than there are), `SettlesReadable` for groups,
`PanelResolves`.

Plain from reading, without a definition: a visit to an empty conversation reports a
finished backfill every time (`sync.rs:676`, comment `sync.rs:115`), so that beside one that
keeps failing the loop rests two seconds for ever; a refusal of an asset is said to last the
process (`sync.rs:133`) and its mark in the store lasts longer; a panel is nine statements
without a transaction (`store.rs:1707`), so a page between two of them shows in one half;
the search index keeps the text of a deleted message; a deletion in a direct message has no
system flag and is never counted (`store.rs:1166`); connecting the socket has no time limit
(`realtime.rs:322`), so a connect that hangs keeps its worker for ever.

## 5. Proofs

All theorems hold for every value of the constants that their assumptions allow:
any set of conversations, page limit, budget and number of messages.

**The cursors** (`SyncCursor_proofs`). `NoHole` is not inductive: it says nothing of the
page in flight. `CursorInv` adds what makes the next write safe: the copy is the stored
row (`CopyIsCurrent`), the two ends are ordered and exist together (`WindowOK`), the page
touches the end it was asked for (`PageTouches`), and rows are there before cursors move
(`RowsBeforeCursors`). Each action gets one step. `CompleteMeansComplete` needs
`SealedAtTheStart`, which says the oldest cursor of a complete conversation is its first
message; this is where the assumption that no conversation starts empty enters. Without
it the theorem fails (section 4). `EngineKeepsThePromise` maps each step to
one of `Archive` or to a stutter: `InsertRows` to `Hold`, `PutCursors` to `Widen`,
`EmptyPage` to `Seal`.

**The loop** (`SyncCycle_proofs`). `LoopVisitsAsDescribed` shows by cases that every step of
the loop is a step of `SyncCursor` or leaves its variables alone, from `AwaitInv`: a visit
is under way only in the parts of the loop that await one. Through it the invariant of the
cursors is lifted (`LoopLeavesNoHole`). `NoWakeupIsLost` rests on `WakeInv`: whatever waits
in the queue was pushed by a caller that has still to notify, or whose permit nobody took
since the last drain. `RefusedCycleStandsDown` needs `AwaitInv` alone: it says that
no visit is under way where a list is refused, and which pass awaits the visit that is. `RecentBeforeDeep` rests on `PassInv`: in the deep pass every listed
conversation has been tailed or failed, and tailed is for good.

**The message** (`MessageContent_proofs`). None of the three guarantees is inductive: each
speaks of rows and cursors, while what breaks it travels in the page in flight. `ContentInv`
adds three facts. `SnapshotKnows`: a page in hand shows content no older than any change the
cursors enclose, for the cursors do not move while it is in hand. `AppliedKnows`: the events
of a page are applied before the cursors that enclose them are written. `ColumnKnows`: a page
whose rows are written has given the column what the cursors enclose already. No such fact
holds of a copy that comes by the socket or a mirror, which may be of any age: it leaves the
column (`SocketWrite`, by the merge of `Insert`), and it is the exception the two statements
about the content make (`stale`), until the next page that has the message. `CursorsAsDescribed`
lifts `CursorInv` from `SyncCursor_proofs`, since every step here is a step of the cursors or
leaves them alone; `LatestIsThere` (a nonempty set of events has a last one) is the only use
of well-founded induction. The results are `ContentTypeCorrect`, `EnclosedDeletionIsKnown`,
`EnclosedEditIsKept` and `DeletionOfTheDayIsCounted`.

**Start-up** (`Account_proofs`). `OnePerson` depends on everything that may write being of
the archive's account. `AccountInv` says so at the three places: the loop past the claim
(`LoopIsVerified`), the client and every socket that still runs (`OpenIsVerified`); and
that there is a loop exactly when there is a channel (`OneChannel`). The steps that need
an argument are `Claim` and `DieClaimed`: the owner changes only from `None`, and then
nothing was verified, so nothing was kept, open or written.

**The monitor and the window** (`Connectivity_proofs`). The counters are inductive with the
types. `OverrideHolds` needs `OverrideOnItsWay`: where the flag is on and every event of it
has been read, the state is Offline or a task is on its way to make it so.
`SettledMeansPlaced` needs `ReturnIsCurrent`: while the watching task awaits the preferred
surface, the state is still Online or a change is left for it to see.

**The conversations** (`Store_proofs`). `FormerFollowsEvidence` speaks of what was stored, and
what breaks it is the answer in hand: `AnswerOfItsKind` says that a list of groups names
groups and a list of chats none, so that nothing is marked without the evidence moving too
(`StoreGroupsStep`). `NothingGoesBack` is an action property that needs more: a row may only
be overwritten by an answer that is not older, which is `AnswerBetween`, the row behind the
answer and the answer behind the server, for each of the four writes.

**The media** (`Store_proofs`). `RowHasFile` is not inductive: it says nothing of a fetcher
that is about to write its row. `WrittenHasFile` does: whoever stands between file and
row has written the file. `FlagAgrees` needs in addition only that what is fetched is an
address (`FetchOfAddress`); the argument is in `MarkKeeps`, where a mark touches what is
pending only, and in `RecordKeeps`, where row and flag are one transaction.

`PassKeepsToItsBudget` is the type invariant of the module, whose last conjunct is not about
types: a pass never has more before it than `media_per_cycle`. The share of the avatars is
rounded up to one, yet no more than the budget, and `NewestAreFew` bounds the attachments
the `LIMIT` leaves: all but the oldest of them are newer than it (`LeastOfFinite`). It needs
avatars and attachments to be finitely many, as rows of a table are.

**The counts** (`Store_proofs`). The invariant is `CountsInv`. Of the file it says that it has
the schema of its version, that an older one has empty daily tables, and that every bucket
of a newest one is what the rows say (`FileIsOfItsVersion`). Of the transaction it says which
arms have been passed, and which columns are done where the backfill stands
(`WorkIsUnderWay`); that nothing is backfilled where nothing is held is what lets the last
arm go straight to the commit (`ArmKeeps`). A page changes only the buckets of its days, for
what it holds lies in no other (`InsertKeeps`, from `SameCounted` and `EventsCounted`: only
deletions look at a message elsewhere, and these only ever find more of them).

`BoardIsOfTheRows` follows from the buckets by `SumOfBuckets`: the sum of the sizes of
disjoint sets is the size of what they hold together (`SumOfParts`, a bijection between the
copies that are counted and the things). `PanelsAgree` needs the same for the conversations
of a profile and the senders of a group (`SumOfSizes`), injections between who is active, on
which day and by which message (`ActiveOnDays`), a bound for a sum (`SumIsBounded`), and that
a finite set of numbers has a largest (`MaxOfFinite`, by counting what is below each, for the
induction over finite sets is out of reach).

The assumptions are that users, conversations, messages and days are finitely many, that days
and messages are numbers, and that no conversation is called `"all"`, which stands for the
`None` of `leaderboard_on`.

**The keys** (`Outbox_proofs`). Facts about operators, for any two ids: both people of a
chat compute the same thread key (`OneKeyPerThread`), a message addressed by either form
goes to the same person (`BothFormsReachOne`), and to nobody rather than to a stranger
(`NeverAStranger`); reactions and channels agree on the form they send (`OneAddress`), and
the way back from a channel forgets the stored key (`ChannelsForgetStoredKeys`), which is why
a refused direct message stays in the watch set.

**A message sent** (`Outbox_proofs`). `OnePostPerCall` rests on `NotYetPosted`: a send that may
still be performed is of a press of which no message exists, which `ReplayKeeps` shows for
every status the policy replays. `ShownIsArchived` rests on `ArchivedBeforeShown`: what is on
its way to the window, a frame that was stored or an answer that was mirrored, has its row
unless a write was refused; and on `RowsStayFiled`, that a row keeps the key it has. The lists
of the window need `AscendingOfSet`: numbers put in order are the same numbers.

**The socket** (`Outbox_proofs`). `SubscribedIsWatched` holds only with `OnlyInSession`, that
subscriptions and refusals are of a session. `AskedIsWatched` speaks of a worker whose channel
is empty, and `LastWordCounts` of every other: what it watches, and the commands it has still
to take one after the other, come to what it was last asked (`AgreesAfterAsking` at one end of
the queue, `AgreesAfterTaking` at the other). `WorkersInOrder` says that no worker is newer
than the slot, so that a new one starts from nothing.

**The updater** (`Updater_proofs`). That nothing staged is replaced by something older rests on
the guard: `OneRun` says that who runs holds it and runs alone, `DownloadIsNotOlder` that
what is being downloaded is no older than what is staged, which only holds because nobody
else can stage meanwhile. `ChecksAreSerialised` is the first as a result of its own.

Every type invariant is proved (`AccountTypeCorrect` and its like) and is in no run, as are
`CopyIsCurrent` and `CountersAgree`.

Only model-checked is what needs ENABLED, which is out of the prover's reach: liveness
(`EverythingArchived`, `GoesIdle`, `CatchesUp`, `GoodTokenSyncs`, `FollowsTheNetwork`,
`KeepsComingBack`, `DroppedWorkerEnds`, `TableSettles`, `RostersFill`, `SettlesReadable`,
`EverythingComes`, `PanelResolves`, `UpdateLands`). No module uses RECURSIVE operators, and
nothing needs induction over data.

## 6. Abstractions

- Time: delays end; pacing and the length of the pause after a 429 are not measured.
- The order of visits within a pass is free; the code sorts by last activity.
- What the answers about rosters, read state and former flags write touches no state of
  `SyncCycle` and is `Library`'s; that GroupMe may refuse them is an action of `SyncCycle`,
  with as many requests as one likes.
- The media queue of `SyncCycle` is a number that only shrinks; new media would only delay
  resting.
- A row write that finds a message unchanged is not progress; one that finds it changed
  may or may not be, freely.
- A list call may fail, or write any subset of what it named.
- `MessageContent`: an edit gives a text of its own, and nobody edits a message GroupMe has
  deleted. Deletions of other messages are not followed.
- Which captured event is published first is free, and so is which poll takes the lock.
- Either live surface may be the preferred one, each time it is asked.
- The intervals of the monitor are not measured: several polls may fail within a second.
- `Realtime`: the ping of the socket and the watchdog are one way to lose it. Typing is a
  command without effect.
- `Library`: a conversation has one identity; that receipts name a direct message by its
  thread key is `DmKeys`'.
- `Outbox`: one send and one delete at a time, as the page has it. Edits and reactions are
  one call each and carry nothing across it. A poll writes all that is new at once.
- `Statistics`: points and the limit of 100 rows of a board, the first and last day of a
  member, avatars, and the search index are left out. Statements of the arms before the last
  fail only on a column that is there already: `migrate` ignores every error of theirs.
- `Updater`: progress, the text of phases and the address of the release page.

### Not modelled

- The proxy window (`proxy.rs`): to every caller a request that answers or fails, which
  is how the other modules have it.
- Parsing and rendering: data without state. Menus, labels, notifications, autostart,
  diagnostics: wiring without a protocol.
- Pins, mutes, blocks, uploads: one call or one statement each.
- Full-text search: triggers of the database keep the index.

## 7. Plan

Done: `Archive`, `SyncCursor`, `SyncCycle`, `MessageContent`, in this order, for the archive
is what the program is for and every other component feeds or reads it; `Account` and
`Connectivity`, which decide whether the loop runs and what the user sees; then what
surrounds the archive: `Realtime`, `Library`, `DmKeys` with `Outbox`, `Media`, `Updater`,
`Statistics`.

Every safety property and every action property of a run is proved. Left are:

1. `Outbox`: for groups, the safety half of `SettlesReadable`: a message of a group is never
   filed under a key its readers do not use.
2. `Library` and `Media`: what makes `TableSettles` and `EverythingComes` go on, as action
   properties: an answer that is stored brings its rows to the server's state and nothing
   takes them from it while the server is quiet; a pass leaves the addresses it asked
   for closer to done.
3. `Updater` and `Connectivity`: the same for `PanelResolves` and `FollowsTheNetwork`.
