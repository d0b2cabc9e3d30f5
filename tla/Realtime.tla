------------------------------ MODULE Realtime ------------------------------
(***************************************************************************)
(* The realtime worker (realtime.rs), its handle in the RealtimeSlot and   *)
(* the commands of the reader that reach it (client_watch_conversation,    *)
(* client_typing).                                                         *)
(*                                                                         *)
(* Every verified token spawns a worker, numbered here in that order, and  *)
(* its handle replaces the previous one.  A worker learns that it was      *)
(* replaced only by reading its command channel to the end, which it does  *)
(* while its socket is up or while it waits to reconnect: for a while two  *)
(* workers run and both report to the window.  The calls of the reader's   *)
(* page are tasks of their own and reach the slot in any order, so any     *)
(* thread may be left for any other.                                       *)
(*                                                                         *)
(* Time is not modelled: a timer is an action that may happen when it is   *)
(* armed.  The messages a socket brings are the subject of Outbox.         *)
(***************************************************************************)
EXTENDS Integers, Sequences, FiniteSets, Functions

CONSTANTS
    Conv,         \* the conversations a reader may open
    Groups,       \* those that are groups; the others are direct messages
    Denied,       \* channels the server refuses although the token is good
    NoThread,       \* no conversation
    MaxWorkers,   \* bound: verified tokens
    MaxCommands   \* bound: commands queued at once

ASSUME RealtimeAssumption ==
    /\ Groups \subseteq Conv
    /\ Denied \subseteq Conv
    /\ NoThread \notin Conv
    /\ MaxWorkers \in Nat \ {0}
    /\ MaxCommands \in Nat

Worker == 1..MaxWorkers

VARIABLES
    slot,       \* the worker whose handle is in the RealtimeSlot, 0 for none
    phase,      \* where each worker stands
    commands,   \* its channel: what it has not received yet
    watched,    \* its watch set
    subs,       \* the conversation channels the server granted its session
    rejected,   \* the refusals of this session it has not read yet
    notice,      \* the last realtime://state the window received, and from whom
    asked       \* what each handle was last asked to watch (a history)

sessionVars == <<watched, subs, rejected>>
realtimeVars == <<slot, phase, commands, sessionVars, notice, asked>>

Phases == {"none", "starting", "connecting", "handshaking", "live", "waiting",
           "gone"}
Status == {"connecting", "connected", "disconnected", "unauthorized"}

Command == [op : {"watch", "unwatch"}, conv : Conv]
             \cup [op : {"typing"}, conv : {NoThread}]

Watch(c)   == [op |-> "watch", conv |-> c]
Unwatch(c) == [op |-> "unwatch", conv |-> c]
Typing     == [op |-> "typing", conv |-> NoThread]   \* for whichever

\* publish_state: emitted to the main window, whoever speaks.
Publish(w, status) == notice' = [by |-> w, status |-> status]

\* What a refused subscription removes from the watch set: the inverse of the
\* channel name is the id of a group, and for a direct message a thread key
\* the watch set never holds.
NamedByChannel(c) == IF c \in Groups THEN {c} ELSE {}

----------------------------------------------------------------------------
(* The handle *)

Queued == FoldFunction(LAMBDA q, n : n + Len(q), 0, commands)

Queue(w, cs) == commands' = [commands EXCEPT ![w] = @ \o cs]

\* client_watch_conversation, holding the lock of the slot: leave the thread
\* the reader came from, watch the one that opens.
Leave(c, previous) ==
    IF previous \in {NoThread, c} THEN << >> ELSE <<Unwatch(previous)>>

OpenThread(c, previous) ==
    /\ slot # 0
    /\ phase[slot] # "gone"
    /\ Queued + 2 <= MaxCommands
    /\ Queue(slot, Leave(c, previous) \o <<Watch(c)>>)
    /\ asked' = [asked EXCEPT ![slot] = (@ \ {previous}) \cup {c}]
    /\ UNCHANGED <<slot, phase, sessionVars, notice>>

\* client_typing.
SendTyping ==
    /\ slot # 0
    /\ phase[slot] # "gone"
    /\ Queued < MaxCommands
    /\ Queue(slot, <<Typing>>)
    /\ UNCHANGED <<slot, phase, sessionVars, notice, asked>>

----------------------------------------------------------------------------
(* The worker *)

\* A token was verified: start_sync spawns a worker and drops the old handle.
Rotate ==
    /\ slot < MaxWorkers
    /\ slot' = slot + 1
    /\ phase' = [phase EXCEPT ![slot + 1] = "starting"]
    /\ UNCHANGED <<commands, sessionVars, notice, asked>>

\* The head of the loop of run.
Begin(w) ==
    /\ phase[w] = "starting"
    /\ phase' = [phase EXCEPT ![w] = "connecting"]
    /\ Publish(w, "connecting")
    /\ UNCHANGED <<slot, commands, sessionVars, asked>>

\* session returned an error of the transport, or the server closed.
EndSession(w) ==
    /\ phase' = [phase EXCEPT ![w] = "waiting"]
    /\ subs' = [subs EXCEPT ![w] = {}]
    /\ rejected' = [rejected EXCEPT ![w] = {}]
    /\ Publish(w, "disconnected")

\* The socket opens: connect_async, which has no timeout of its own.
Connect(w) ==
    /\ phase[w] = "connecting"
    /\ phase' = [phase EXCEPT ![w] = "handshaking"]
    /\ UNCHANGED <<slot, commands, sessionVars, notice, asked>>

\* What the server makes of a batch of subscriptions: a refusal is an answer
\* on its way, a grant holds at once.
Subscribe(w, cs) ==
    /\ subs' = [subs EXCEPT ![w] = @ \cup (cs \ Denied)]
    /\ rejected' = [rejected EXCEPT ![w] = @ \cup (cs \cap Denied)]

\* A bug ReaderIsServed must catch: a new session starts from nothing.
BugNoReplay(w) ==
    /\ phase' = [phase EXCEPT ![w] = "live"]
    /\ Subscribe(w, {})
    /\ Publish(w, "connected")

\* The batch that follows the handshake: the account's own channel and every
\* conversation watched, then the first connect.
StartSession(w) ==
    /\ phase' = [phase EXCEPT ![w] = "live"]
    /\ Subscribe(w, watched[w])
    /\ Publish(w, "connected")

\* read_handshake is answered in time, with a client id.
Handshake(w) ==
    /\ phase[w] = "handshaking"
    /\ StartSession(w)
    /\ UNCHANGED <<slot, commands, watched, asked>>

\* run returns: the worker is dropped with all it holds, its channel too.
Stop(w) ==
    /\ phase' = [phase EXCEPT ![w] = "gone"]
    /\ commands' = [commands EXCEPT ![w] = << >>]
    /\ watched' = [watched EXCEPT ![w] = {}]
    /\ subs' = [subs EXCEPT ![w] = {}]
    /\ rejected' = [rejected EXCEPT ![w] = {}]
    /\ asked' = [asked EXCEPT ![w] = {}]
    /\ UNCHANGED slot

\* An answer reads like a refusal of the token, whatever it meant: the worker
\* says so and stops for good.
Unauthorized(w) ==
    /\ phase[w] \in {"handshaking", "live"}
    /\ Stop(w)
    /\ Publish(w, "unauthorized")

\* The session fails: no connection, no handshake in time, a close, a
\* disconnect frame, a failed read or write, an answer that is an error, or
\* the watchdog on a silent server.
Lost(w) ==
    /\ phase[w] \in {"connecting", "handshaking", "live"}
    /\ EndSession(w)
    /\ UNCHANGED <<slot, commands, watched, asked>>

\* A subscription was refused and the token is not to blame.
ReadRefusal(w) ==
    /\ phase[w] = "live"
    /\ \E c \in rejected[w] :
          /\ rejected' = [rejected EXCEPT ![w] = @ \ {c}]
          /\ watched' = [watched EXCEPT ![w] = @ \ NamedByChannel(c)]
    /\ UNCHANGED <<slot, phase, commands, subs, notice, asked>>

\* A command received while the session is up.
Obey(w, cmd) ==
    CASE cmd.op = "watch" ->
            /\ watched' = [watched EXCEPT ![w] = @ \cup {cmd.conv}]
            /\ IF cmd.conv \in watched[w]
               THEN UNCHANGED <<subs, rejected>>
               ELSE Subscribe(w, {cmd.conv})
      [] cmd.op = "unwatch" ->
            /\ watched' = [watched EXCEPT ![w] = @ \ {cmd.conv}]
            /\ subs' = [subs EXCEPT ![w] = IF cmd.conv \in watched[w]
                                           THEN @ \ {cmd.conv} ELSE @]
            /\ UNCHANGED rejected
      [] cmd.op = "typing" -> UNCHANGED sessionVars

\* A bug ReaderIsServed must catch: what comes while there is no socket is drained
\* and forgotten.
BugForgetsOffline(w, cmd) == UNCHANGED sessionVars

\* A command received in wait_out_backoff: typing is dropped.
Note(w, cmd) ==
    /\ watched' = [watched EXCEPT ![w] =
                     CASE cmd.op = "watch"   -> @ \cup {cmd.conv}
                       [] cmd.op = "unwatch" -> @ \ {cmd.conv}
                       [] OTHER              -> @]
    /\ UNCHANGED <<subs, rejected>>

TakeCommand(w) ==
    /\ phase[w] \in {"live", "waiting"}
    /\ commands[w] # << >>
    /\ commands' = [commands EXCEPT ![w] = Tail(@)]
    /\ IF phase[w] = "live" THEN Obey(w, Head(commands[w]))
                            ELSE Note(w, Head(commands[w]))
    /\ UNCHANGED <<slot, phase, notice, asked>>

\* A bug DroppedWorkerEnds must catch: the worker owns a sender of its own
\* channel, which then never closes.
BugOwnSender(w) ==
    /\ phase[w] \in {"live", "waiting"}
    /\ commands[w] = << >>
    /\ slot = 0
    /\ Stop(w)
    /\ UNCHANGED notice

\* The channel is at its end, because the handle was replaced: the worker
\* returns, and says nothing.
HangUp(w) ==
    /\ phase[w] \in {"live", "waiting"}
    /\ commands[w] = << >>
    /\ slot # w
    /\ Stop(w)
    /\ UNCHANGED notice

\* A bug KeepsComingBack must catch: only a watch command ends the wait.
BugWaitsToBeAsked(w) ==
    /\ phase[w] = "waiting"
    /\ watched[w] # {}
    /\ phase' = [phase EXCEPT ![w] = "starting"]
    /\ UNCHANGED <<slot, commands, sessionVars, notice, asked>>

\* The delay of backoff_delay is over.
Retry(w) ==
    /\ phase[w] = "waiting"
    /\ phase' = [phase EXCEPT ![w] = "starting"]
    /\ UNCHANGED <<slot, commands, sessionVars, notice, asked>>

----------------------------------------------------------------------------
RealtimeInit ==
    /\ slot = 0
    /\ phase = [w \in Worker |-> "none"]
    /\ commands = [w \in Worker |-> << >>]
    /\ watched = [w \in Worker |-> {}]
    /\ subs = [w \in Worker |-> {}]
    /\ rejected = [w \in Worker |-> {}]
    /\ notice = [by |-> 0, status |-> "disconnected"]
    /\ asked = [w \in Worker |-> {}]

RealtimeNext ==
    \/ \E c \in Conv, previous \in Conv \cup {NoThread} : OpenThread(c, previous)
    \/ SendTyping
    \/ Rotate
    \/ \E w \in Worker :
          \/ Begin(w) \/ Connect(w) \/ Handshake(w) \/ Unauthorized(w)
          \/ Lost(w) \/ ReadRefusal(w) \/ TakeCommand(w) \/ HangUp(w)
          \/ Retry(w)

RealtimeSpec == RealtimeInit /\ [][RealtimeNext]_realtimeVars

\* The worker's own steps.  An attempt to connect made over and over succeeds
\* some time; recv answers at once when the channel has something or is
\* closed, so a socket or a timer cannot outrun it for ever.
Fairness ==
    \A w \in Worker :
        /\ WF_realtimeVars(Begin(w) \/ Retry(w))
        /\ SF_realtimeVars(Connect(w)) /\ SF_realtimeVars(Handshake(w))
        /\ SF_realtimeVars(TakeCommand(w) \/ HangUp(w))

FairRealtimeSpec == RealtimeSpec /\ Fairness

----------------------------------------------------------------------------
(* Properties *)

RealtimeTypeOK ==
    /\ slot \in 0..MaxWorkers
    /\ phase \in [Worker -> Phases]
    /\ commands \in [Worker -> Seq(Command)]
    /\ watched \in [Worker -> SUBSET Conv]
    /\ subs \in [Worker -> SUBSET Conv]
    /\ rejected \in [Worker -> SUBSET Conv]
    /\ notice \in [by : 0..MaxWorkers, status : Status]
    /\ asked \in [Worker -> SUBSET Conv]

\* A session is subscribed to what its worker watches and nothing else, over
\* reconnections, commands that arrive in the middle and refusals; only what
\* the server refuses is missing, and a refused group is watched no longer
\* than its refusal takes to be read (session and handle_text).
SubscribedIsWatched ==
    \A w \in Worker : phase[w] = "live" =>
        /\ subs[w] = watched[w] \ Denied
        /\ watched[w] \cap Denied \cap Groups \subseteq rejected[w]

\* Nothing a reader asked for is lost: whatever the worker was doing when the
\* commands came, once it has taken them it watches what it was last asked to,
\* up to refusals (watch_conversation, "safe while offline").
AskedIsWatched ==
    \A w \in Worker :
        phase[w] # "gone" /\ commands[w] = << >>
            => watched[w] \ Denied = asked[w] \ Denied

\* What a reader asked for reaches the server and nothing else does: whatever
\* befalls the sockets in between, the watch set follows the commands, and the
\* subscriptions the watch set (client_watch_conversation to session).
ReaderIsServed == SubscribedIsWatched /\ AskedIsWatched

\* The window reads Connected only while the worker that said so has a socket,
\* or has been replaced (publish_state around every end of session).
NeverFalselyConnected ==
    notice.status = "connected" =>
        phase[notice.by] = "live" \/ notice.by # slot

\* A worker whose handle is kept comes back from every lost socket, unless it
\* was refused (run and wait_out_backoff).
KeepsComingBack ==
    \A w \in Worker :
        <>[](slot = w) => []<>(phase[w] \in {"live", "gone"})

\* A worker whose handle was replaced ends, wherever it stood (the command
\* channel as the signal to stop; needs connect_async to answer).
DroppedWorkerEnds ==
    \A w \in Worker :
        (phase[w] # "none" /\ slot # w) ~> phase[w] = "gone"
=============================================================================
