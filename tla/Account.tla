------------------------------ MODULE Account ------------------------------
(***************************************************************************)
(* Whose archive this is: how an access token becomes the one sync loop of *)
(* the process (lib.rs, adopt_token to persist_token, and token.rs).       *)
(*                                                                         *)
(* A token comes from the page, through an event any script there may      *)
(* forge, or from the credential store at start-up.  It is published on a  *)
(* watch channel; the loop asks GroupMe whose it is, compares the answer   *)
(* with the account the archive belongs to, and only then keeps the token  *)
(* and opens what may write: the client, the socket, the sync engine.      *)
(*                                                                         *)
(* GroupMe's answers, the network and what the page emits are the          *)
(* environment.  What a cycle of the engine does is SyncCycle's; here it   *)
(* only leaves the name of an account in the archive.                      *)
(***************************************************************************)
EXTENDS Integers, FiniteSets

CONSTANTS
    Token,        \* what passes looks_like_token
    Account,      \* the ids /users/me can answer
    Owner,        \* whose a token is; None for one that GroupMe refuses
    None,
    MaxCaptured   \* bound: tokens handed over and not yet published

ASSUME AccountAssumption ==
    /\ None \notin Token \cup Account
    /\ Owner \in [Token -> Account \cup {None}]
    /\ MaxCaptured \in Nat \ {0}

VARIABLES
    archiveOwner,  \* meta account_user_id
    fingerprint,   \* meta token_fingerprint, as the token it is of
    keyring,       \* the platform credential store
    held,          \* whose messages archive.db holds
    loaded,        \* the start-up read of the credential store is done
    captured,      \* tokens handed to a task that has not looked at TOKEN_TX
    creating,      \* tokens whose task found no TOKEN_TX and builds one
    token,         \* the value of the watch channel, None before TOKEN_TX
    unseen,        \* the loop's receiver has not seen that value
    loop,          \* where start_sync stands
    working,       \* the token it is working with
    client,        \* SharedClient: the token of the write surface
    sockets,       \* the tokens of realtime workers that still run
    reachable      \* GroupMe answers

diskVars    == <<archiveOwner, fingerprint, keyring>>
publishVars == <<loaded, captured, creating>>
watchVars   == <<token, unseen>>
openVars    == <<client, sockets>>
vars == <<diskVars, held, publishVars, watchVars, loop, working, openVars,
          reachable>>

----------------------------------------------------------------------------
(* How a token reaches the loop *)

\* A bug NothingKeptUnverified must catch: what the page emits is kept.
BugKeepWhatIsCaptured(t) ==
    /\ Cardinality(captured \cup creating) < MaxCaptured
    /\ captured' = captured \cup {t}
    /\ keyring' = t
    /\ UNCHANGED <<archiveOwner, fingerprint, held, loaded, creating, watchVars,
                   loop, working, openVars, reachable>>

\* groupme://token with a payload of the right shape: a task is spawned.
Capture(t) ==
    /\ Cardinality(captured \cup creating) < MaxCaptured
    /\ captured' = captured \cup {t}
    /\ UNCHANGED <<diskVars, held, loaded, creating, watchVars, loop, working,
                   openVars, reachable>>

\* The start-up task reads the credential store, which may refuse.
LoadSaved ==
    /\ ~loaded
    /\ loaded' = TRUE
    /\ \/ keyring # None /\ captured' = captured \cup {keyring}
       \/ captured' = captured
    /\ UNCHANGED <<diskVars, held, creating, watchVars, loop, working, openVars,
                   reachable>>

\* A bug LatestTokenRuns must catch: the value is stored, the receiver is
\* told only if it waits.
BugTellOnlyTheWaiting(t) ==
    /\ t \in captured
    /\ token # None
    /\ captured' = captured \ {t}
    /\ token' = t
    /\ unseen' = (unseen \/ (token # t /\ loop \in {"parked", "sync"}))
    /\ UNCHANGED <<diskVars, held, loaded, creating, loop, working, openVars,
                   reachable>>

\* publish_token with a loop there: send_if_modified.
Publish(t) ==
    /\ t \in captured
    /\ token # None
    /\ captured' = captured \ {t}
    /\ token' = t
    /\ unseen' = (unseen \/ token # t)
    /\ UNCHANGED <<diskVars, held, loaded, creating, loop, working, openVars,
                   reachable>>

\* publish_token that finds TOKEN_TX empty and builds a channel.
FindNoLoop(t) ==
    /\ t \in captured
    /\ token = None
    /\ captured' = captured \ {t}
    /\ creating' = creating \cup {t}
    /\ UNCHANGED <<diskVars, held, loaded, watchVars, loop, working, openVars,
                   reachable>>

\* TOKEN_TX.set succeeds once; the winner starts the loop.
StartLoop(t) ==
    /\ t \in creating
    /\ token = None
    /\ creating' = creating \ {t}
    /\ token' = t
    /\ loop' = "take"
    /\ UNCHANGED <<diskVars, held, loaded, captured, unseen, working, openVars,
                   reachable>>

\* The loser drops its channel, and the token in it.
LoseRace(t) ==
    /\ t \in creating
    /\ token # None
    /\ creating' = creating \ {t}
    /\ UNCHANGED <<diskVars, held, loaded, captured, watchVars, loop, working,
                   openVars, reachable>>

----------------------------------------------------------------------------
(* start_sync, verify_account, persist_token *)

\* borrow_and_update, and a client for the token.
Take ==
    /\ loop = "take"
    /\ working' = token
    /\ unseen' = FALSE
    /\ loop' = "ask"
    /\ UNCHANGED <<diskVars, held, publishVars, token, openVars, reachable>>

Identified ==
    /\ loop = "ask"
    /\ reachable
    /\ Owner[working] # None
    /\ loop' = "claim"
    /\ UNCHANGED <<diskVars, held, publishVars, watchVars, working, openVars,
                   reachable>>

\* Any error of /users/me parks the loop until the channel changes.
Unidentified ==
    /\ loop = "ask"
    /\ ~reachable \/ Owner[working] = None
    /\ loop' = "parked"
    /\ UNCHANGED <<diskVars, held, publishVars, watchVars, working, openVars,
                   reachable>>

\* A bug OnePerson must catch: the archive goes to whoever signs in.
BugClaimForAnyone ==
    /\ loop = "claim"
    /\ archiveOwner' = Owner[working]
    /\ loop' = "fingerprint"
    /\ UNCHANGED <<fingerprint, keyring, held, publishVars, watchVars, working,
                   openVars, reachable>>

Claim ==
    /\ loop = "claim"
    /\ archiveOwner \in {None, Owner[working]}
    /\ archiveOwner' = Owner[working]
    /\ loop' = "fingerprint"
    /\ UNCHANGED <<fingerprint, keyring, held, publishVars, watchVars, working,
                   openVars, reachable>>

Refuse ==
    /\ loop = "claim"
    /\ archiveOwner \notin {None, Owner[working]}
    /\ loop' = "parked"
    /\ UNCHANGED <<diskVars, held, publishVars, watchVars, working, openVars,
                   reachable>>

\* The two errors that end the loop: no client, and no answer of the archive.
Die ==
    /\ loop \in {"take", "claim"}
    /\ loop' = "dead"
    /\ UNCHANGED <<diskVars, held, publishVars, watchVars, working, openVars,
                   reachable>>

\* The archive has taken the claim and fails on the account's name.
DieClaimed ==
    /\ loop = "claim"
    /\ archiveOwner \in {None, Owner[working]}
    /\ archiveOwner' = Owner[working]
    /\ loop' = "dead"
    /\ UNCHANGED <<fingerprint, keyring, held, publishVars, watchVars, working,
                   openVars, reachable>>

\* persist_token, first half; an error of the archive skips the second.
RecordFingerprint ==
    /\ loop = "fingerprint"
    /\ \/ /\ fingerprint' = working
          /\ loop' = IF fingerprint = working THEN "share" ELSE "save"
       \/ fingerprint' = fingerprint /\ loop' = "share"
    /\ UNCHANGED <<archiveOwner, keyring, held, publishVars, watchVars, working,
                   openVars, reachable>>

\* TokenStore::save, which the platform may refuse.
Save(t) == keyring' \in {t, keyring}

\* Second half; a refusal of the credential store is only logged.
SaveToken ==
    /\ loop = "save"
    /\ Save(working)
    /\ loop' = "share"
    /\ UNCHANGED <<archiveOwner, fingerprint, held, publishVars, watchVars,
                   working, openVars, reachable>>

ShareClient ==
    /\ loop = "share"
    /\ client' = working
    /\ loop' = "socket"
    /\ UNCHANGED <<diskVars, held, publishVars, watchVars, working, sockets,
                   reachable>>

\* The new handle replaces the old one, whose worker runs until it notices.
OpenSocket ==
    /\ loop = "socket"
    /\ sockets' = sockets \cup {working}
    /\ loop' = "sync"
    /\ UNCHANGED <<diskVars, held, publishVars, watchVars, working, client,
                   reachable>>

\* A bug GoodTokenSyncs must catch: only the loop that syncs watches.
BugParkedForGood ==
    /\ loop = "sync"
    /\ unseen
    /\ unseen' = FALSE
    /\ loop' = "take"
    /\ UNCHANGED <<diskVars, held, publishVars, token, working, openVars,
                   reachable>>

\* changed() in start_sync and in run_sync_loop's select: a fresh pass.
TokenChanged ==
    /\ loop \in {"parked", "sync"}
    /\ unseen
    /\ unseen' = FALSE
    /\ loop' = "take"
    /\ UNCHANGED <<diskVars, held, publishVars, token, working, openVars,
                   reachable>>

LoopStep ==
    \/ Take \/ Identified \/ Unidentified \/ Claim \/ Refuse
    \/ RecordFingerprint \/ SaveToken \/ ShareClient \/ OpenSocket
    \/ TokenChanged

----------------------------------------------------------------------------
(* What writes, and what happens to it all *)

\* The engine, a socket's frames and the client's commands write messages.
Write(t) ==
    /\ t \in sockets \/ t = client \/ (loop = "sync" /\ t = working)
    /\ held' = held \cup {Owner[t]}
    /\ UNCHANGED <<diskVars, publishVars, watchVars, loop, working, openVars,
                   reachable>>

\* A worker whose handle is gone or whose token is rejected returns.
SocketStops(t) ==
    /\ t \in sockets
    /\ sockets' = sockets \ {t}
    /\ UNCHANGED <<diskVars, held, publishVars, watchVars, loop, working, client,
                   reachable>>

Network ==
    /\ reachable' = ~reachable
    /\ UNCHANGED <<diskVars, held, publishVars, watchVars, loop, working,
                   openVars>>

\* The process ends and starts again: only the disk is left.
Restart ==
    /\ loaded' = FALSE
    /\ captured' = {}
    /\ creating' = {}
    /\ token' = None
    /\ unseen' = FALSE
    /\ loop' = "none"
    /\ working' = None
    /\ client' = None
    /\ sockets' = {}
    /\ UNCHANGED <<diskVars, held, reachable>>

----------------------------------------------------------------------------
Init ==
    /\ archiveOwner = None
    /\ fingerprint = None
    /\ keyring = None
    /\ held = {}
    /\ loaded = FALSE
    /\ captured = {}
    /\ creating = {}
    /\ token = None
    /\ unseen = FALSE
    /\ loop = "none"
    /\ working = None
    /\ client = None
    /\ sockets = {}
    /\ reachable = TRUE

PublishStep == \E t \in Token : Publish(t) \/ FindNoLoop(t) \/ StartLoop(t) \/ LoseRace(t)

Next ==
    \/ \E t \in Token : Capture(t) \/ Write(t) \/ SocketStops(t)
    \/ LoadSaved \/ PublishStep \/ LoopStep \/ Die \/ DieClaimed \/ Network \/ Restart

Spec == Init /\ [][Next]_vars

\* The loop runs; nothing is assumed of the page, the network, the credential
\* store or the tasks that hand tokens over.
FairSpec == Spec /\ WF_vars(LoopStep)

----------------------------------------------------------------------------
TypeOK ==
    /\ archiveOwner \in Account \cup {None}
    /\ fingerprint \in Token \cup {None}
    /\ keyring \in Token \cup {None}
    /\ held \subseteq Account
    /\ loaded \in BOOLEAN
    /\ captured \subseteq Token
    /\ creating \subseteq Token
    /\ token \in Token \cup {None}
    /\ unseen \in BOOLEAN
    /\ loop \in {"none", "take", "ask", "claim", "fingerprint", "save", "share",
                "socket", "sync", "parked", "dead"}
    /\ working \in Token \cup {None}
    /\ client \in Token \cup {None}
    /\ sockets \subseteq Token
    /\ reachable \in BOOLEAN

(***************************************************************************)
(* The archive never holds the messages of two people: whatever tokens the *)
(* page hands over, forged ones included, and however they and restarts    *)
(* fall between the steps of a loop, what writes is of the account that    *)
(* claimed the archive.                                                    *)
(***************************************************************************)
OnePerson == held \subseteq {archiveOwner}

(***************************************************************************)
(* No token is kept, and none recorded as kept, before GroupMe has said it *)
(* is of the account the archive belongs to.                               *)
(***************************************************************************)
NothingKeptUnverified ==
    \A t \in {fingerprint, keyring} \ {None} :
        Owner[t] # None /\ Owner[t] = archiveOwner

(***************************************************************************)
(* A rotation is never lost: a loop that has taken a token and was told of *)
(* no other works with the one last published.                             *)
(***************************************************************************)
LatestTokenRuns ==
    loop \notin {"none", "take", "dead"} /\ ~unseen => working = token

(***************************************************************************)
(* persist_token says of saving that it is skipped when the same token is  *)
(* already stored.  It looks at the fingerprint, which is written first.   *)
(***************************************************************************)
KnownMeansStored ==
    loop = "fingerprint" /\ fingerprint = working => keyring = working

Good(t) == archiveOwner \in {None, Owner[t]}

\* Where a token published by now may end: in the sync loop, or with something
\* that takes the loop, the channel or the archive from it.
Settled(t) ==
    \/ loop = "sync" /\ working = t
    \/ loop = "dead"
    \/ token # t
    \/ ~Good(t)

(***************************************************************************)
(* With GroupMe there, every good token published leads to syncing with    *)
(* it, whatever bad ones came before and wherever the loop was parked.     *)
(***************************************************************************)
GoodTokenSyncs ==
    []reachable =>
        \A t \in {u \in Token : Owner[u] # None} : token = t /\ Good(t) ~> Settled(t)

(***************************************************************************)
(* lib.rs says that a token kept by an earlier session starts the sync     *)
(* loop, with no visit to the web client, and that a revoked one parks it. *)
(* So it should once the network is back.  TLC refutes it: an outage at    *)
(* the one moment the loop asks parks a good token just the same, and the  *)
(* same token handed over again wakes nobody.                              *)
(***************************************************************************)
OutageOutlived ==
    <>[]reachable =>
        \A t \in {u \in Token : Owner[u] # None} :
            token = t /\ Good(t) /\ keyring = t ~> Settled(t)
=============================================================================
