-------------------------- MODULE Account_proofs --------------------------
(***************************************************************************)
(* What TLAPS proves of Account, for any tokens, accounts and owners.      *)
(***************************************************************************)
EXTENDS Account, TLAPS

----------------------------------------------------------------------------
(* The inductive invariant *)

\* GroupMe has said t is of the account the archive belongs to.
Verified(t) == Owner[t] # None /\ Owner[t] = archiveOwner

\* Past the claim, the loop works with a verified token.
LoopIsVerified ==
    /\ loop \notin {"none", "take", "dead"} => working \in Token
    /\ loop = "claim" => Owner[working] # None
    /\ loop \in {"fingerprint", "save", "share", "socket", "sync"} =>
           Verified(working)

\* What was opened is of a verified token.
OpenIsVerified ==
    /\ client # None => Verified(client)
    /\ \A t \in sockets : Verified(t)

\* There is a loop exactly when there is a channel.
OneChannel == loop = "none" <=> token = None

AccountInv ==
    /\ TypeOK
    /\ LoopIsVerified
    /\ OpenIsVerified
    /\ OneChannel
    /\ OnePerson
    /\ NothingKeptUnverified
    /\ LatestTokenRuns

----------------------------------------------------------------------------
(* Each step keeps it *)

LEMMA InitAccountInv == Init => AccountInv
BY DEF Init, AccountInv, TypeOK, LoopIsVerified, OpenIsVerified, OneChannel,
       OnePerson, NothingKeptUnverified, LatestTokenRuns

\* The steps that hand a token over change nothing the parts but the last speak of.
LEMMA PublishKeeps ==
    ASSUME AccountInv, NEW t \in Token,
           \/ Capture(t) \/ Publish(t) \/ FindNoLoop(t)
           \/ StartLoop(t) \/ LoseRace(t)
    PROVE  AccountInv'
<1> USE DEF AccountInv, diskVars, publishVars, watchVars, openVars
<1>1. TypeOK'
  BY AccountAssumption
     DEF TypeOK, Capture, Publish, FindNoLoop, StartLoop, LoseRace
<1>2. LoopIsVerified' /\ OpenIsVerified' /\ NothingKeptUnverified' /\ OnePerson'
  BY DEF TypeOK, LoopIsVerified, OpenIsVerified, NothingKeptUnverified,
         OnePerson, Verified, OneChannel,
         Capture, Publish, FindNoLoop, StartLoop, LoseRace
<1>3. OneChannel' /\ LatestTokenRuns'
  BY AccountAssumption
     DEF TypeOK, OneChannel, LatestTokenRuns,
         Capture, Publish, FindNoLoop, StartLoop, LoseRace
<1> QED
  BY <1>1, <1>2, <1>3

\* The steps of the loop before it has verified anything, and its ends.
LEMMA AskingKeeps ==
    ASSUME AccountInv,
           Take \/ Identified \/ Unidentified \/ Refuse \/ Die \/ TokenChanged
    PROVE  AccountInv'
<1> USE DEF AccountInv, diskVars, publishVars, watchVars, openVars
<1>1. TypeOK'
  BY AccountAssumption
     DEF TypeOK, OneChannel, Take, Identified, Unidentified, Refuse, Die, TokenChanged
<1>2. LoopIsVerified' /\ OneChannel' /\ LatestTokenRuns'
  BY AccountAssumption
     DEF TypeOK, LoopIsVerified, OneChannel, LatestTokenRuns,
         Take, Identified, Unidentified, Refuse, Die, TokenChanged
<1>3. OpenIsVerified' /\ NothingKeptUnverified' /\ OnePerson'
  BY DEF OpenIsVerified, NothingKeptUnverified, OnePerson, Verified,
         Take, Identified, Unidentified, Refuse, Die, TokenChanged
<1> QED
  BY <1>1, <1>2, <1>3

\* The claim: the owner changes only if there was none, and then nothing was
\* held, kept or open.
LEMMA ClaimKeeps ==
    ASSUME AccountInv, Claim \/ DieClaimed
    PROVE  AccountInv'
<1> USE DEF AccountInv, publishVars, watchVars, openVars
<1>1. working \in Token /\ Owner[working] # None /\ Owner[working] \in Account
  BY AccountAssumption DEF LoopIsVerified, Claim, DieClaimed
<1>2. TypeOK'
  BY <1>1 DEF TypeOK, Claim, DieClaimed
<1>3. \A t : Verified(t) => Verified(t)'
  BY DEF Verified, Claim, DieClaimed
<1>4. LoopIsVerified' /\ OneChannel' /\ LatestTokenRuns'
  BY <1>1 DEF LoopIsVerified, Verified, OneChannel, LatestTokenRuns, Claim, DieClaimed
<1>5. OpenIsVerified' /\ NothingKeptUnverified'
  BY DEF OpenIsVerified, NothingKeptUnverified, Verified, Claim, DieClaimed
<1>6. OnePerson'
  BY AccountAssumption DEF OnePerson, TypeOK, Claim, DieClaimed
<1> QED
  BY <1>2, <1>4, <1>5, <1>6

\* What follows the claim keeps and opens the verified token only.
LEMMA OpeningKeeps ==
    ASSUME AccountInv,
           RecordFingerprint \/ SaveToken \/ ShareClient \/ OpenSocket
    PROVE  AccountInv'
<1> USE DEF AccountInv, diskVars, publishVars, watchVars, openVars
<1>1. working \in Token /\ Verified(working)
  BY DEF LoopIsVerified, RecordFingerprint, SaveToken, Save, ShareClient, OpenSocket
<1>2. TypeOK'
  BY <1>1
     DEF TypeOK, RecordFingerprint, SaveToken, Save, ShareClient, OpenSocket
<1>3. LoopIsVerified' /\ OneChannel' /\ LatestTokenRuns'
  BY <1>1
     DEF LoopIsVerified, Verified, OneChannel, LatestTokenRuns,
         RecordFingerprint, SaveToken, Save, ShareClient, OpenSocket
<1>4. OpenIsVerified' /\ OnePerson'
  BY <1>1
     DEF OpenIsVerified, OnePerson, Verified,
         RecordFingerprint, SaveToken, Save, ShareClient, OpenSocket
<1>5. NothingKeptUnverified'
  BY <1>1
     DEF NothingKeptUnverified, Verified,
         RecordFingerprint, SaveToken, Save, ShareClient, OpenSocket
<1> QED
  BY <1>2, <1>3, <1>4, <1>5

\* Whatever writes is verified, so it writes of the archive's account.
LEMMA WriteKeeps ==
    ASSUME AccountInv, NEW t \in Token, Write(t)
    PROVE  AccountInv'
<1> USE DEF AccountInv, diskVars, publishVars, watchVars, openVars
<1>1. Verified(t)
  BY AccountAssumption DEF LoopIsVerified, OpenIsVerified, Write
<1>2. TypeOK' /\ OnePerson'
  BY <1>1, AccountAssumption DEF TypeOK, OnePerson, Verified, Write
<1>3. LoopIsVerified' /\ OpenIsVerified' /\ NothingKeptUnverified'
  BY DEF LoopIsVerified, OpenIsVerified, NothingKeptUnverified, Verified, Write
<1>4. OneChannel' /\ LatestTokenRuns'
  BY DEF OneChannel, LatestTokenRuns, Write
<1> QED
  BY <1>2, <1>3, <1>4

LEMMA OthersKeep ==
    ASSUME AccountInv,
           \/ \E t \in Token : SocketStops(t)
           \/ LoadSaved \/ Network \/ Restart \/ UNCHANGED vars
    PROVE  AccountInv'
<1> USE DEF AccountInv, diskVars, publishVars, watchVars, openVars
<1>1. TypeOK'
  BY DEF TypeOK, LoadSaved, SocketStops, Network, Restart, vars
<1>2. LoopIsVerified' /\ OpenIsVerified'
  BY DEF LoopIsVerified, OpenIsVerified, Verified, LoadSaved, SocketStops, Network, Restart,
         vars
<1>3. NothingKeptUnverified' /\ OnePerson'
  BY DEF NothingKeptUnverified, OnePerson, LoadSaved, SocketStops, Network, Restart, vars
<1>4. OneChannel' /\ LatestTokenRuns'
  BY DEF OneChannel, LatestTokenRuns, LoadSaved, SocketStops, Network, Restart, vars
<1> QED
  BY <1>1, <1>2, <1>3, <1>4

----------------------------------------------------------------------------
(* The theorems *)

\* The inductive invariant holds in every state of every behaviour.
THEOREM AccountInvariant == Spec => []AccountInv
<1>1. AccountInv /\ [Next]_vars => AccountInv'
  <2> SUFFICES ASSUME AccountInv, [Next]_vars
               PROVE  AccountInv'
    OBVIOUS
  <2>1. CASE PublishStep \/ \E t \in Token : Capture(t)
    BY <2>1, PublishKeeps DEF PublishStep
  <2>2. CASE LoopStep \/ Die \/ DieClaimed
    BY <2>2, AskingKeeps, ClaimKeeps, OpeningKeeps DEF LoopStep
  <2>3. CASE \E t \in Token : Write(t)
    BY <2>3, WriteKeeps
  <2>4. CASE \/ \E t \in Token : SocketStops(t)
             \/ LoadSaved \/ Network \/ Restart \/ UNCHANGED vars
    BY <2>4, OthersKeep
  <2> QED
    BY <2>1, <2>2, <2>3, <2>4 DEF Next
<1> QED
  BY <1>1, InitAccountInv, PTL DEF Spec

\* Every variable of start-up keeps its type.
THEOREM AccountTypeCorrect == Spec => []TypeOK
<1>1. AccountInv => TypeOK
  BY DEF AccountInv
<1> QED
  BY <1>1, AccountInvariant, PTL

\* Whatever tokens are handed over and whenever the process stops, the archive
\* holds the messages of one account only.
THEOREM ArchiveIsOfOnePerson == Spec => []OnePerson
<1>1. AccountInv => OnePerson
  BY DEF AccountInv
<1> QED
  BY <1>1, AccountInvariant, PTL

\* What the credential store and the fingerprint hold was verified first.
THEOREM KeptIsVerified == Spec => []NothingKeptUnverified
<1>1. AccountInv => NothingKeptUnverified
  BY DEF AccountInv
<1> QED
  BY <1>1, AccountInvariant, PTL

\* No rotation of the token is lost between the channel and the loop.
THEOREM NoRotationIsLost == Spec => []LatestTokenRuns
<1>1. AccountInv => LatestTokenRuns
  BY DEF AccountInv
<1> QED
  BY <1>1, AccountInvariant, PTL
=============================================================================
