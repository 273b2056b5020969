-------------------------- MODULE KeyDeliveryProofs --------------------------
(***************************************************************************)
(* Proofs about KeyDelivery for any viewers, limits and bounds.            *)
(*                                                                         *)
(* Positions ties the loop's counters to its program counter, GroupsOpened *)
(* says that the relay holds only groups the loop has opened, and Denial   *)
(* that neither the loop nor a delivery holds a key for a viewer that was  *)
(* on the deny list when the group was opened.                             *)
(***************************************************************************)
EXTENDS KeyDelivery, SumTheorems

Busy == pc \in {"capture", "epoch", "media", "cursor"}

\* Where the loop's counters are at each point of a frame.
Positions ==
    /\ pc = "read" => epoch >= 1 /\ group <= frame
    /\ Busy => epoch >= 1 /\ group >= 1 /\ group <= frame + 1 /\ frame < MaxFrames
    /\ (keysOut # {} \/ objectOut # "none") => epoch >= 1 /\ group >= 1
    /\ admin = "send" => target \in Viewers

TypeInv == TypeOK /\ Positions

\* No group is retained before the loop opens it, no envelope without its group.
GroupsOpened ==
    /\ \A g \in retained : g = Current \/ Newer(Current, g)
    /\ \A e \in envelopes : e[1] \in retained

\* Who may still be handed a key.
Denial ==
    /\ approvedFile \cap revokedFile = {}
    /\ historyOutbox \subseteq approvedFile
    /\ admin \notin {"flush", "send"} => todo = {}
    /\ todo \subseteq approvedFile
    /\ admin = "send" => target \in approvedFile
    /\ \A g \in Groups : denied[g] \subseteq revokedFile
    /\ Busy => approved \cap denied[Current] = {}
    /\ \A v \in keysOut : v \notin denied[Current]

DenialInv == TypeInv /\ GroupsOpened /\ Denial /\ RevokedNeverKeyed

-----------------------------------------------------------------------------
\* prune_key_history only removes keys.
LEMMA PruneIsSubset ==
    ASSUME NEW history, NEW now
    PROVE  PruneKeyHistory(history, now) \subseteq history
BY DEF PruneKeyHistory

\* Counting a frame's content keeps the keys well formed.
LEMMA CountedKeys ==
    ASSUME NEW history \in SUBSET RetainedKey, NEW n \in Nat
    PROVE  Counted(history, n) \in SUBSET RetainedKey
BY DEF Counted, RetainedKey

\* Once the loop has opened a group, the current one is a group.
LEMMA CurrentIsGroup ==
    ASSUME TypeOK, epoch >= 1, group >= 1
    PROVE  Current \in Groups
BY LimitsAssumption DEF TypeOK, Current, Groups

-----------------------------------------------------------------------------
(* Types *)

\* The empty files and a publisher that is not running are well typed.
LEMMA TypeInit == Init => TypeInv
<1> SUFFICES ASSUME Init PROVE TypeInv
  OBVIOUS
<1>1. denied \in [Groups -> SUBSET Viewers]
  BY DEF Init
<1>2. openAt \in [Viewers -> Groups \cup {NoGroup}]
  BY DEF Init
<1>3. starts \in BOOLEAN
  BY DEF Init
<1>4. TypeOK
  BY <1>1, <1>2, <1>3, LimitsAssumption DEF Init, TypeOK
<1>5. Positions
  BY DEF Init, Positions, Busy
<1>6. QED
  BY <1>4, <1>5 DEF TypeInv

\* Every step of the loop keeps the types.
LEMMA TypeLoop ==
    ASSUME TypeInv,
           \/ Connect \/ ReadApprovals \/ PublishEpoch \/ PublishFrame \/ RecordKey
           \/ PublishCursor \/ EndFrame \/ Drop
    PROVE  TypeInv'
<1> USE LimitsAssumption DEF fileVars, adminVars, loopVars, relayVars, ghostVars
<1>1. CASE Connect
  BY <1>1 DEF TypeInv, TypeOK, Positions, Busy, Connect
<1>2. CASE ReadApprovals
  <2>1. group' \in 0..MaxFrames /\ epoch >= 1 /\ group' >= 1 /\ group' <= frame + 1
    BY <1>2 DEF TypeInv, TypeOK, Positions, ReadApprovals, StartsGroup
  <2>2. denied' \in [Groups -> SUBSET Viewers]
    BY <1>2 DEF TypeInv, TypeOK, ReadApprovals
  <2>3. starts' \in BOOLEAN
    BY <1>2 DEF ReadApprovals, StartsGroup
  <2>4. TypeOK'
    BY <1>2, <2>1, <2>2, <2>3 DEF TypeInv, TypeOK, ReadApprovals
  <2>5. Positions'
    BY <1>2, <2>1 DEF TypeInv, TypeOK, Positions, Busy, ReadApprovals
  <2>6. QED
    BY <2>4, <2>5 DEF TypeInv
<1>3. CASE PublishEpoch
  BY <1>3 DEF TypeInv, TypeOK, Positions, Busy, PublishEpoch
<1>4. CASE PublishFrame
  BY <1>4 DEF TypeInv, TypeOK, Positions, Busy, PublishFrame
<1>5. CASE RecordKey
  <2>1. PICK now \in Times :
          /\ clock' = now
          /\ SaveKeyHistory(PruneKeyHistory(
               keyHistory \cup {[group |-> Current, bytes |-> 0, at |-> now]}, now))
    BY <1>5 DEF RecordKey
  <2>2. Current \in Groups
    BY <1>5, CurrentIsGroup DEF TypeInv, TypeOK, Positions, Busy, RecordKey
  <2>3. keyHistory \cup {[group |-> Current, bytes |-> 0, at |-> now]} \in SUBSET RetainedKey
    BY <2>2 DEF TypeInv, TypeOK, RetainedKey
  <2>4. keyHistory' \in SUBSET RetainedKey /\ keyFile' \in SUBSET RetainedKey
    BY <2>1, <2>3, PruneIsSubset DEF SaveKeyHistory
  <2>5. QED
    BY <1>5, <2>1, <2>2, <2>4 DEF TypeInv, TypeOK, Positions, Busy, RecordKey
<1>6. CASE PublishCursor
  BY <1>6 DEF TypeInv, TypeOK, Positions, Busy, PublishCursor
<1>7. CASE EndFrame
  <2> DEFINE n == IF pc = "media" THEN 1 ELSE 2
  <2>1. PICK now \in Times :
          clock' = now /\ SaveKeyHistory(PruneKeyHistory(Counted(keyHistory, n), now))
    BY <1>7 DEF EndFrame
  <2>2. Counted(keyHistory, n) \in SUBSET RetainedKey
    BY CountedKeys DEF TypeInv, TypeOK
  <2>3. keyHistory' \in SUBSET RetainedKey /\ keyFile' \in SUBSET RetainedKey
    BY <2>1, <2>2, PruneIsSubset DEF SaveKeyHistory
  <2>4. QED
    BY <1>7, <2>1, <2>3 DEF TypeInv, TypeOK, Positions, Busy, EndFrame
<1>8. CASE Drop
  BY <1>8 DEF TypeInv, TypeOK, Positions, Busy, Drop
<1>9. QED
  BY <1>1, <1>2, <1>3, <1>4, <1>5, <1>6, <1>7, <1>8

\* What the relay stores is well typed.
LEMMA TypeRelay ==
    ASSUME TypeInv, RelayEnvelope \/ RelayObject \/ RelayClose \/ Evict
    PROVE  TypeInv'
<1> USE LimitsAssumption DEF fileVars, adminVars, loopVars, relayVars, ghostVars
<1>1. CASE RelayEnvelope
  <2>1. envelopes' \in SUBSET (Groups \X Viewers)
    BY <1>1, CurrentIsGroup DEF TypeInv, TypeOK, Positions, RelayEnvelope, Kept
  <2>2. QED
    BY <1>1, <2>1 DEF TypeInv, TypeOK, Positions, Busy, RelayEnvelope
<1>2. CASE RelayObject
  <2>1. Current \in Groups
    BY <1>2, CurrentIsGroup DEF TypeInv, TypeOK, Positions, RelayObject
  <2>2. QED
    BY <1>2, <2>1 DEF TypeInv, TypeOK, Positions, Busy, RelayObject
<1>3. CASE RelayClose
  BY <1>3 DEF TypeInv, TypeOK, Positions, Busy, RelayClose
<1>4. CASE Evict
  BY <1>4 DEF TypeInv, TypeOK, Positions, Busy, Evict
<1>5. QED
  BY <1>1, <1>2, <1>3, <1>4

\* So is what an administration session writes.
LEMMA TypeAdmin ==
    ASSUME TypeInv,
           \/ \E vs \in SUBSET Viewers : Approve(vs)
           \/ \E v \in Viewers : Revoke(v) \/ LoadKeys(v)
           \/ Purge \/ RoundStep \/ SendKey \/ Confirm
           \/ QuotaRefuses \/ DeliveryFails \/ EndSession \/ SessionFails
    PROVE  TypeInv'
<1> USE LimitsAssumption DEF fileVars, adminVars, loopVars, relayVars, ghostVars
<1>1. ASSUME NEW vs \in SUBSET Viewers, Approve(vs) PROVE TypeInv'
  <2>1. Opening \in Groups \cup {NoGroup}
    BY CurrentIsGroup DEF Opening, TypeInv, TypeOK, Positions, Busy
  <2>2. openAt' \in [Viewers -> Groups \cup {NoGroup}]
    BY <1>1, <2>1 DEF Approve, TypeInv, TypeOK
  <2>3. QED
    BY <1>1, <2>2 DEF TypeInv, TypeOK, Positions, Busy, Approve
<1>2. ASSUME NEW v \in Viewers, Revoke(v) PROVE TypeInv'
  BY <1>2 DEF TypeInv, TypeOK, Positions, Busy, Revoke
<1>3. ASSUME NEW v \in Viewers, LoadKeys(v) PROVE TypeInv'
  <2>1. Offered \in SUBSET Groups
    BY DEF Offered, TypeInv, TypeOK, RetainedKey
  <2>2. QED
    BY <1>3, <2>1 DEF TypeInv, TypeOK, Positions, Busy, LoadKeys
<1>4. CASE Purge
  BY <1>4 DEF TypeInv, TypeOK, Positions, Busy, Purge
<1>11. CASE RoundStep
  BY <1>11 DEF TypeInv, TypeOK, Positions, Busy, RoundStep, Synchronize, LoadPolicy,
               RoundRefused, FlushOutbox, OutboxRefused
<1>5. CASE SendKey
  <2>1. envelopes' \in SUBSET (Groups \X Viewers)
    BY <1>5 DEF TypeInv, TypeOK, Positions, SendKey, Kept
  <2>2. QED
    BY <1>5, <2>1 DEF TypeInv, TypeOK, Positions, Busy, SendKey
<1>6. CASE Confirm
  BY <1>6 DEF TypeInv, TypeOK, Positions, Busy, Confirm
<1>7. CASE QuotaRefuses \/ DeliveryFails
  BY <1>7 DEF TypeInv, TypeOK, Positions, Busy, QuotaRefuses, DeliveryFails
<1>8. CASE EndSession
  BY <1>8 DEF TypeInv, TypeOK, Positions, Busy, EndSession
<1>9. CASE SessionFails
  BY <1>9 DEF TypeInv, TypeOK, Positions, Busy, SessionFails
<1>10. QED
  BY <1>1, <1>2, <1>3, <1>4, <1>5, <1>6, <1>7, <1>8, <1>9, <1>11

\* Every step keeps the types.
LEMMA TypeStep == TypeInv /\ [Next]_vars => TypeInv'
<1> SUFFICES ASSUME TypeInv, [Next]_vars PROVE TypeInv'
  OBVIOUS
<1>1. CASE UNCHANGED vars
  BY <1>1 DEF vars, fileVars, adminVars, loopVars, relayVars, ghostVars, TypeInv, TypeOK,
              Positions, Busy
<1>2. CASE Next
  BY <1>2, TypeLoop, TypeRelay, TypeAdmin DEF Next
<1>3. QED
  BY <1>1, <1>2

\* Both files, the connection and the relay's rows stay well formed, for any
\* set of viewers, any history limits and any bounds.
THEOREM KeyTypesCorrect == Spec => []TypeOK
<1>1. TypeInv => TypeOK
  BY DEF TypeInv
<1>2. QED
  BY <1>1, TypeInit, TypeStep, PTL DEF Spec

-----------------------------------------------------------------------------
(* Revocation *)

\* Nothing is denied, retained or approved at first.
LEMMA DenialInit == Init => DenialInv
<1> SUFFICES ASSUME Init PROVE DenialInv
  OBVIOUS
<1>1. TypeInv
  BY TypeInit
<1>2. GroupsOpened /\ Denial /\ RevokedNeverKeyed
  BY DEF Init, GroupsOpened, Denial, Busy, RevokedNeverKeyed
<1>3. QED
  BY <1>1, <1>2 DEF DenialInv

\* A fresh epoch or number is above every retained group.
LEMMA FreshGroup ==
    ASSUME TypeInv, GroupsOpened, NEW g \in retained
    PROVE  /\ g[1] \in Nat /\ g[2] \in Nat
           /\ g[1] <= epoch
           /\ g[1] = epoch => g[2] <= group
           /\ g = <<g[1], g[2]>>
BY LimitsAssumption DEF TypeInv, TypeOK, GroupsOpened, Groups, Current, Newer

\* Connecting starts a fresh epoch.
LEMMA DenialConnect ==
    ASSUME DenialInv, Connect
    PROVE  GroupsOpened' /\ Denial' /\ RevokedNeverKeyed'
<1> USE DEF fileVars, adminVars, loopVars, relayVars, ghostVars
<1>1. GroupsOpened'
  <2>1. \A g \in retained : g[1] \in Nat /\ g[1] <= epoch
    BY FreshGroup DEF DenialInv
  <2>2. QED
    BY <2>1 DEF DenialInv, TypeInv, TypeOK, GroupsOpened, Connect, Current, Newer
<1>2. Denial'
  BY DEF DenialInv, Denial, Connect, Busy
<1>3. RevokedNeverKeyed'
  BY DEF DenialInv, RevokedNeverKeyed, Connect
<1>4. QED
  BY <1>1, <1>2, <1>3

\* Opening a group records the deny list and nothing is sealed under it yet;
\* going on with a group keys only viewers that are not on the deny list.
LEMMA DenialRead ==
    ASSUME DenialInv, ReadApprovals
    PROVE  GroupsOpened' /\ Denial' /\ RevokedNeverKeyed'
<1> USE DEF fileVars, adminVars, loopVars, relayVars, ghostVars
<1> DEFINE fresh == <<epoch, group + 1>>
<1>1. group \in Nat /\ epoch \in Nat /\ epoch >= 1 /\ frame < MaxFrames /\ group <= frame
  BY LimitsAssumption DEF DenialInv, TypeInv, TypeOK, Positions, ReadApprovals
<1>2. \A g \in retained : g[1] \in Nat /\ g[2] \in Nat /\ g[1] <= epoch
                          /\ (g[1] = epoch => g[2] <= group) /\ g = <<g[1], g[2]>>
  BY FreshGroup DEF DenialInv
<1>3. \A g \in retained : g # fresh /\ Newer(fresh, g)
  BY <1>1, <1>2 DEF Newer
<1>4. CASE StartsGroup
  <2>1. /\ group' = group + 1 /\ keysOut' = {}
        /\ denied' = [denied EXCEPT ![fresh] = revokedFile]
        /\ Current' = fresh
    BY <1>4 DEF ReadApprovals, Current
  <2>2. fresh \in Groups
    BY <1>1, LimitsAssumption DEF Groups, DenialInv, TypeInv, TypeOK
  <2>3. GroupsOpened'
    BY <1>3, <2>1 DEF DenialInv, GroupsOpened, ReadApprovals
  <2>4. denied'[fresh] = revokedFile /\ \A g \in Groups : g # fresh => denied'[g] = denied[g]
    BY <2>1, <2>2 DEF DenialInv, TypeInv, TypeOK
  <2>5. Denial'
    BY <2>1, <2>2, <2>4 DEF DenialInv, Denial, ReadApprovals, Busy
  <2>6. RevokedNeverKeyed'
    <3>1. \A e \in envelopes : e[1] \in Groups /\ e[1] # fresh
      BY <1>3 DEF DenialInv, GroupsOpened, TypeInv, TypeOK
    <3>2. QED
      BY <3>1, <2>4 DEF DenialInv, RevokedNeverKeyed, ReadApprovals
  <2>7. QED
    BY <2>3, <2>5, <2>6
<1>5. CASE ~StartsGroup
  <2>1. /\ group' = group /\ keysOut' = approvedFile \ approved /\ denied' = denied
        /\ Current' = Current /\ approved' = approvedFile
    BY <1>5 DEF ReadApprovals, Current
  <2>2. Current \in Groups
    BY <1>1, <1>5, CurrentIsGroup DEF StartsGroup, DenialInv, TypeInv
  <2>3. GroupsOpened' /\ RevokedNeverKeyed'
    BY <2>1 DEF DenialInv, GroupsOpened, RevokedNeverKeyed, ReadApprovals
  <2>4. Denial'
    BY <2>1, <2>2 DEF DenialInv, Denial, ReadApprovals, Busy
  <2>5. QED
    BY <2>3, <2>4
<1>6. QED
  BY <1>4, <1>5

\* The rest of a frame seals keys for the viewers read at its start only.
LEMMA DenialFrame ==
    ASSUME DenialInv,
           PublishEpoch \/ PublishFrame \/ RecordKey \/ PublishCursor \/ EndFrame \/ Drop
    PROVE  GroupsOpened' /\ Denial' /\ RevokedNeverKeyed'
<1> USE DEF fileVars, adminVars, loopVars, relayVars, ghostVars
<1>1. Current' = Current /\ retained' = retained /\ envelopes' = envelopes /\ denied' = denied
  BY DEF Current, PublishEpoch, PublishFrame, RecordKey, PublishCursor, EndFrame, Drop
<1>2. GroupsOpened' /\ RevokedNeverKeyed'
  BY <1>1 DEF DenialInv, GroupsOpened, RevokedNeverKeyed
<1>3. Denial'
  BY <1>1 DEF DenialInv, Denial, Busy, PublishEpoch, PublishFrame, RecordKey, PublishCursor,
              EndFrame, Drop
<1>4. QED
  BY <1>2, <1>3

\* The relay stores what was sent for the current group.
LEMMA DenialRelay ==
    ASSUME DenialInv, RelayEnvelope \/ RelayObject \/ RelayClose \/ Evict
    PROVE  GroupsOpened' /\ Denial' /\ RevokedNeverKeyed'
<1> USE DEF fileVars, adminVars, loopVars, relayVars, ghostVars
<1>1. Current' = Current /\ denied' = denied
  BY DEF Current, RelayEnvelope, RelayObject, RelayClose, Evict
<1>2. Denial'
  BY <1>1 DEF DenialInv, Denial, Busy, RelayEnvelope, RelayObject, RelayClose, Evict
<1>3. GroupsOpened' /\ RevokedNeverKeyed'
  <2>1. CASE RelayEnvelope
    BY <2>1, <1>1 DEF DenialInv, Denial, GroupsOpened, RevokedNeverKeyed, RelayEnvelope, Kept
  <2>2. CASE RelayObject
    BY <2>2, <1>1 DEF DenialInv, GroupsOpened, RevokedNeverKeyed, RelayObject
  <2>3. CASE RelayClose
    BY <2>3, <1>1 DEF DenialInv, GroupsOpened, RevokedNeverKeyed, RelayClose
  <2>4. CASE Evict
    BY <2>4, <1>1 DEF DenialInv, GroupsOpened, RevokedNeverKeyed, Evict
  <2>5. QED
    BY <2>1, <2>2, <2>3, <2>4
<1>4. QED
  BY <1>2, <1>3

\* A session holds the lock, so the grant it delivers keys for cannot be
\* revoked before it ends.
LEMMA DenialAdmin ==
    ASSUME DenialInv,
           \/ \E vs \in SUBSET Viewers : Approve(vs)
           \/ \E v \in Viewers : Revoke(v) \/ LoadKeys(v)
           \/ Purge \/ RoundStep \/ SendKey \/ Confirm
           \/ QuotaRefuses \/ DeliveryFails \/ EndSession \/ SessionFails
    PROVE  GroupsOpened' /\ Denial' /\ RevokedNeverKeyed'
<1> USE DEF fileVars, adminVars, loopVars, relayVars, ghostVars
<1>1. Current' = Current /\ denied' = denied /\ retained' = retained
  BY DEF Current, Approve, Revoke, LoadKeys, Purge, RoundStep, Synchronize, LoadPolicy,
         RoundRefused, FlushOutbox, OutboxRefused, SendKey, Confirm, QuotaRefuses,
         DeliveryFails, EndSession, SessionFails
<1>2. Denial'
  <2>1. ASSUME NEW vs \in SUBSET Viewers, Approve(vs) PROVE Denial'
    BY <2>1, <1>1 DEF DenialInv, Denial, Busy, Approve
  <2>2. ASSUME NEW v \in Viewers, Revoke(v) PROVE Denial'
    BY <2>2, <1>1 DEF DenialInv, Denial, Busy, Revoke, Locked
  <2>3. ASSUME NEW v \in Viewers, LoadKeys(v) PROVE Denial'
    BY <2>3, <1>1 DEF DenialInv, Denial, Busy, LoadKeys
  <2>4. CASE SendKey \/ Confirm \/ QuotaRefuses \/ DeliveryFails \/ EndSession \/ SessionFails
    BY <2>4, <1>1 DEF DenialInv, Denial, Busy, SendKey, Confirm, QuotaRefuses, DeliveryFails,
                      EndSession, SessionFails
  <2>6. CASE Purge \/ RoundStep
    <3>1. /\ UNCHANGED <<approvedFile, revokedFile, historyOutbox, target, denied, approved, pc,
                          keysOut, Current>>
          /\ todo' = todo \/ todo' = historyOutbox
          /\ admin' \notin {"flush", "send"} =>
                \/ admin \notin {"flush", "send"} /\ todo' = todo
                \/ UNCHANGED <<admin, todo>>
          /\ admin' = "send" => admin = "send"
      BY <2>6, <1>1 DEF Purge, RoundStep, Synchronize, LoadPolicy, RoundRefused, FlushOutbox,
                        OutboxRefused, Locked
    <3>2. QED
      BY <3>1 DEF DenialInv, Denial, Busy
  <2>5. QED
    BY <2>1, <2>2, <2>3, <2>4, <2>6
<1>3. GroupsOpened' /\ RevokedNeverKeyed'
  <2>1. CASE SendKey
    <3>1. \A e \in envelopes' : e \in envelopes \/ (e[1] \in retained /\ e[2] = target)
      BY <2>1 DEF SendKey, Kept
    <3>2. \A g \in retained : target \notin denied[g]
      BY <2>1 DEF DenialInv, Denial, SendKey, TypeInv, TypeOK
    <3>3. QED
      BY <3>1, <3>2, <1>1 DEF DenialInv, GroupsOpened, RevokedNeverKeyed
  <2>2. CASE ~SendKey
    <3>1. envelopes' = envelopes
      BY <2>2 DEF Approve, Revoke, LoadKeys, Purge, RoundStep, Synchronize, LoadPolicy,
                  RoundRefused, FlushOutbox, OutboxRefused, Confirm, QuotaRefuses,
                  DeliveryFails, EndSession, SessionFails
    <3>2. QED
      BY <3>1, <1>1 DEF DenialInv, GroupsOpened, RevokedNeverKeyed
  <2>3. QED
    BY <2>1, <2>2
<1>4. QED
  BY <1>2, <1>3

\* Every step keeps the deny list's guarantee.
LEMMA DenialStep == DenialInv /\ [Next]_vars => DenialInv'
<1> SUFFICES ASSUME DenialInv, [Next]_vars PROVE DenialInv'
  OBVIOUS
<1>1. TypeInv'
  BY TypeStep DEF DenialInv
<1>2. GroupsOpened' /\ Denial' /\ RevokedNeverKeyed'
  <2>1. CASE UNCHANGED vars
    BY <2>1 DEF vars, fileVars, adminVars, loopVars, relayVars, ghostVars, DenialInv,
                GroupsOpened, Denial, Busy, RevokedNeverKeyed, Current
  <2>2. CASE Next
    BY <2>2, DenialConnect, DenialRead, DenialFrame, DenialRelay, DenialAdmin DEF Next
  <2>3. QED
    BY <2>1, <2>2
<1>3. QED
  BY <1>1, <1>2 DEF DenialInv

\* However approvals, revocations, deliveries, crashes and frames interleave,
\* no key of a group opened after the loop read a revocation is ever stored
\* for the revoked viewer.
THEOREM RevocationIsFinal == Spec => []RevokedNeverKeyed
<1>1. DenialInv => RevokedNeverKeyed
  BY DEF DenialInv
<1>2. QED
  BY <1>1, DenialInit, DenialStep, PTL DEF Spec

-----------------------------------------------------------------------------
(* The publisher and the relay agree on what comes next *)

\* What is in flight at each point of a frame, where the sequence is, and
\* whether the relay has the current group yet.
InStep ==
    /\ objectOut # "none" => sequence = committed + 1
    /\ pc # "down" /\ objectOut = "none" => sequence = committed
    /\ pc \in {"read", "capture"} => objectOut = "none"
    /\ pc = "epoch" => objectOut \in {"none", "epoch"}
    /\ pc \in {"media", "cursor"} => objectOut \in {"none", "media", "cursor"}
    /\ pc = "read" /\ group # 0 => Current \in retained
    /\ pc = "capture" => (starts <=> Current \notin retained)
    /\ pc = "epoch" /\ objectOut = "none" => Current \in retained
    /\ pc \in {"media", "cursor"} => Current \in retained
    /\ objectOut = "epoch" => Current \notin retained
    /\ objectOut \in {"media", "cursor"} => Current \in retained

StepInv == TypeInv /\ GroupsOpened /\ InStep

\* At first nothing is in flight.
LEMMA StepInit == Init => StepInv
<1> SUFFICES ASSUME Init PROVE StepInv
  OBVIOUS
<1>1. TypeInv
  BY TypeInit
<1>2. GroupsOpened /\ InStep
  BY DEF Init, GroupsOpened, InStep
<1>3. QED
  BY <1>1, <1>2 DEF StepInv

\* The loop resumes at the mark and opens groups the relay does not have.
LEMMA StepLoop ==
    ASSUME StepInv,
           \/ Connect \/ ReadApprovals \/ PublishEpoch \/ PublishFrame \/ RecordKey
           \/ PublishCursor \/ EndFrame \/ Drop
    PROVE  InStep'
<1> USE DEF fileVars, adminVars, loopVars, relayVars, ghostVars
<1>1. CASE Connect
  BY <1>1 DEF StepInv, InStep, Connect, Current
<1>2. CASE ReadApprovals
  <2>1. CASE StartsGroup
    <3>1. Current' = <<epoch, group + 1>>
      BY <1>2, <2>1 DEF ReadApprovals, Current
    <3>2. <<epoch, group + 1>> \notin retained
      BY FreshGroup DEF StepInv, TypeInv, TypeOK
    <3>3. QED
      BY <1>2, <2>1, <3>1, <3>2 DEF StepInv, InStep, ReadApprovals
  <2>2. CASE ~StartsGroup
    <3>1. Current' = Current /\ group # 0
      BY <1>2, <2>2 DEF ReadApprovals, Current, StartsGroup
    <3>2. QED
      BY <1>2, <2>2, <3>1 DEF StepInv, InStep, ReadApprovals
  <2>3. QED
    BY <2>1, <2>2
<1>3. CASE PublishEpoch
  BY <1>3 DEF StepInv, TypeInv, TypeOK, InStep, PublishEpoch, Current
<1>4. CASE PublishFrame
  BY <1>4 DEF StepInv, TypeInv, TypeOK, InStep, PublishFrame, Current
<1>5. CASE RecordKey
  BY <1>5 DEF StepInv, TypeInv, TypeOK, InStep, RecordKey, Current
<1>6. CASE PublishCursor
  BY <1>6 DEF StepInv, TypeInv, TypeOK, InStep, PublishCursor, Current
<1>7. CASE EndFrame
  BY <1>7 DEF StepInv, TypeInv, TypeOK, InStep, EndFrame, Current
<1>8. CASE Drop
  BY <1>8 DEF StepInv, InStep, Drop, Current
<1>9. QED
  BY <1>1, <1>2, <1>3, <1>4, <1>5, <1>6, <1>7, <1>8

\* The relay's steps: retention never takes the group being written.
LEMMA StepRelay ==
    ASSUME StepInv, RelayEnvelope \/ RelayObject \/ RelayClose \/ Evict
    PROVE  InStep'
<1> USE DEF fileVars, adminVars, loopVars, relayVars, ghostVars
<1>1. CASE RelayEnvelope
  BY <1>1 DEF StepInv, InStep, RelayEnvelope, Current
<1>2. CASE RelayObject
  BY <1>2 DEF StepInv, TypeInv, TypeOK, InStep, RelayObject, Accepts, Current
<1>3. CASE RelayClose
  BY <1>3 DEF StepInv, InStep, RelayClose, Current
<1>4. CASE Evict
  <2> DEFINE evicted == Oldest(retained)
  <2>0. \A h \in retained : ~Newer(h, Current)
    BY DEF StepInv, TypeInv, TypeOK, GroupsOpened, Groups, Current, Newer
  <2>1. PICK g : /\ retained' = retained \ {g}
                 /\ g # Current \/ (pc = "down" /\ objectOut = "none")
    <3>1. retained' = retained \ {evicted} /\ Complete(evicted)
      BY <1>4 DEF Evict
    <3> HIDE DEF evicted
    <3>2. evicted # Current \/ (pc = "down" /\ objectOut = "none")
      BY <2>0, <3>1 DEF Complete, Current
    <3>3. QED
      BY <3>1, <3>2
  <2>2. Current' = Current
    BY <1>4 DEF Evict, Current
  <2>3. pc' = pc /\ objectOut' = objectOut /\ sequence' = sequence /\ committed' = committed
        /\ group' = group /\ starts' = starts
    BY <1>4 DEF Evict
  <2>4. CASE g # Current
    BY <2>1, <2>2, <2>3, <2>4 DEF StepInv, InStep
  <2>5. CASE pc = "down" /\ objectOut = "none"
    BY <2>2, <2>3, <2>5 DEF StepInv, InStep
  <2>6. QED
    BY <2>1, <2>4, <2>5
<1>5. QED
  BY <1>1, <1>2, <1>3, <1>4

\* Administration does not touch the publisher's connection.
LEMMA StepAdmin ==
    ASSUME StepInv,
           \/ \E vs \in SUBSET Viewers : Approve(vs)
           \/ \E v \in Viewers : Revoke(v) \/ LoadKeys(v)
           \/ Purge \/ RoundStep \/ SendKey \/ Confirm
           \/ QuotaRefuses \/ DeliveryFails \/ EndSession \/ SessionFails
    PROVE  InStep'
<1>1. UNCHANGED <<pc, epoch, group, sequence, starts, objectOut, committed, retained>>
  BY DEF Approve, Revoke, LoadKeys, Purge, RoundStep, Synchronize, LoadPolicy, RoundRefused,
         FlushOutbox, OutboxRefused, SendKey, Confirm, QuotaRefuses, DeliveryFails,
         EndSession, SessionFails, loopVars, relayVars
<1>2. QED
  BY <1>1 DEF StepInv, InStep, Current

\* The groups of the relay stay opened ones along every step.
LEMMA OpenedStep ==
    ASSUME StepInv, Next
    PROVE  GroupsOpened'
<1> USE DEF fileVars, adminVars, loopVars, relayVars, ghostVars
<1>1. \A g \in retained : g[1] \in Nat /\ g[2] \in Nat /\ g[1] <= epoch
                          /\ (g[1] = epoch => g[2] <= group) /\ g = <<g[1], g[2]>>
  BY FreshGroup DEF StepInv
<1>2. epoch \in Nat /\ group \in Nat
  BY LimitsAssumption DEF StepInv, TypeInv, TypeOK
<1>3. CASE Connect
  BY <1>1, <1>2, <1>3 DEF StepInv, GroupsOpened, Connect, Current, Newer
<1>4. CASE ReadApprovals
  <2>1. /\ retained' = retained /\ envelopes' = envelopes /\ epoch' = epoch
        /\ group' \in {group, group + 1}
    BY <1>4 DEF ReadApprovals
  <2>2. \A g \in retained : g = <<epoch, group'>> \/ Newer(<<epoch, group'>>, g)
    BY <1>1, <1>2, <2>1 DEF Newer
  <2>3. QED
    BY <2>1, <2>2 DEF StepInv, GroupsOpened, Current
<1>5. CASE RelayEnvelope
  BY <1>5 DEF StepInv, GroupsOpened, RelayEnvelope, Kept, Current, Newer
<1>6. CASE RelayObject
  BY <1>6 DEF StepInv, GroupsOpened, RelayObject, Current, Newer
<1>7. CASE Evict
  BY <1>7 DEF StepInv, GroupsOpened, Evict, Current, Newer
<1>8. CASE SendKey
  <2>1. \A e \in envelopes' : e \in envelopes \/ e[1] \in retained
    BY <1>8 DEF SendKey, Kept
  <2>2. QED
    BY <1>8, <2>1 DEF StepInv, GroupsOpened, SendKey, Current, Newer
<1>9. CASE \/ PublishEpoch \/ PublishFrame \/ RecordKey \/ PublishCursor \/ EndFrame \/ Drop
          \/ RelayClose
          \/ (\E vs \in SUBSET Viewers : Approve(vs))
          \/ (\E v \in Viewers : Revoke(v) \/ LoadKeys(v))
          \/ Purge \/ RoundStep \/ Confirm
          \/ QuotaRefuses \/ DeliveryFails \/ EndSession \/ SessionFails
  <2>1. retained' = retained /\ envelopes' = envelopes /\ epoch' = epoch /\ group' = group
    BY <1>9 DEF PublishEpoch, PublishFrame, RecordKey, PublishCursor, EndFrame, Drop,
                RelayClose, Approve, Revoke, LoadKeys, Purge, RoundStep, Synchronize,
                LoadPolicy, RoundRefused, FlushOutbox, OutboxRefused, Confirm, QuotaRefuses,
                DeliveryFails, EndSession, SessionFails
  <2>2. QED
    BY <2>1 DEF StepInv, GroupsOpened, Current, Newer
<1>10. QED
  BY <1>3, <1>4, <1>5, <1>6, <1>7, <1>8, <1>9 DEF Next

\* Every step keeps the publisher and the relay in step.
LEMMA StepStep == StepInv /\ [Next]_vars => StepInv'
<1> SUFFICES ASSUME StepInv, [Next]_vars PROVE StepInv'
  OBVIOUS
<1>1. TypeInv'
  BY TypeStep DEF StepInv
<1>2. GroupsOpened' /\ InStep'
  <2>1. CASE UNCHANGED vars
    BY <2>1 DEF vars, fileVars, adminVars, loopVars, relayVars, ghostVars, StepInv,
                GroupsOpened, InStep, Current, Newer
  <2>2. CASE Next
    BY <2>2, OpenedStep, StepLoop, StepRelay, StepAdmin DEF Next
  <2>3. QED
    BY <2>1, <2>2
<1>3. QED
  BY <1>1, <1>2 DEF StepInv

\* Every object the publisher has in flight is one the relay accepts: the next
\* sequence, and a new group exactly at its epoch object, also after
\* connections were lost with or without what they carried.
THEOREM RelayAccepts == Spec => []NeverRefused
<1>1. StepInv => NeverRefused
  BY DEF StepInv, InStep, NeverRefused, Accepts, GroupsOpened, TypeInv, TypeOK
<1>2. QED
  BY <1>1, StepInit, StepStep, PTL DEF Spec
-----------------------------------------------------------------------------
(* A delivered grant is complete *)

\* key-history.bin through a frame: the loop's copy is the file's, a key is
\* recorded once, none is newer than the current group's, and the current one
\* has content exactly when the group's first frame is over.
KeyLedger ==
    /\ pc # "down" => keyHistory = keyFile
    /\ \A k \in keyFile : k.group = Current \/ Newer(Current, k.group)
    /\ \A j, k \in keyFile : j.group = k.group => j = k
    /\ (pc \in {"capture", "epoch"} /\ starts) \/ objectOut = "epoch" =>
            \A k \in keyFile : k.group # Current
    /\ pc = "read" \/ (Busy /\ ~ starts) =>
            \A k \in keyFile : k.group = Current => k.bytes > 0
    /\ pc = "epoch" => starts

\* The live path: once the current key is sealed, every viewer read at the
\* start of the frame has it or will get it before the next object; a viewer
\* approved since then, in a group's first frame, has that group recorded.
LiveKeys ==
    /\ \/ pc = "read"
       \/ pc \in {"media", "cursor"} /\ objectOut = "none"
       \/ pc \in {"capture", "epoch"} /\ starts
       => keysOut = {}
    /\ \/ pc = "read" /\ group # 0
       \/ pc \in {"media", "cursor"}
       \/ pc = "capture" /\ ~ starts
       => \A v \in approved : <<Current, v>> \in envelopes \/ v \in keysOut
    /\ Busy /\ starts => \A v \in approvedFile \ approved : openAt[v] = Current

\* The session tries each queued grant once.
Outbox ==
    /\ todo \subseteq historyOutbox
    /\ admin = "send" => target \in historyOutbox /\ target \notin todo

\* The grants whose history was delivered, and the one under delivery.
Served(v) == v \notin historyOutbox \/ (admin = "send" /\ v = target)

Held ==
    \A v \in approvedFile : Served(v) =>
        \A k \in keyFile : k.bytes > 0 /\ k.group \in retained /\ k.group # openAt[v] =>
            <<k.group, v>> \in envelopes \/ (admin = "send" /\ v = target /\ k.group \in plan)

GrantBase == DenialInv /\ StepInv

GrantInv == KeyLedger /\ LiveKeys /\ Outbox /\ Held

\* At first there is neither a key nor a grant.
LEMMA GrantInit == Init => GrantInv
BY DEF Init, GrantInv, KeyLedger, LiveKeys, Outbox, Held, Busy

\* Retention takes the group being written only when its session is over.
LEMMA EvictedGroup ==
    ASSUME StepInv, Evict
    PROVE  \E g : /\ retained' = retained \ {g}
                  /\ envelopes' = {e \in envelopes : e[1] # g}
                  /\ g # Current \/ pc = "down"
<1> DEFINE evicted == Oldest(retained)
<1>1. /\ retained' = retained \ {evicted} /\ Complete(evicted)
      /\ envelopes' = {e \in envelopes : e[1] # evicted}
  BY DEF Evict
<1>2. \A h \in retained : ~Newer(h, Current)
  BY DEF StepInv, TypeInv, TypeOK, GroupsOpened, Groups, Current, Newer
<1> HIDE DEF evicted
<1>3. evicted # Current \/ pc = "down"
  BY <1>1, <1>2 DEF Complete, Current
<1>4. QED
  BY <1>1, <1>3

\* The group numbers of a key.
LEMMA KeyGroups ==
    ASSUME TypeOK, KeyLedger, NEW k \in keyFile
    PROVE  /\ k.group[1] \in Nat /\ k.group[2] \in Nat /\ k.group = <<k.group[1], k.group[2]>>
           /\ k.group[1] <= epoch /\ (k.group[1] = epoch => k.group[2] <= group)
           /\ k.bytes \in Nat /\ k \in RetainedKey
<1>1. k \in RetainedKey /\ k.group \in Groups /\ k.bytes \in Nat
  BY DEF TypeOK, RetainedKey
<1>2. k.group[1] \in Nat /\ k.group[2] \in Nat /\ k.group = <<k.group[1], k.group[2]>>
  BY <1>1, LimitsAssumption DEF Groups
<1>3. epoch \in Nat /\ group \in Nat
  BY LimitsAssumption DEF TypeOK
<1>4. k.group = <<epoch, group>> \/ Newer(<<epoch, group>>, k.group)
  BY DEF KeyLedger, Current
<1>5. QED
  BY <1>1, <1>2, <1>3, <1>4 DEF Newer

\* What EndFrame writes: the old keys, the current one with more content.
LEMMA CountedFacts ==
    ASSUME TypeOK, KeyLedger, NEW n \in Nat \ {0}
    PROVE  \A k \in Counted(keyFile, n) :
              \E j \in keyFile : /\ j.group = k.group
                                 /\ j.group # Current => k = j
                                 /\ j.group = Current => k = [j EXCEPT !.bytes = @ + n] /\ k.bytes > 0
<1> SUFFICES ASSUME NEW k \in Counted(keyFile, n)
             PROVE  \E j \in keyFile : /\ j.group = k.group
                                       /\ j.group # Current => k = j
                                       /\ j.group = Current =>
                                             k = [j EXCEPT !.bytes = @ + n] /\ k.bytes > 0
  OBVIOUS
<1>1. PICK j \in keyFile : k = IF IsNewest(j, keyFile) /\ j.group = Current
                               THEN [j EXCEPT !.bytes = @ + n] ELSE j
  BY DEF Counted
<1>2. j \in RetainedKey /\ j.bytes \in Nat
  BY KeyGroups
<1>3. CASE j.group # Current
  BY <1>1, <1>3
<1>4. CASE j.group = Current
  <2>1. IsNewest(j, keyFile)
    BY <1>4 DEF IsNewest, KeyLedger
  <2>2. k = [j EXCEPT !.bytes = @ + n]
    BY <1>1, <1>4, <2>1
  <2>3. k.group = j.group /\ k.bytes = j.bytes + n
    BY <1>2, <2>2 DEF RetainedKey
  <2>4. QED
    BY <1>2, <1>4, <2>2, <2>3
<1>5. QED
  BY <1>3, <1>4

\* The key history through the loop's steps.
LEMMA LedgerLoop ==
    ASSUME GrantBase, KeyLedger,
           \/ Connect \/ ReadApprovals \/ PublishEpoch \/ PublishFrame \/ RecordKey
           \/ PublishCursor \/ EndFrame \/ Drop
    PROVE  KeyLedger'
<1> USE DEF fileVars, adminVars, loopVars, relayVars, ghostVars
<1>0. TypeOK /\ InStep /\ Positions /\ epoch \in Nat /\ group \in Nat /\ starts \in BOOLEAN
  BY LimitsAssumption DEF GrantBase, StepInv, TypeInv, TypeOK
<1>1. CASE Connect
  <2>1. keyFile' = keyFile /\ keyHistory' = keyFile /\ pc' = "read" /\ objectOut' = "none"
        /\ Current' = <<epoch + 1, 0>>
    BY <1>1 DEF Connect, Current
  <2>2. \A k \in keyFile : k.group # <<epoch + 1, 0>> /\ Newer(<<epoch + 1, 0>>, k.group)
    BY <1>0, KeyGroups DEF Newer
  <2>3. QED
    BY <2>1, <2>2 DEF KeyLedger, Busy
<1>2. CASE ReadApprovals
  <2>1. keyFile' = keyFile /\ keyHistory' = keyHistory /\ pc = "read" /\ pc' = "capture"
        /\ objectOut' = objectOut /\ objectOut = "none" /\ epoch' = epoch
    BY <1>0, <1>2 DEF ReadApprovals, InStep
  <2>2. CASE StartsGroup
    <3>1. Current' = <<epoch, group + 1>> /\ starts' = TRUE
      BY <1>2, <2>2 DEF ReadApprovals, Current
    <3>2. \A k \in keyFile : k.group # <<epoch, group + 1>> /\ Newer(<<epoch, group + 1>>, k.group)
      BY <1>0, KeyGroups DEF Newer
    <3>3. QED
      BY <2>1, <3>1, <3>2 DEF KeyLedger, Busy
  <2>3. CASE ~ StartsGroup
    <3>1. Current' = Current /\ starts' = FALSE
      BY <1>2, <2>3 DEF ReadApprovals, Current
    <3>2. QED
      BY <2>1, <3>1 DEF KeyLedger, Busy, Newer
  <2>4. QED
    BY <2>2, <2>3
<1>3. CASE PublishEpoch
  BY <1>3 DEF KeyLedger, Busy, PublishEpoch, Current, Newer
<1>4. CASE PublishFrame
  BY <1>4 DEF KeyLedger, Busy, PublishFrame, Current, Newer
<1>5. CASE RecordKey
  <2>1. PICK key : /\ key.group = Current
                   /\ keyFile' \subseteq keyFile \cup {key} /\ keyHistory' = keyFile'
    <3>1. PICK now \in Times :
            SaveKeyHistory(PruneKeyHistory(
               keyHistory \cup {[group |-> Current, bytes |-> 0, at |-> now]}, now))
      BY <1>5 DEF RecordKey
    <3>2. keyHistory = keyFile
      BY <1>5 DEF RecordKey, KeyLedger
    <3>3. keyFile' \subseteq keyFile \cup {[group |-> Current, bytes |-> 0, at |-> now]}
          /\ keyHistory' = keyFile'
      BY <3>1, <3>2, PruneIsSubset DEF SaveKeyHistory
    <3>4. QED
      BY <3>3
  <2>2. pc = "epoch" /\ pc' = "media" /\ objectOut' = "media" /\ starts' = starts /\ starts
        /\ Current' = Current
    BY <1>5 DEF RecordKey, Current, KeyLedger
  <2>3. \A k \in keyFile : k.group # Current
    BY <2>2 DEF KeyLedger
  <2>4. \A k \in keyFile' : k \in keyFile \/ k = key
    BY <2>1
  <2>5. \A j, k \in keyFile' : j.group = k.group => j = k
    BY <2>1, <2>3, <2>4 DEF KeyLedger
  <2>6. \A k \in keyFile' : k.group = Current \/ Newer(Current, k.group)
    BY <2>1, <2>4 DEF KeyLedger
  <2>7. QED
    BY <2>1, <2>2, <2>5, <2>6 DEF KeyLedger, Busy
<1>6. CASE PublishCursor
  BY <1>6 DEF KeyLedger, Busy, PublishCursor, Current, Newer
<1>7. CASE EndFrame
  <2> DEFINE n == IF pc = "media" THEN 1 ELSE 2
  <2>1. keyFile' \subseteq Counted(keyFile, n) /\ keyHistory' = keyFile'
    <3>1. PICK now \in Times : SaveKeyHistory(PruneKeyHistory(Counted(keyHistory, n), now))
      BY <1>7 DEF EndFrame
    <3>2. keyHistory = keyFile
      BY <1>7 DEF EndFrame, KeyLedger
    <3>3. QED
      BY <3>1, <3>2, PruneIsSubset DEF SaveKeyHistory
  <2>2. pc' = "read" /\ objectOut' = "none" /\ Current' = Current
    BY <1>7 DEF EndFrame, Current
  <2>3. n \in Nat \ {0}
    OBVIOUS
  <2> HIDE DEF n
  <2>4. \A k \in keyFile' :
            \E j \in keyFile : /\ j.group = k.group
                               /\ j.group # Current => k = j
                               /\ j.group = Current => k = [j EXCEPT !.bytes = @ + n] /\ k.bytes > 0
    BY <1>0, <2>1, <2>3, CountedFacts
  <2>5. \A j, k \in keyFile' : j.group = k.group => j = k
    BY <2>4 DEF KeyLedger
  <2>6. \A k \in keyFile' : k.group = Current \/ Newer(Current, k.group)
    BY <2>4 DEF KeyLedger
  <2>7. \A k \in keyFile' : k.group = Current => k.bytes > 0
    BY <2>4
  <2>8. QED
    BY <2>1, <2>2, <2>5, <2>6, <2>7 DEF KeyLedger, Busy
<1>8. CASE Drop
  BY <1>8 DEF KeyLedger, Busy, Drop, Current, Newer
<1>9. QED
  BY <1>1, <1>2, <1>3, <1>4, <1>5, <1>6, <1>7, <1>8

\* Steps of the relay and of administration sessions.
Elsewhere ==
    \/ RelayEnvelope \/ RelayObject \/ RelayClose \/ Evict
    \/ \E vs \in SUBSET Viewers : Approve(vs)
    \/ \E v \in Viewers : Revoke(v) \/ LoadKeys(v)
    \/ Purge \/ RoundStep \/ SendKey \/ Confirm
    \/ QuotaRefuses \/ DeliveryFails \/ EndSession \/ SessionFails

\* They leave the loop and both histories of keys alone.
LEMMA ElsewhereKeepsLoop ==
    ASSUME Elsewhere
    PROVE  /\ UNCHANGED <<loopVars, keyFile>> /\ Current' = Current
           /\ objectOut' = objectOut \/ objectOut' = "none"
<1>1. UNCHANGED <<loopVars, keyFile>> /\ (objectOut' = objectOut \/ objectOut' = "none")
  BY DEF Elsewhere, RelayEnvelope, RelayObject, RelayClose, Evict, Approve, Revoke, LoadKeys,
         Purge, RoundStep, Synchronize, LoadPolicy, RoundRefused, FlushOutbox, OutboxRefused,
         SendKey, Confirm, QuotaRefuses, DeliveryFails, EndSession, SessionFails
<1>2. QED
  BY <1>1 DEF loopVars, Current

\* So they leave the key history as it is.
LEMMA LedgerElsewhere == ASSUME KeyLedger, Elsewhere PROVE KeyLedger'
BY ElsewhereKeepsLoop DEF KeyLedger, Busy, loopVars, Newer

\* Only sessions move the outbox, one at a time.
LEMMA OutboxStep ==
    ASSUME GrantBase, Outbox, Next
    PROVE  Outbox'
<1> USE DEF fileVars, adminVars
<1>1. ASSUME NEW vs \in SUBSET Viewers, Approve(vs) PROVE Outbox'
  BY <1>1 DEF Outbox, Approve
<1>2. ASSUME NEW v \in Viewers, Revoke(v) PROVE Outbox'
  <2>1. admin = "idle" /\ todo = {}
    BY <1>2 DEF Revoke, Locked, GrantBase, DenialInv, Denial
  <2>2. QED
    BY <1>2, <2>1 DEF Outbox, Revoke
<1>3. ASSUME NEW v \in Viewers, LoadKeys(v) PROVE Outbox'
  BY <1>3 DEF Outbox, LoadKeys
<1>4. CASE Purge \/ RoundStep
  BY <1>4 DEF Outbox, Purge, RoundStep, Synchronize, LoadPolicy, RoundRefused, FlushOutbox,
              OutboxRefused
<1>5. CASE SendKey \/ QuotaRefuses \/ DeliveryFails \/ EndSession \/ SessionFails
  BY <1>5 DEF Outbox, SendKey, QuotaRefuses, DeliveryFails, EndSession, SessionFails
<1>6. CASE Confirm
  BY <1>6 DEF Outbox, Confirm
<1>7. CASE \/ Connect \/ ReadApprovals \/ PublishEpoch \/ PublishFrame \/ RecordKey
           \/ PublishCursor \/ EndFrame \/ Drop \/ RelayEnvelope \/ RelayObject \/ RelayClose \/ Evict
  <2>1. UNCHANGED <<historyOutbox, admin, todo, target>>
    BY <1>7 DEF Connect, ReadApprovals, PublishEpoch, PublishFrame, RecordKey, PublishCursor,
                EndFrame, Drop, RelayEnvelope, RelayObject, RelayClose, Evict
  <2>2. QED
    BY <2>1 DEF Outbox
<1>8. QED
  BY <1>1, <1>2, <1>3, <1>4, <1>5, <1>6, <1>7 DEF Next

\* The loop seals its key for the viewers it read, and waits for the relay.
LEMMA LiveLoop ==
    ASSUME GrantBase, KeyLedger, LiveKeys,
           \/ Connect \/ ReadApprovals \/ PublishEpoch \/ PublishFrame \/ RecordKey
           \/ PublishCursor \/ EndFrame \/ Drop
    PROVE  LiveKeys'
<1> USE DEF fileVars, adminVars, loopVars, relayVars, ghostVars
<1>0. InStep /\ group \in Nat /\ starts \in BOOLEAN
  BY LimitsAssumption DEF GrantBase, StepInv, TypeInv, TypeOK
<1>1. CASE Connect
  BY <1>1 DEF LiveKeys, Busy, Connect
<1>2. CASE ReadApprovals
  <2>1. pc = "read" /\ pc' = "capture" /\ keysOut = {} /\ approved' = approvedFile
        /\ approvedFile' = approvedFile /\ envelopes' = envelopes
    BY <1>2 DEF ReadApprovals, LiveKeys
  <2>2. CASE StartsGroup
    <3>1. starts' = TRUE /\ keysOut' = {}
      BY <1>2, <2>2 DEF ReadApprovals
    <3>2. QED
      BY <2>1, <3>1 DEF LiveKeys, Busy
  <2>3. CASE ~ StartsGroup
    <3>1. starts' = FALSE /\ keysOut' = approvedFile \ approved /\ Current' = Current /\ group # 0
      BY <1>2, <2>3 DEF ReadApprovals, Current, StartsGroup
    <3>2. \A v \in approved : <<Current, v>> \in envelopes
      BY <2>1, <3>1 DEF LiveKeys
    <3>3. \A v \in approvedFile : <<Current, v>> \in envelopes \/ v \in keysOut'
      BY <3>1, <3>2
    <3>4. QED
      BY <2>1, <3>1, <3>3 DEF LiveKeys, Busy
  <2>4. QED
    BY <2>2, <2>3
<1>3. CASE PublishEpoch
  BY <1>3 DEF LiveKeys, Busy, PublishEpoch, Current
<1>4. CASE PublishFrame
  BY <1>4 DEF LiveKeys, Busy, PublishFrame, Current
<1>5. CASE RecordKey
  <2>1. starts
    BY <1>5 DEF RecordKey, KeyLedger
  <2>2. QED
    BY <1>5, <2>1 DEF LiveKeys, Busy, RecordKey, Current
<1>6. CASE PublishCursor
  BY <1>6 DEF LiveKeys, Busy, PublishCursor, Current
<1>7. CASE EndFrame
  BY <1>7 DEF LiveKeys, Busy, EndFrame, Current
<1>8. CASE Drop
  BY <1>8 DEF LiveKeys, Busy, Drop, Current
<1>9. QED
  BY <1>1, <1>2, <1>3, <1>4, <1>5, <1>6, <1>7, <1>8

\* The relay stores the envelopes of the current group, which it keeps.
LEMMA LiveRelay ==
    ASSUME GrantBase, LiveKeys, RelayEnvelope \/ RelayObject \/ RelayClose \/ Evict
    PROVE  LiveKeys'
<1> USE DEF fileVars, adminVars, loopVars, relayVars, ghostVars
<1>0. InStep /\ StepInv /\ starts \in BOOLEAN /\ objectOut \in {"none", "epoch", "media", "cursor"}
  BY DEF GrantBase, StepInv, TypeInv, TypeOK
<1>1. CASE RelayEnvelope
  <2>1. PICK v \in keysOut : keysOut' = keysOut \ {v} /\ envelopes' = Kept(Current, v)
    BY <1>1 DEF RelayEnvelope
  <2>2. Current' = Current /\ UNCHANGED <<pc, objectOut, starts, group, approved, approvedFile, openAt>>
    BY <1>1 DEF RelayEnvelope, Current
  <2>3. /\ envelopes \subseteq envelopes'
        /\ Current \in retained => <<Current, v>> \in envelopes'
    BY <2>1 DEF Kept
  <2>4. /\ (pc = "read" /\ group # 0) \/ pc \in {"media", "cursor"} => Current \in retained
        /\ pc = "capture" /\ ~ starts => Current \in retained
    BY <1>0 DEF InStep
  <2>5. QED
    BY <2>1, <2>2, <2>3, <2>4 DEF LiveKeys, Busy
<1>2. CASE RelayObject
  <2>1. keysOut = {} /\ keysOut' = {} /\ envelopes' = envelopes /\ Current' = Current
        /\ UNCHANGED <<pc, starts, group, approved, approvedFile, openAt>>
    BY <1>2 DEF RelayObject, Current
  <2>2. QED
    BY <2>1 DEF LiveKeys, Busy
<1>3. CASE RelayClose
  BY <1>3 DEF LiveKeys, Busy, RelayClose
<1>4. CASE Evict
  <2>1. PICK g : /\ envelopes' = {e \in envelopes : e[1] # g}
                 /\ g # Current \/ pc = "down"
    BY <1>0, <1>4, EvictedGroup
  <2>2. Current' = Current
        /\ UNCHANGED <<pc, objectOut, keysOut, starts, group, approved, approvedFile, openAt>>
    BY <1>4 DEF Evict, Current
  <2>3. g # Current => \A v : <<Current, v>> \in envelopes => <<Current, v>> \in envelopes'
    BY <2>1
  <2>4. QED
    BY <2>1, <2>2, <2>3 DEF LiveKeys, Busy
<1>5. QED
  BY <1>1, <1>2, <1>3, <1>4

\* A viewer approved in a group's first frame has that group recorded.
LEMMA LiveAdmin ==
    ASSUME GrantBase, LiveKeys,
           \/ \E vs \in SUBSET Viewers : Approve(vs)
           \/ \E v \in Viewers : Revoke(v) \/ LoadKeys(v)
           \/ Purge \/ RoundStep \/ SendKey \/ Confirm
           \/ QuotaRefuses \/ DeliveryFails \/ EndSession \/ SessionFails
    PROVE  LiveKeys'
<1> USE DEF fileVars, adminVars, loopVars, relayVars, ghostVars
<1>0. /\ approvedFile \in SUBSET Viewers /\ openAt \in [Viewers -> Groups \cup {NoGroup}]
      /\ starts \in BOOLEAN
  BY DEF GrantBase, StepInv, TypeInv, TypeOK
<1>1. Current' = Current /\ UNCHANGED <<pc, objectOut, keysOut, starts, group, approved>>
  BY DEF Current, Approve, Revoke, LoadKeys, Purge, RoundStep, Synchronize, LoadPolicy,
         RoundRefused, FlushOutbox, OutboxRefused, SendKey, Confirm, QuotaRefuses,
         DeliveryFails, EndSession, SessionFails
<1>2. envelopes \subseteq envelopes'
  BY DEF Approve, Revoke, LoadKeys, Purge, RoundStep, Synchronize, LoadPolicy, RoundRefused,
         FlushOutbox, OutboxRefused, SendKey, Kept, Confirm, QuotaRefuses, DeliveryFails,
         EndSession, SessionFails
<1>3. ASSUME Busy, starts
      PROVE  \A v \in approvedFile' \ approved : openAt'[v] = Current
  <2>1. ASSUME NEW vs \in SUBSET Viewers, Approve(vs)
        PROVE  \A v \in approvedFile' \ approved : openAt'[v] = Current
    BY <1>0, <1>3, <2>1 DEF Approve, Opening, Busy, LiveKeys
  <2>2. ASSUME NEW v \in Viewers, Revoke(v)
        PROVE  \A w \in approvedFile' \ approved : openAt'[w] = Current
    BY <1>3, <2>2 DEF Revoke, LiveKeys
  <2>3. CASE \/ \E v \in Viewers : LoadKeys(v)
             \/ Purge \/ RoundStep \/ SendKey \/ Confirm
             \/ QuotaRefuses \/ DeliveryFails \/ EndSession \/ SessionFails
    <3>1. approvedFile' = approvedFile /\ openAt' = openAt
      BY <2>3 DEF LoadKeys, Purge, RoundStep, Synchronize, LoadPolicy, RoundRefused,
                  FlushOutbox, OutboxRefused, SendKey, Confirm, QuotaRefuses, DeliveryFails,
                  EndSession, SessionFails
    <3>2. QED
      BY <1>3, <3>1 DEF LiveKeys
  <2>4. QED
    BY <2>1, <2>2, <2>3
<1>4. QED
  BY <1>1, <1>2, <1>3 DEF LiveKeys, Busy

\* What Held is about.
heldVars == <<approvedFile, historyOutbox, admin, target, plan, retained, openAt, envelopes>>

\* A frame gives content to one key, the current group's.  Its viewers have it
\* from the live path; who was approved since has it from the history when it
\* had content before, and is the exception when it had not.
LEMMA HeldLoop ==
    ASSUME GrantBase, KeyLedger, LiveKeys, Held,
           \/ Connect \/ ReadApprovals \/ PublishEpoch \/ PublishFrame \/ RecordKey
           \/ PublishCursor \/ EndFrame \/ Drop
    PROVE  Held'
<1> USE DEF fileVars, adminVars, loopVars, relayVars, ghostVars
<1>0. TypeOK /\ InStep /\ starts \in BOOLEAN
  BY DEF GrantBase, StepInv, TypeInv, TypeOK
<1>1. UNCHANGED heldVars
  BY DEF heldVars, Connect, ReadApprovals, PublishEpoch, PublishFrame, RecordKey, PublishCursor,
         EndFrame, Drop
<1>2. ASSUME \A k \in keyFile' : k \in keyFile \/ ~ (k.bytes > 0)
      PROVE  Held'
  BY <1>1, <1>2 DEF heldVars, Held, Served
<1>3. CASE Connect \/ ReadApprovals \/ PublishEpoch \/ PublishFrame \/ PublishCursor \/ Drop
  BY <1>2, <1>3 DEF Connect, ReadApprovals, PublishEpoch, PublishFrame, PublishCursor, Drop
<1>4. CASE RecordKey
  <2>1. PICK now \in Times :
          SaveKeyHistory(PruneKeyHistory(
             keyHistory \cup {[group |-> Current, bytes |-> 0, at |-> now]}, now))
    BY <1>4 DEF RecordKey
  <2>2. keyHistory = keyFile
    BY <1>4 DEF RecordKey, KeyLedger
  <2>3. keyFile' \subseteq keyFile \cup {[group |-> Current, bytes |-> 0, at |-> now]}
    BY <2>1, <2>2, PruneIsSubset DEF SaveKeyHistory
  <2>4. QED
    BY <1>2, <2>3
<1>5. CASE EndFrame
  <2> DEFINE n == IF pc = "media" THEN 1 ELSE 2
  <2>1. keyFile' \subseteq Counted(keyFile, n)
    <3>1. PICK now \in Times : SaveKeyHistory(PruneKeyHistory(Counted(keyHistory, n), now))
      BY <1>5 DEF EndFrame
    <3>2. keyHistory = keyFile
      BY <1>5 DEF EndFrame, KeyLedger
    <3>3. QED
      BY <3>1, <3>2, PruneIsSubset DEF SaveKeyHistory
  <2>2. n \in Nat \ {0}
    OBVIOUS
  <2> HIDE DEF n
  <2>3. \A k \in keyFile' : \E j \in keyFile : j.group = k.group /\ (j.group # Current => k = j)
    BY <1>0, <2>1, <2>2, CountedFacts
  <2>4. pc \in {"media", "cursor"} /\ objectOut = "none" /\ keysOut = {}
    BY <1>5 DEF EndFrame, LiveKeys
  <2>5. \A v \in approved : <<Current, v>> \in envelopes
    BY <2>4 DEF LiveKeys
  <2>6. starts => \A v \in approvedFile \ approved : openAt[v] = Current
    BY <2>4 DEF LiveKeys, Busy
  <2>7. ~ starts => \A k \in keyFile : k.group = Current => k.bytes > 0
    BY <2>4 DEF KeyLedger, Busy
  <2> SUFFICES ASSUME NEW v \in approvedFile, Served(v), NEW k \in keyFile', k.bytes > 0,
                      k.group \in retained, k.group # openAt[v]
               PROVE  <<k.group, v>> \in envelopes
                        \/ (admin = "send" /\ v = target /\ k.group \in plan)
    BY <1>1 DEF heldVars, Held, Served
  <2>8. PICK j \in keyFile : j.group = k.group /\ (j.group # Current => k = j)
    BY <2>3
  <2>9. CASE j.group # Current
    BY <2>8, <2>9 DEF Held
  <2>10. CASE j.group = Current /\ v \in approved
    BY <2>5, <2>8, <2>10
  <2>11. CASE j.group = Current /\ v \notin approved
    <3>1. ~ starts
      BY <2>6, <2>8, <2>11
    <3>2. j.bytes > 0
      BY <2>7, <2>11, <3>1
    <3>3. QED
      BY <2>8, <3>2 DEF Held
  <2>12. QED
    BY <2>9, <2>10, <2>11
<1>6. QED
  BY <1>3, <1>4, <1>5

\* The relay adds a group before its key is recorded, and takes a group with
\* its envelopes.
LEMMA HeldRelay ==
    ASSUME GrantBase, KeyLedger, Held, RelayEnvelope \/ RelayObject \/ RelayClose \/ Evict
    PROVE  Held'
<1> USE DEF fileVars, adminVars, loopVars, relayVars, ghostVars
<1>0. InStep /\ StepInv /\ objectOut \in {"none", "epoch", "media", "cursor"}
  BY DEF GrantBase, StepInv, TypeInv, TypeOK
<1>1. UNCHANGED <<approvedFile, historyOutbox, admin, target, plan, openAt, keyFile>>
  BY DEF RelayEnvelope, RelayObject, RelayClose, Evict
<1>2. ASSUME NEW k \in keyFile, k.group \in retained'
      PROVE  /\ k.group \in retained
             /\ \A v : <<k.group, v>> \in envelopes => <<k.group, v>> \in envelopes'
  <2>1. CASE RelayEnvelope
    BY <1>2, <2>1 DEF RelayEnvelope, Kept
  <2>2. CASE RelayObject
    <3>1. retained' = retained \cup {Current} /\ envelopes' = envelopes /\ objectOut # "none"
      BY <2>2 DEF RelayObject
    <3>2. CASE objectOut = "epoch"
      BY <1>2, <3>1, <3>2 DEF KeyLedger
    <3>3. CASE objectOut # "epoch"
      BY <1>0, <1>2, <3>1, <3>3 DEF InStep
    <3>4. QED
      BY <3>2, <3>3
  <2>3. CASE RelayClose
    BY <1>2, <2>3 DEF RelayClose
  <2>4. CASE Evict
    <3>1. PICK g : retained' = retained \ {g} /\ envelopes' = {e \in envelopes : e[1] # g}
      BY <1>0, <2>4, EvictedGroup
    <3>2. QED
      BY <1>2, <3>1
  <2>5. QED
    BY <2>1, <2>2, <2>3, <2>4
<1>3. QED
  BY <1>1, <1>2 DEF Held, Served

\* A grant leaves the outbox when every key offered at its turn was sent.
LEMMA HeldAdmin ==
    ASSUME GrantBase, Outbox, Held,
           \/ \E vs \in SUBSET Viewers : Approve(vs)
           \/ \E v \in Viewers : Revoke(v) \/ LoadKeys(v)
           \/ Purge \/ RoundStep \/ SendKey \/ Confirm
           \/ QuotaRefuses \/ DeliveryFails \/ EndSession \/ SessionFails
    PROVE  Held'
<1> USE DEF fileVars, adminVars, loopVars, relayVars, ghostVars
<1>0. /\ approvedFile \in SUBSET Viewers /\ openAt \in [Viewers -> Groups \cup {NoGroup}]
      /\ historyOutbox \subseteq approvedFile
  BY DEF GrantBase, DenialInv, Denial, StepInv, TypeInv, TypeOK
<1>1. ASSUME NEW vs \in SUBSET Viewers, Approve(vs) PROVE Held'
  <2>1. admin = "refresh" /\ admin' = "decided" /\ approvedFile' = approvedFile \cup vs
        /\ historyOutbox' = historyOutbox \cup vs
        /\ UNCHANGED <<keyFile, retained, envelopes>>
        /\ openAt' = [v \in Viewers |-> IF v \in vs THEN Opening ELSE openAt[v]]
    BY <1>1 DEF Approve
  <2>2. \A v \in approvedFile' : Served(v)' =>
            v \in approvedFile /\ v \notin historyOutbox /\ openAt'[v] = openAt[v]
    BY <1>0, <2>1 DEF Served
  <2>3. QED
    BY <2>1, <2>2 DEF Held, Served
<1>2. ASSUME NEW u \in Viewers, Revoke(u) PROVE Held'
  <2>1. admin = "idle" /\ admin' = admin /\ approvedFile' = approvedFile \ {u}
        /\ historyOutbox' = historyOutbox \ {u}
        /\ UNCHANGED <<keyFile, retained, envelopes, openAt>>
    BY <1>2 DEF Revoke, Locked
  <2>2. QED
    BY <2>1 DEF Held, Served
<1>3. ASSUME NEW u \in Viewers, LoadKeys(u) PROVE Held'
  <2>1. /\ admin = "flush" /\ admin' = "send" /\ target' = u /\ plan' = Offered
        /\ UNCHANGED <<approvedFile, historyOutbox, keyFile, retained, envelopes, openAt>>
    BY <1>3 DEF LoadKeys
  <2>2. \A k \in keyFile : k.bytes > 0 => k.group \in plan'
    BY <2>1 DEF Offered
  <2>3. QED
    BY <2>1, <2>2 DEF Held, Served
<1>9. CASE Purge
  BY <1>9 DEF Held, Served, Purge
<1>4. CASE RoundStep \/ EndSession
  <2>1. /\ admin # "send" /\ admin' # "send"
        /\ UNCHANGED <<approvedFile, historyOutbox, keyFile, retained, envelopes, openAt>>
    BY <1>4 DEF RoundStep, Synchronize, LoadPolicy, RoundRefused, FlushOutbox,
                OutboxRefused, EndSession, Locked
  <2>2. QED
    BY <2>1 DEF Held, Served
<1>5. CASE SendKey
  <2>1. PICK g : plan' = plan \ {g} /\ envelopes' = Kept(g, target)
    BY <1>5 DEF SendKey
  <2>2. UNCHANGED <<admin, target, approvedFile, historyOutbox, keyFile, retained, openAt>>
    BY <1>5 DEF SendKey
  <2>3. envelopes \subseteq envelopes' /\ (g \in retained => <<g, target>> \in envelopes')
    BY <2>1 DEF Kept
  <2>4. QED
    BY <2>1, <2>2, <2>3 DEF Held, Served
<1>6. CASE Confirm
  <2>1. /\ admin = "send" /\ plan = {} /\ admin' = "flush"
        /\ historyOutbox' = historyOutbox \ {target}
        /\ UNCHANGED <<approvedFile, keyFile, retained, envelopes, openAt>>
    BY <1>6 DEF Confirm
  <2>2. QED
    BY <2>1 DEF Held, Served
<1>7. CASE QuotaRefuses \/ DeliveryFails \/ SessionFails
  <2>1. /\ admin' # "send"
        /\ UNCHANGED <<approvedFile, historyOutbox, keyFile, retained, envelopes, openAt>>
    BY <1>7 DEF QuotaRefuses, DeliveryFails, SessionFails
  <2>2. admin = "send" => target \in historyOutbox
    BY DEF Outbox
  <2>3. QED
    BY <2>1, <2>2 DEF Held, Served
<1>8. QED
  BY <1>1, <1>2, <1>3, <1>4, <1>5, <1>6, <1>7, <1>9

\* Every step keeps the keys where they have to be.
LEMMA GrantStep == GrantBase /\ GrantInv /\ [Next]_vars => GrantInv'
<1> SUFFICES ASSUME GrantBase, GrantInv, [Next]_vars PROVE GrantInv'
  OBVIOUS
<1>1. KeyLedger /\ LiveKeys /\ Outbox /\ Held
  BY DEF GrantInv
<1>2. CASE UNCHANGED vars
  BY <1>1, <1>2 DEF vars, fileVars, adminVars, loopVars, relayVars, ghostVars, GrantInv, KeyLedger,
       LiveKeys, Outbox, Held, Served, Busy, Current, Newer
<1>3. CASE \/ Connect \/ ReadApprovals \/ PublishEpoch \/ PublishFrame \/ RecordKey
           \/ PublishCursor \/ EndFrame \/ Drop
  BY <1>1, <1>3, LedgerLoop, LiveLoop, OutboxStep, HeldLoop DEF GrantInv, Next
<1>4. CASE RelayEnvelope \/ RelayObject \/ RelayClose \/ Evict
  BY <1>1, <1>4, LedgerElsewhere, LiveRelay, OutboxStep, HeldRelay DEF GrantInv, Next, Elsewhere
<1>5. CASE \/ \E vs \in SUBSET Viewers : Approve(vs)
           \/ \E v \in Viewers : Revoke(v) \/ LoadKeys(v)
           \/ Purge \/ RoundStep \/ SendKey \/ Confirm
           \/ QuotaRefuses \/ DeliveryFails \/ EndSession \/ SessionFails
  BY <1>1, <1>5, LedgerElsewhere, LiveAdmin, OutboxStep, HeldAdmin DEF GrantInv, Next, Elsewhere
<1>6. QED
  BY <1>2, <1>3, <1>4, <1>5 DEF Next

\* Once publish_history_envelopes has confirmed a grant, its viewer can open
\* every retained group whose key is offered, however frames, rotations, prunes,
\* evictions, crashes and failed deliveries interleave with its session.
THEOREM DeliveredGrantsAreComplete == Spec => []DeliveredGrantsComplete
<1>1. GrantBase <=> DenialInv /\ StepInv
  BY DEF GrantBase
<1>2. Spec => []GrantBase
  BY <1>1, DenialInit, DenialStep, StepInit, StepStep, PTL DEF Spec
<1>3. Spec => []GrantInv
  BY <1>2, GrantInit, GrantStep, PTL DEF Spec
<1>4. GrantBase /\ GrantInv => DeliveredGrantsComplete
  <2> SUFFICES ASSUME GrantBase, GrantInv, NEW v \in approvedFile \ historyOutbox, NEW k \in keyFile,
                      k.bytes > 0, k.group \in retained \ {openAt[v]}
               PROVE  <<k.group, v>> \in envelopes
    BY DEF DeliveredGrantsComplete
  <2>1. ~ (admin = "send" /\ v = target)
    BY DEF GrantInv, Outbox
  <2>2. QED
    BY <2>1 DEF GrantInv, Held, Served
<1>5. QED
  BY <1>2, <1>3, <1>4, PTL
-----------------------------------------------------------------------------
(* Durable keys *)

\* The key of a group is in a history, or the history only has newer ones.
KeptOrPruned(history, g) ==
    \/ \E k \in history : k.group = g
    \/ \A k \in history : Newer(k.group, g)

\* Keys are saved in the order of their groups, none in the future; what
\* prune_key_history takes is then always older than what it leaves.
InOrder(history) ==
    /\ \A j, k \in history : j.group = k.group => j = k
    /\ \A j, k \in history : Newer(j.group, k.group) => j.at >= k.at

\* The current group's key is durable from RecordKey on, before its media is sent.
Durable ==
    /\ PublishedKeysDurable
    /\ InOrder(keyFile)
    /\ \A k \in keyFile : k.at <= clock
    /\ \/ pc = "read" /\ group # 0
       \/ pc \in {"media", "cursor"}
       \/ pc = "capture" /\ ~ starts
       \/ objectOut = "media"
       => KeptOrPruned(keyFile, Current)

\* Groups are totally ordered.
LEMMA NewerOrder ==
    ASSUME NEW g \in Groups, NEW h \in Groups
    PROVE  /\ g = h \/ Newer(g, h) \/ Newer(h, g)
           /\ ~ (Newer(g, h) /\ Newer(h, g)) /\ ~ Newer(g, g)
           /\ \A f \in Groups : Newer(g, h) /\ Newer(h, f) => Newer(g, f)
BY LimitsAssumption DEF Groups, Newer

\* A history has at most one key per group, so it is finite.
LEMMA HistoryFinite ==
    ASSUME NEW history \in SUBSET RetainedKey, InOrder(history)
    PROVE  IsFiniteSet(history)
<1> DEFINE group_of == [k \in history |-> k.group]
<1>1. group_of \in Injection(history, Groups)
  BY DEF Injection, IsInjective, InOrder, RetainedKey
<1>2. IsFiniteSet(Groups)
  <2>1. IsFiniteSet(1..MaxEpoch) /\ IsFiniteSet(1..MaxFrames)
    BY FS_Interval, LimitsAssumption
  <2>2. QED
    BY <2>1, FS_Product DEF Groups
<1>3. QED
  BY <1>1, <1>2, FS_Injection

\* The groups from a newer one on hold no more bytes than those from an older one.
LEMMA BytesFromMonotone ==
    ASSUME NEW history \in SUBSET RetainedKey, IsFiniteSet(history),
           NEW g \in Groups, NEW h \in Groups, Newer(g, h)
    PROVE  /\ BytesFrom(history, g) \in Nat /\ BytesFrom(history, h) \in Nat
           /\ BytesFrom(history, g) <= BytesFrom(history, h)
<1> DEFINE From(x) == {k \in history : ~ Newer(x, k.group)}
<1>1. \A k \in history : k.group \in Groups /\ k.bytes \in Nat
  BY DEF RetainedKey
<1>2. From(g) \subseteq From(h)
  BY <1>1, NewerOrder
<1>3. HasBytes(From(h))
  BY <1>1, FS_Subset DEF HasBytes
<1>4. BytesFrom(history, g) = Bytes(From(g)) /\ BytesFrom(history, h) = Bytes(From(h))
  BY DEF BytesFrom, Bytes
<1> HIDE DEF From
<1>5. QED
  BY <1>2, <1>3, <1>4, BytesSubset

\* prune_key_history takes the oldest keys: a group whose key it takes is older
\* than every key it leaves.
LEMMA PruneTakesOldest ==
    ASSUME NEW history \in SUBSET RetainedKey, InOrder(history), NEW now \in Times,
           NEW g \in Groups, KeptOrPruned(history, g)
    PROVE  KeptOrPruned(PruneKeyHistory(history, now), g)
<1> DEFINE young == {k \in history : now - k.at <= HistoryAge}
           left == PruneKeyHistory(history, now)
<1>1. left \subseteq young /\ young \subseteq history /\ young \in SUBSET RetainedKey
  BY DEF PruneKeyHistory
<1>2. IsFiniteSet(young)
  BY <1>1, HistoryFinite, FS_Subset
<1>3. \A k \in history : k.group \in Groups /\ k.at \in Nat
  BY LimitsAssumption DEF RetainedKey
<1>4. CASE \A k \in history : Newer(k.group, g)
  BY <1>1, <1>4 DEF KeptOrPruned
<1>5. ASSUME NEW k \in history, k.group = g, k \notin left, NEW j \in left PROVE Newer(j.group, g)
  <2> SUFFICES ASSUME ~ Newer(j.group, g) PROVE FALSE
    OBVIOUS
  <2>1. j \in young /\ j \in history
    BY <1>1
  <2>2. Newer(g, j.group)
    BY <1>3, <1>5, <2>1, NewerOrder DEF InOrder
  <2>3. k.at >= j.at
    BY <1>5, <2>1, <2>2 DEF InOrder
  <2>4. k \in young
    BY <1>3, <2>1, <2>3, LimitsAssumption
  <2>5. ~ IsNewest(j, young)
    BY <1>3, <1>5, <2>1, <2>2, <2>4, NewerOrder DEF IsNewest
  <2>6. BytesFrom(young, j.group) <= HistoryBytes /\ ~ (BytesFrom(young, g) <= HistoryBytes)
    BY <1>5, <2>4, <2>5 DEF PruneKeyHistory
  <2>7. /\ BytesFrom(young, g) \in Nat /\ BytesFrom(young, j.group) \in Nat
        /\ BytesFrom(young, g) <= BytesFrom(young, j.group)
    BY <1>1, <1>2, <1>3, <2>1, <2>2, BytesFromMonotone
  <2>8. QED
    BY <2>6, <2>7, LimitsAssumption
<1>6. QED
  BY <1>4, <1>5 DEF KeptOrPruned

\* At first nothing is published.
LEMMA DurableInit == Init => Durable
BY DEF Init, Durable, PublishedKeysDurable, InOrder, KeptOrPruned

\* The first frame of a group saves its key, newest of all, before its media.
LEMMA DurableRecord ==
    ASSUME GrantBase, KeyLedger, Durable, RecordKey
    PROVE  Durable'
<1> USE DEF fileVars, adminVars, loopVars, relayVars, ghostVars
<1>0. TypeOK /\ GroupsOpened /\ starts /\ pc = "epoch" /\ pc' = "media" /\ published' = published
      /\ Current' = Current /\ published \subseteq retained /\ retained \subseteq Groups
  BY DEF GrantBase, StepInv, TypeInv, TypeOK, RecordKey, KeyLedger, Current
<1>1. PICK now \in Times :
        /\ now >= clock /\ clock' = now
        /\ SaveKeyHistory(PruneKeyHistory(
             keyHistory \cup {[group |-> Current, bytes |-> 0, at |-> now]}, now))
  BY DEF RecordKey
<1> DEFINE key == [group |-> Current, bytes |-> 0, at |-> now]
           history == keyFile \cup {key}
<1>2. keyFile' = PruneKeyHistory(history, now)
  BY <1>0, <1>1 DEF SaveKeyHistory, KeyLedger
<1>3. Current \in Groups
  BY <1>0, CurrentIsGroup DEF GrantBase, StepInv, TypeInv, Positions, Busy
<1>4. key \in RetainedKey /\ key.group = Current /\ key.at = now
  BY <1>3 DEF RetainedKey
<1> HIDE DEF key
<1>5. history \in SUBSET RetainedKey
  BY <1>0, <1>4 DEF TypeOK
<1>6. \A k \in keyFile : k.group # Current /\ Newer(Current, k.group)
  BY <1>0 DEF KeyLedger
<1>7. \A k \in keyFile : k.group \in Groups /\ k.at \in Nat /\ k.at <= now
  BY <1>0, <1>1, LimitsAssumption DEF TypeOK, RetainedKey, Durable
<1>8. InOrder(history)
  <2>1. \A k \in keyFile : ~ Newer(k.group, Current)
    BY <1>3, <1>6, <1>7, NewerOrder
  <2>2. ~ Newer(Current, Current) /\ now \in Nat
    BY <1>3, NewerOrder, LimitsAssumption
  <2>3. ASSUME NEW j \in history, NEW k \in history, j.group = k.group PROVE j = k
    BY <1>4, <1>6, <2>3 DEF Durable, InOrder
  <2>4. ASSUME NEW j \in history, NEW k \in history, Newer(j.group, k.group) PROVE j.at >= k.at
    <3>1. CASE j \in keyFile /\ k \in keyFile
      BY <2>4, <3>1 DEF Durable, InOrder
    <3>2. CASE j = key /\ k \in keyFile
      BY <1>4, <1>7, <2>2, <3>2
    <3>3. CASE k = key
      BY <1>4, <2>1, <2>2, <2>4, <3>3
    <3>4. QED
      BY <3>1, <3>2, <3>3
  <2>5. QED
    BY <2>3, <2>4 DEF InOrder
<1>9. keyFile' \subseteq history
  BY <1>2, PruneIsSubset
<1>10. \A k \in keyFile' : k.at <= clock'
  BY <1>1, <1>4, <1>7, <1>9, LimitsAssumption
<1>11. InOrder(keyFile')
  BY <1>8, <1>9 DEF InOrder
<1>12. KeptOrPruned(keyFile', Current)
  <2>1. KeptOrPruned(history, Current)
    BY <1>4 DEF KeptOrPruned
  <2>2. QED
    BY <1>2, <1>3, <1>5, <1>8, <2>1, PruneTakesOldest
<1>13. ASSUME NEW g \in published PROVE KeptOrPruned(keyFile', g)
  <2>1. g \in Groups /\ (g = Current \/ Newer(Current, g))
    BY <1>0 DEF GroupsOpened
  <2>2. KeptOrPruned(keyFile, g)
    BY DEF Durable, PublishedKeysDurable, KeptOrPruned
  <2>3. KeptOrPruned(history, g)
    BY <1>4, <2>1, <2>2 DEF KeptOrPruned
  <2>4. QED
    BY <1>2, <1>5, <1>8, <2>1, <2>3, PruneTakesOldest
<1>14. QED
  BY <1>0, <1>10, <1>11, <1>12, <1>13 DEF Durable, PublishedKeysDurable, KeptOrPruned

\* The end of a frame changes the bytes of a key, not its place.
LEMMA DurableEnd ==
    ASSUME GrantBase, KeyLedger, Durable, EndFrame
    PROVE  Durable'
<1> USE DEF fileVars, adminVars, loopVars, relayVars, ghostVars
<1> DEFINE n == IF pc = "media" THEN 1 ELSE 2
           history == Counted(keyFile, n)
<1>0. TypeOK /\ pc \in {"media", "cursor"} /\ pc' = "read" /\ published' = published
      /\ Current' = Current /\ published \subseteq Groups /\ n \in Nat \ {0}
      /\ objectOut' = objectOut
  BY DEF GrantBase, StepInv, TypeInv, TypeOK, EndFrame, Current
<1>1. PICK now \in Times :
        /\ now >= clock /\ clock' = now
        /\ SaveKeyHistory(PruneKeyHistory(Counted(keyHistory, n), now))
  BY DEF EndFrame
<1>2. keyFile' = PruneKeyHistory(history, now)
  BY <1>0, <1>1 DEF SaveKeyHistory, KeyLedger
<1>3. Current \in Groups
  BY <1>0, CurrentIsGroup DEF GrantBase, StepInv, TypeInv, Positions, Busy
<1> HIDE DEF n
<1>4. history \in SUBSET RetainedKey
  BY <1>0, CountedKeys DEF TypeOK
<1>5. ASSUME NEW k \in history
      PROVE  \E j \in keyFile : j.group = k.group /\ j.at = k.at
  <2>1. PICK j \in keyFile : k = IF IsNewest(j, keyFile) /\ j.group = Current
                                 THEN [j EXCEPT !.bytes = @ + n] ELSE j
    BY DEF Counted
  <2>2. j \in RetainedKey
    BY <1>0 DEF TypeOK
  <2>3. QED
    BY <2>1, <2>2 DEF RetainedKey
<1>6. ASSUME NEW j \in keyFile
      PROVE  \E k \in history : j.group = k.group
  <2> DEFINE k == IF IsNewest(j, keyFile) /\ j.group = Current
                  THEN [j EXCEPT !.bytes = @ + n] ELSE j
  <2>1. k \in history
    BY DEF Counted
  <2>2. j \in RetainedKey
    BY <1>0 DEF TypeOK
  <2>3. k.group = j.group
    BY <2>2 DEF RetainedKey
  <2>4. QED
    BY <2>1, <2>3
<1>7. InOrder(history)
  <2>1. ASSUME NEW j \in history, NEW k \in history, j.group = k.group PROVE j = k
    <3>1. PICK i \in keyFile : j = IF IsNewest(i, keyFile) /\ i.group = Current
                                   THEN [i EXCEPT !.bytes = @ + n] ELSE i
      BY DEF Counted
    <3>2. PICK h \in keyFile : k = IF IsNewest(h, keyFile) /\ h.group = Current
                                   THEN [h EXCEPT !.bytes = @ + n] ELSE h
      BY DEF Counted
    <3>3. i.group = j.group /\ h.group = k.group
      BY <1>0, <3>1, <3>2 DEF TypeOK, RetainedKey
    <3>4. i = h
      BY <2>1, <3>3 DEF Durable, InOrder
    <3>5. QED
      BY <3>1, <3>2, <3>4
  <2>2. ASSUME NEW j \in history, NEW k \in history, Newer(j.group, k.group) PROVE j.at >= k.at
    <3> HIDE DEF history
    <3>1. PICK i \in keyFile : i.group = j.group /\ i.at = j.at
      BY <1>5
    <3>2. PICK h \in keyFile : h.group = k.group /\ h.at = k.at
      BY <1>5
    <3>3. QED
      BY <2>2, <3>1, <3>2 DEF Durable, InOrder
  <2>3. QED
    BY <2>1, <2>2 DEF InOrder
<1> HIDE DEF history
<1>8. keyFile' \subseteq history
  BY <1>2, PruneIsSubset
<1>9. \A k \in keyFile' : k.at <= clock'
  <2> SUFFICES ASSUME NEW k \in keyFile' PROVE k.at <= clock'
    OBVIOUS
  <2>1. PICK j \in keyFile : j.at = k.at
    BY <1>5, <1>8
  <2>2. j.at <= clock /\ j.at \in Nat /\ clock \in Nat /\ now \in Nat
    BY <1>0, LimitsAssumption DEF Durable, TypeOK, RetainedKey
  <2>3. QED
    BY <1>1, <2>1, <2>2
<1>10. InOrder(keyFile')
  BY <1>7, <1>8 DEF InOrder
<1>11. ASSUME NEW g \in Groups, KeptOrPruned(keyFile, g) PROVE KeptOrPruned(keyFile', g)
  <2>1. KeptOrPruned(history, g)
    BY <1>5, <1>6, <1>11 DEF KeptOrPruned
  <2>2. QED
    BY <1>2, <1>4, <1>7, <2>1, PruneTakesOldest
<1>12. KeptOrPruned(keyFile', Current)
  BY <1>0, <1>3, <1>11 DEF Durable
<1>13. \A g \in published : KeptOrPruned(keyFile', g)
  BY <1>0, <1>11 DEF Durable, PublishedKeysDurable, KeptOrPruned
<1>14. QED
  BY <1>0, <1>9, <1>10, <1>12, <1>13 DEF Durable, PublishedKeysDurable, KeptOrPruned

\* Every other step leaves the key file alone.
LEMMA DurableElse ==
    ASSUME GrantBase, KeyLedger, Durable,
           \/ Connect \/ ReadApprovals \/ PublishEpoch \/ PublishFrame \/ PublishCursor \/ Drop
           \/ Elsewhere \/ UNCHANGED vars
    PROVE  Durable'
<1> USE DEF fileVars, adminVars, loopVars, relayVars, ghostVars
<1>0. TypeOK /\ InStep /\ starts \in BOOLEAN
  BY DEF GrantBase, StepInv, TypeInv, TypeOK
<1>1. keyFile' = keyFile /\ clock' = clock
  BY ElsewhereKeepsLoop DEF Connect, ReadApprovals, PublishEpoch, PublishFrame, PublishCursor,
     Drop, vars
<1>2. InOrder(keyFile') /\ \A k \in keyFile' : k.at <= clock'
  BY <1>1 DEF Durable
<1>3. CASE Connect \/ ReadApprovals \/ PublishEpoch \/ PublishFrame \/ PublishCursor \/ Drop
  <2>1. published' = published
    BY <1>3 DEF Connect, ReadApprovals, PublishEpoch, PublishFrame, PublishCursor, Drop
  <2>2. \/ pc' = "read" /\ group' # 0
        \/ pc' \in {"media", "cursor"}
        \/ pc' = "capture" /\ ~ starts'
        \/ objectOut' = "media"
        => KeptOrPruned(keyFile, Current) /\ Current' = Current
    BY <1>0, <1>3 DEF Durable, InStep, Connect, ReadApprovals, StartsGroup, PublishEpoch,
       PublishFrame, PublishCursor, Drop, Current
  <2>3. QED
    BY <1>1, <1>2, <2>1, <2>2 DEF Durable, PublishedKeysDurable
<1>4. CASE Elsewhere \/ UNCHANGED vars
  <2>1. /\ UNCHANGED <<pc, group, starts>> /\ Current' = Current
        /\ objectOut' = objectOut \/ objectOut' = "none"
    BY <1>4, ElsewhereKeepsLoop DEF vars, Current
  <2>2. \A g \in published' : g \in published \/ (objectOut = "media" /\ g = Current)
    BY <1>4 DEF Elsewhere, RelayEnvelope, RelayObject, RelayClose, Evict, Approve, Revoke,
                LoadKeys, Purge, RoundStep, Synchronize, LoadPolicy, RoundRefused,
                FlushOutbox, OutboxRefused, SendKey, Confirm, QuotaRefuses, DeliveryFails,
                EndSession, SessionFails, vars
  <2>3. \A g \in published' : KeptOrPruned(keyFile, g)
    BY <2>2 DEF Durable, PublishedKeysDurable, KeptOrPruned
  <2>4. QED
    BY <1>1, <1>2, <2>1, <2>3 DEF Durable, PublishedKeysDurable, KeptOrPruned
<1>5. QED
  BY <1>3, <1>4

\* Every step keeps the published keys durable.
LEMMA DurableStep == GrantBase /\ GrantInv /\ Durable /\ [Next]_vars => Durable'
<1>1. GrantInv => KeyLedger
  BY DEF GrantInv
<1>2. QED
  BY <1>1, DurableRecord, DurableEnd, DurableElse DEF Next, Elsewhere

\* Media is published only under keys that survive a crash: however frames,
\* lost connections, restarts, prunes and evictions interleave, the key of every
\* retained group with media is in key-history.bin unless every key left there is
\* newer.
THEOREM PublishedKeysAreDurable == Spec => []PublishedKeysDurable
<1>1. GrantBase <=> DenialInv /\ StepInv
  BY DEF GrantBase
<1>2. Spec => []GrantBase
  BY <1>1, DenialInit, DenialStep, StepInit, StepStep, PTL DEF Spec
<1>3. Spec => []GrantInv
  BY <1>2, GrantInit, GrantStep, PTL DEF Spec
<1>4. Spec => []Durable
  BY <1>2, <1>3, DurableInit, DurableStep, PTL DEF Spec
<1>5. Durable => PublishedKeysDurable
  BY DEF Durable
<1>6. QED
  BY <1>4, <1>5, PTL

=============================================================================
