------------------------- MODULE RelayServiceProofs -------------------------
(***************************************************************************)
(* Proofs about the publisher sessions of RelayService, for every number   *)
(* of sessions and streams and every content of the store.                 *)
(*                                                                         *)
(* The argument needs little of the store: what an operation does to the   *)
(* mark and the active group of a stream.  It needs nothing of the         *)
(* subscriptions, which leave the sessions and the store alone.            *)
(***************************************************************************)
EXTENDS RelayService, TLAPS

\* The part of the state the argument is about, and its types.
heldVars == <<online, conn, touched, pending, cursor, high_water, active>>

HeldTypes ==
    /\ high_water \in [Streams -> Nat]
    /\ active \in [Streams -> GroupIds \cup {None}]
    /\ online \subseteq Streams
    /\ conn \in [Sessions -> {"new", "serving", "validated", "claimed",
                              "stored", "closing", "closed"}]
    /\ touched \in [Sessions -> SUBSET Streams]
    /\ pending \in [Sessions -> LiveItem \cup ResumeItem \cup {None}]
    /\ cursor \in [Sessions -> [Streams -> Int \cup {None}]]

\* OnlineIsHeld, stream by stream.
ClaimsExclusive ==
    /\ \A s \in Streams : s \in online <=> \E c \in Sessions : s \in touched[c]
    /\ \A c, d \in Sessions, s \in Streams :
            s \in touched[c] /\ s \in touched[d] => c = d

\* What a session works on: a position is known only of a held stream, and an
\* object between its commit and its broadcast is the newest of such a stream.
WorkIsHeld ==
    \A c \in Sessions :
        /\ \A s \in Streams : cursor[c][s] # None => s \in touched[c]
        /\ conn[c] \in {"validated", "claimed"} => pending[c] \in ResumeItem
        /\ conn[c] = "claimed" => pending[c].stream \in touched[c]
        /\ conn[c] = "stored" => pending[c] \in LiveItem
        /\ conn[c] = "stored" /\ pending[c].kind = "Object" =>
                /\ pending[c].stream \in touched[c]
                /\ pending[c].item.sequence = high_water[pending[c].stream]

SessionInv == HeldTypes /\ ClaimsExclusive /\ WorkIsHeld /\ CursorExact

-----------------------------------------------------------------------------
(* What the store operations do to the mark and the active group *)

\* A step of a subscription changes nothing of the sessions or the store.
LEMMA ViewersKeepHeld ==
    ASSUME NEW v \in Recipients,
           \/ ViewerStep(v) \/ Disconnect(v)
           \/ \E s \in Streams, start \in StartRequests : Subscribe(v, s, start)
    PROVE  UNCHANGED heldVars
BY DEF ViewerStep, Disconnect, Subscribe, ReadAnchor, ReadHighWater,
       SendStartEnvelope, ReadPage, SendReplayed, EndReplay, EndUnavailable,
       EndGap, RecvEnvelope, RecvObject, Reanchor, Ends, Becomes,
       storeVars, sessionVars, heldVars

\* store_object moves the mark of its stream by one and leaves a group active.
LEMMA StoreObjectEffect ==
    ASSUME HeldTypes, NEW s \in Streams, NEW o \in Object, NEW now \in Times,
           StoreObject(s, o, now)
    PROVE  /\ o.sequence = high_water[s] + 1
           /\ high_water' = [high_water EXCEPT ![s] = high_water[s] + 1]
           /\ active' \in [Streams -> GroupIds \cup {None}]
           /\ \A t \in Streams : active[t] # None => active'[t] # None
<1>1. o.sequence = high_water[s] + 1 /\ high_water' = [high_water EXCEPT ![s] = o.sequence]
  BY DEF StoreObject, StoreFirstObject, StoreNextObject, InSequence
<1>2. o.group \in GroupIds /\ o.group # None
  BY DataAssumption DEF Object, GroupIds
<1>3. active' = [active EXCEPT ![s] = o.group] \/ active' = active
  BY DEF StoreObject, StoreFirstObject, StoreNextObject
<1>4. QED
  BY <1>1, <1>2, <1>3 DEF HeldTypes

-----------------------------------------------------------------------------
(* The session invariant is inductive *)

\* A relay that has just opened its database holds no claim.
LEMMA SessionInit == ServiceInit => SessionInv
<1> SUFFICES ASSUME ServiceInit
             PROVE  SessionInv
  OBVIOUS
<1>1. HeldTypes
  BY DEF ServiceInit, Init, HeldTypes
<1>2. ClaimsExclusive /\ WorkIsHeld /\ CursorExact
  BY DEF ServiceInit, ClaimsExclusive, WorkIsHeld, CursorExact
<1>3. QED
  BY <1>1, <1>2 DEF SessionInv

\* A step that leaves this part of the state alone keeps the invariant.
LEMMA UnchangedKeeps ==
    ASSUME SessionInv, UNCHANGED heldVars
    PROVE  SessionInv'
BY DEF SessionInv, HeldTypes, ClaimsExclusive, WorkIsHeld, CursorExact, heldVars

\* The steps of session c that do not store, one by one.
LEMMA AdmitKeeps ==
    ASSUME SessionInv, NEW c \in Sessions, NEW p \in Publishers, Admit(c, p)
    PROVE  SessionInv'
BY DEF SessionInv, HeldTypes, ClaimsExclusive, WorkIsHeld, CursorExact, Admit, storeVars

\* validate_producer of one Resume entry claims nothing yet.
LEMMA ResumeValidateKeeps ==
    ASSUME SessionInv, NEW c \in Sessions, NEW s \in Streams, ResumeValidate(c, s)
    PROVE  SessionInv'
BY DEF SessionInv, HeldTypes, ClaimsExclusive, WorkIsHeld, CursorExact,
       ResumeValidate, ResumeItem, storeVars

\* claim_online takes only a stream nobody holds, or the session's own.
LEMMA ResumeClaimKeeps ==
    ASSUME SessionInv, NEW c \in Sessions, ResumeClaim(c)
    PROVE  SessionInv'
BY DEF SessionInv, HeldTypes, ClaimsExclusive, WorkIsHeld, CursorExact,
       ResumeClaim, Claim, CanClaim, ResumeItem, storeVars

\* resume_state is read after the claim, so no one else can move the mark.
LEMMA ResumeReadKeeps ==
    ASSUME SessionInv, NEW c \in Sessions, ResumeRead(c)
    PROVE  SessionInv'
BY DEF SessionInv, HeldTypes, ClaimsExclusive, WorkIsHeld, CursorExact,
       ResumeRead, ResumeItem, storeVars

\* The claim a Publish makes for itself, before its transaction.
LEMMA ClaimForPublishKeeps ==
    ASSUME SessionInv, NEW c \in Sessions, NEW s \in Streams, ClaimForPublish(c, s)
    PROVE  SessionInv'
BY DEF SessionInv, HeldTypes, ClaimsExclusive, WorkIsHeld, CursorExact,
       ClaimForPublish, Claim, CanClaim, storeVars

\* An error ends the session's requests; its claims stay until clean-up.
LEMMA FailKeeps ==
    ASSUME SessionInv, NEW c \in Sessions, Fail(c)
    PROVE  SessionInv'
BY DEF SessionInv, HeldTypes, ClaimsExclusive, WorkIsHeld, CursorExact, Fail, storeVars

\* The clean-up releases exactly the claims of the session that ended.
LEMMA RetireKeeps ==
    ASSUME SessionInv, NEW c \in Sessions, Retire(c)
    PROVE  SessionInv'
BY DEF SessionInv, HeldTypes, ClaimsExclusive, WorkIsHeld, CursorExact, Retire, storeVars

\* Broadcasting a stored object leaves the session's position at the mark.
LEMMA BroadcastKeeps ==
    ASSUME SessionInv, NEW c \in Sessions, Broadcast(c)
    PROVE  SessionInv'
BY DEF SessionInv, HeldTypes, ClaimsExclusive, WorkIsHeld, CursorExact,
       Broadcast, LiveItem, Object, storeVars

\* finalize_stream changes no mark and is done for held streams only.
LEMMA FinalizeKeeps ==
    ASSUME SessionInv, NEW c \in Sessions, NEW s \in Streams, Finalize(c, s)
    PROVE  SessionInv'
<1>1. UNCHANGED <<online, conn, touched, pending, cursor, high_water>>
  BY DEF Finalize, FinalizeStream, storeVars
<1>2. active' \in [Streams -> GroupIds \cup {None}]
  BY DEF SessionInv, HeldTypes, Finalize, FinalizeStream, storeVars
<1>3. QED
  BY <1>1, <1>2 DEF SessionInv, HeldTypes, ClaimsExclusive, WorkIsHeld, CursorExact

\* store_object moves the mark of a stream its own session holds.
LEMMA PublishObjectKeeps ==
    ASSUME SessionInv, NEW c \in Sessions, NEW s \in Streams, NEW o \in Object,
           NEW now \in Times, PublishObject(c, s, o, now)
    PROVE  SessionInv'
<1> DEFINE x == [stream |-> s, kind |-> "Object", item |-> o]
<1>1. /\ o.sequence = high_water[s] + 1
      /\ high_water' = [high_water EXCEPT ![s] = high_water[s] + 1]
      /\ active' \in [Streams -> GroupIds \cup {None}]
  BY StoreObjectEffect DEF SessionInv, PublishObject
<1>2. /\ conn[c] = "serving" /\ s \in touched[c]
      /\ conn' = [conn EXCEPT ![c] = "stored"]
      /\ pending' = [pending EXCEPT ![c] = x]
      /\ UNCHANGED <<online, touched, cursor>>
  BY DEF PublishObject
<1>3. x \in LiveItem /\ x.stream = s /\ x.kind = "Object" /\ x.item = o
  BY DEF LiveItem
<1> HIDE DEF x
<1>4. HeldTypes'
  BY <1>1, <1>2, <1>3 DEF SessionInv, HeldTypes
<1>5. ClaimsExclusive'
  BY <1>2 DEF SessionInv, ClaimsExclusive
<1>6. WorkIsHeld'
  <2> SUFFICES ASSUME NEW d \in Sessions
               PROVE  WorkIsHeld!(d)'
    BY DEF WorkIsHeld
  <2>1. CASE d = c
    BY <1>1, <1>2, <1>3, <2>1 DEF SessionInv, HeldTypes, WorkIsHeld
  <2>2. CASE d # c
    BY <1>1, <1>2, <2>2 DEF SessionInv, HeldTypes, ClaimsExclusive, WorkIsHeld, LiveItem
  <2>3. QED
    BY <2>1, <2>2
<1>7. CursorExact'
  BY <1>1, <1>2, <1>3 DEF SessionInv, HeldTypes, ClaimsExclusive, WorkIsHeld, CursorExact
<1>8. QED
  BY <1>4, <1>5, <1>6, <1>7 DEF SessionInv

\* store_envelope moves no mark.
LEMMA PublishEnvelopeKeeps ==
    ASSUME SessionInv, NEW c \in Sessions, NEW s \in Streams, NEW e \in Envelope,
           NEW now \in Times, PublishEnvelope(c, s, e, now)
    PROVE  SessionInv'
BY DEF SessionInv, HeldTypes, ClaimsExclusive, WorkIsHeld, CursorExact,
       PublishEnvelope, StoreEnvelope, LiveItem

\* Restart gives up every claim and every position.
LEMMA RestartKeeps ==
    ASSUME SessionInv, Restart
    PROVE  SessionInv'
BY DEF SessionInv, HeldTypes, ClaimsExclusive, WorkIsHeld, CursorExact, Restart, storeVars

\* Every step of the service keeps the session invariant.
LEMMA SessionInvStep == SessionInv /\ [ServiceNext]_vars => SessionInv'
<1> SUFFICES ASSUME SessionInv, [ServiceNext]_vars
             PROVE  SessionInv'
  OBVIOUS
<1>1. ASSUME NEW c \in Sessions, SessionRequest(c)
      PROVE  SessionInv'
  <2>1. ASSUME NEW s \in Streams, NEW d \in Descriptors, PublishDescriptor(c, s, d)
        PROVE  SessionInv'
    <3>1. UNCHANGED heldVars
      BY <2>1 DEF PublishDescriptor, PutDescriptor, ReplaceDescriptor,
                  InsertDescriptor, sessionVars, heldVars
    <3>2. QED
      BY <3>1, UnchangedKeeps
  <2>2. QED
    BY <1>1, <2>1, AdmitKeeps, ResumeValidateKeeps, ClaimForPublishKeeps,
       PublishObjectKeeps, PublishEnvelopeKeeps, FailKeeps DEF SessionRequest
<1>2. ASSUME NEW c \in Sessions, SessionStep(c)
      PROVE  SessionInv'
  BY <1>2, ResumeClaimKeeps, ResumeReadKeeps, BroadcastKeeps, FinalizeKeeps,
     RetireKeeps DEF SessionStep
<1>3. ASSUME NEW now \in Times, Retention(now)
      PROVE  SessionInv'
  <2>1. UNCHANGED heldVars
    BY <1>3 DEF Retention, EnforceRetentionAt, sessionVars, heldVars
  <2>2. QED
    BY <2>1, UnchangedKeeps
<1>4. CASE UNCHANGED vars
  BY <1>4, UnchangedKeeps DEF vars, storeVars, sessionVars, heldVars
<1>5. QED
  BY <1>1, <1>2, <1>3, <1>4, ViewersKeepHeld, UnchangedKeeps, RestartKeeps
     DEF ServiceNext

\* The session invariant holds in every reachable state.
LEMMA SessionInvariant == ServiceSpec => []SessionInv
<1>1. QED
  BY SessionInit, SessionInvStep, PTL DEF ServiceSpec

-----------------------------------------------------------------------------
(* Theorems *)

\* claim_online and handle_publisher's clean-up: however many sessions fail at
\* whatever step, a stream is online exactly while one session holds it.
THEOREM SessionsExclusive == ServiceSpec => []OnlineIsHeld
<1>1. SessionInv => OnlineIsHeld
  BY DEF SessionInv, HeldTypes, ClaimsExclusive, OnlineIsHeld
<1>2. QED
  BY <1>1, SessionInvariant, PTL

\* The committed_through of a ResumeState stays the stream's mark until the
\* session itself publishes.
THEOREM ResumePositionExact == ServiceSpec => []CursorExact
<1>1. SessionInv => CursorExact
  BY DEF SessionInv
<1>2. QED
  BY <1>1, SessionInvariant, PTL

\* finalize_stream at the end of one session never completes the group another
\* session is writing.
THEOREM SessionsFinalizeOwn == ServiceSpec => FinalizesOwnGroup
<1> DEFINE Own == \A s \in Streams : active[s] # None /\ active'[s] = None =>
                    \A c \in Sessions : s \in touched[c] => conn[c] = "closing"
<1>1. ASSUME SessionInv, ServiceNext
      PROVE  Own
  <2>1. ASSUME NEW c \in Sessions, SessionRequest(c)
        PROVE  Own
    <3>1. CASE active' = active
      BY <3>1
    <3>2. ASSUME NEW s \in Streams, NEW o \in Object, NEW now \in Times,
                 PublishObject(c, s, o, now)
          PROVE  Own
      BY <1>1, <3>2, StoreObjectEffect DEF SessionInv, PublishObject
    <3>3. QED
      BY <2>1, <3>1, <3>2 DEF SessionRequest, Admit, ResumeValidate, ClaimForPublish,
         PublishDescriptor, PutDescriptor, ReplaceDescriptor, InsertDescriptor,
         PublishEnvelope, StoreEnvelope, Fail, storeVars
  <2>2. ASSUME NEW c \in Sessions, SessionStep(c)
        PROVE  Own
    <3>1. CASE active' = active
      BY <3>1
    <3>2. ASSUME NEW s \in Streams, Finalize(c, s), active' # active
          PROVE  Own
      <4>1. conn[c] = "closing" /\ s \in touched[c]
            /\ active' = [active EXCEPT ![s] = None]
        BY <3>2 DEF Finalize, FinalizeStream, storeVars
      <4>2. QED
        BY <1>1, <4>1 DEF SessionInv, HeldTypes, ClaimsExclusive
    <3>3. QED
      BY <2>2, <3>1, <3>2 DEF SessionStep, ResumeClaim, ResumeRead, Broadcast,
         Retire, storeVars
  <2>3. CASE active' = active
    BY <2>3
  <2>4. QED
    BY <1>1, <2>1, <2>2, <2>3, ViewersKeepHeld DEF ServiceNext, Retention,
       EnforceRetentionAt, Restart, storeVars, heldVars
<1>2. ASSUME SessionInv, [ServiceNext]_vars
      PROVE  [Own]_vars
  BY <1>1, <1>2
<1>3. QED
  BY <1>2, SessionInvariant, PTL DEF ServiceSpec, FinalizesOwnGroup
=============================================================================
