---------------------------- MODULE PairingProofs ----------------------------
(***************************************************************************)
(* Proofs about Pairing, for every set of requests and viewers, every      *)
(* policy and every bound: an approval is backed by a saved grant, the two *)
(* humans compare one transcript, and a request is decided once.           *)
(*                                                                         *)
(* None of the three is inductive.  Each depends on what is true between   *)
(* two saves: that a session refreshes only after it has emptied its       *)
(* outboxes, and that a request neither pending nor queued has nothing but *)
(* its own row at the relay.                                               *)
(***************************************************************************)
EXTENDS Pairing, WellFoundedInduction, TLAPS

\* Every grant there ever was: revoking one keeps the viewer in the set.
Granted == disk.approved \cup disk.revoked

\* A session works on what is saved, and saves only what is pending.
WorksOnSaved ==
    /\ mem = disk
    /\ disk.offerOutbox \subseteq disk.pending
    /\ disk.confirmed \subseteq disk.pending

\* A session refreshes only when everything queued before is delivered.
FlushedFirst ==
    session = "refresh" =>
        /\ disk.offerOutbox = {}
        /\ \A r \in Requests : disk.decisionOutbox[r] = "none"

\* A queued decision is about a request no longer pending, and an approval
\* among them is of a viewer already granted.
QueueDecides ==
    \A r \in Requests :
        disk.decisionOutbox[r] # "none" =>
            /\ r \notin disk.pending
            /\ disk.decisionOutbox[r] \in Approvals => ViewerOf[r] \in Granted

\* A purged row leaves nothing, and nobody knows a request before it is made.
RowsMade ==
    \A r \in Requests :
        /\ ~row[r].live => row[r] = NoRow
        /\ issued[r] = -1 =>
             /\ row[r] = NoRow /\ shown[r] = 0
             /\ r \notin disk.pending /\ disk.decisionOutbox[r] = "none"

\* A request the publisher has not acted on carries no offer anywhere.
NewIsBlank ==
    \A r \in Requests :
        /\ row[r].live /\ row[r].decision = "none"
        /\ r \notin disk.pending /\ disk.decisionOutbox[r] = "none"
        => row[r].offer = 0 /\ row[r].confirmation = 0 /\ shown[r] = 0

\* CeremonyAgrees, without the clock.
OneTranscript ==
    \A r \in disk.pending :
        /\ row[r].offer \in {0, disk.offer[r]}
        /\ row[r].confirmation \in {0, disk.offer[r]}
        /\ shown[r] \in {0, disk.offer[r]}
        /\ r \in disk.confirmed /\ row[r].live => row[r].confirmation = disk.offer[r]

\* The inductive invariant.
PairInv ==
    /\ TypeOK /\ WorksOnSaved /\ FlushedFirst /\ QueueDecides
    /\ RowsMade /\ NewIsBlank /\ OneTranscript
    /\ ApprovalBacked /\ DecidedOnce

-----------------------------------------------------------------------------
(* The operators of the model *)

\* The outbox item a flush takes is one of the outbox.
LEMMA MinInSet ==
    ASSUME NEW S, S \subseteq Requests, S # {}
    PROVE  Min(S) \in S
<1>1. \E x \in S : \A y \in S : ~(<<y, x>> \in OpToRel(<, Nat))
  BY NatLessThanWellFounded, WFMin, PairingAssumption
<1>2. \A x, y \in Nat : y < x => <<y, x>> \in OpToRel(<, Nat)
  BY DEF OpToRel
<1>3. S \subseteq Nat
  BY PairingAssumption
<1>4. PICK x \in S : \A y \in S : ~(<<y, x>> \in OpToRel(<, Nat))
  BY <1>1
<1>5. \A y \in S : ~(y < x)
  BY <1>2, <1>3, <1>4, Zenon
<1>6. \A y \in S : x <= y
  BY <1>3, <1>5
<1>7. QED
  BY <1>6 DEF Min

\* The empty row is a row.
LEMMA NoRowType == NoRow \in Row
BY PairingAssumption DEF NoRow, Row, Offers

\* A call that stores nothing may purge rows, and changes no other.
LEMMA CommitPurges ==
    ASSUME row \in [Requests -> Row], Commit(Unchanged)
    PROVE  /\ row' \in [Requests -> Row]
           /\ \A q \in Requests : row'[q] = row[q] \/ row'[q] = NoRow
           /\ \A q \in Requests : row'[q].live => q \in Kept /\ row'[q] = row[q]
<1>1. row' = [q \in Requests |-> IF q \in Kept THEN row[q] ELSE NoRow]
  BY DEF Commit, Unchanged
<1>2. ~NoRow.live
  BY DEF NoRow
<1>3. QED
  BY <1>1, <1>2, NoRowType

\* A call that stores one row may purge others, and changes no other.
LEMMA CommitStores ==
    ASSUME row \in [Requests -> Row], NEW r \in Requests, NEW new \in Row,
           Commit(Only(r, new))
    PROVE  /\ row' \in [Requests -> Row]
           /\ row'[r] = new
           /\ \A q \in Requests \ {r} : row'[q] = row[q] \/ row'[q] = NoRow
<1>1. DOMAIN Only(r, new) = {r} /\ Only(r, new)[r] = new
  BY DEF Only
<1>2. row' = [q \in Requests |-> IF q = r THEN new
                                 ELSE IF q \in Kept THEN row[q] ELSE NoRow]
  BY <1>1 DEF Commit
<1>3. QED
  BY <1>2, NoRowType

\* store_once leaves the other columns alone and this one as it was unless empty.
LEMMA StoreOnceOffer ==
    ASSUME row \in [Requests -> Row], NEW r \in Requests, NEW n \in Offers
    PROVE  LET new == StoreOnce(r, "offer", n) IN
           /\ new \in Row
           /\ new.offer = IF row[r].offer = 0 THEN n ELSE row[r].offer
           /\ new.live = row[r].live /\ new.confirmation = row[r].confirmation
           /\ new.decision = row[r].decision
<1>1. row[r] \in Row
  OBVIOUS
<1>2. QED
  BY <1>1 DEF StoreOnce, Row

\* The same for a confirmation.
LEMMA StoreOnceConfirmation ==
    ASSUME row \in [Requests -> Row], NEW r \in Requests, NEW n \in Offers
    PROVE  LET new == StoreOnce(r, "confirmation", n) IN
           /\ new \in Row
           /\ new.confirmation = IF row[r].confirmation = 0 THEN n ELSE row[r].confirmation
           /\ new.live = row[r].live /\ new.offer = row[r].offer
           /\ new.decision = row[r].decision
<1>1. row[r] \in Row
  OBVIOUS
<1>2. QED
  BY <1>1 DEF StoreOnce, Row

-----------------------------------------------------------------------------
(* PairInv is inductive *)

\* Nothing is known of any request at first.
LEMMA PairInit == Init => PairInv
<1> SUFFICES ASSUME Init PROVE PairInv
  OBVIOUS
<1>1. TypeOK
  <2>1. row \in [Requests -> Row]
    BY NoRowType DEF Init
  <2>2. disk \in PublisherState /\ mem \in PublisherState
    BY PairingAssumption DEF Init, PublisherState, Offers
  <2>3. QED
    BY <2>1, <2>2, PairingAssumption DEF Init, TypeOK, Offers
<1>2. \A r \in Requests : row[r] = NoRow /\ shown[r] = 0 /\ issued[r] = -1
  BY DEF Init
<1>3. disk.pending = {} /\ disk.confirmed = {} /\ disk.offerOutbox = {} /\ verified = {}
  BY DEF Init
<1>4. mem = disk /\ \A r \in Requests : disk.decisionOutbox[r] = "none"
  BY DEF Init
<1>5. NoRow.offer = 0 /\ NoRow.confirmation = 0 /\ NoRow.decision = "none" /\ ~NoRow.live
  BY DEF NoRow
<1>6. WorksOnSaved /\ FlushedFirst /\ QueueDecides
  BY <1>3, <1>4 DEF WorksOnSaved, FlushedFirst, QueueDecides
<1>7. RowsMade /\ NewIsBlank /\ OneTranscript
  BY <1>2, <1>3, <1>4, <1>5 DEF RowsMade, NewIsBlank, OneTranscript
<1>8. ApprovalBacked /\ DecidedOnce
  BY <1>2, <1>3, <1>5 DEF ApprovalBacked, DecidedOnce, Approvals
<1>9. QED
  BY <1>1, <1>6, <1>7, <1>8 DEF PairInv

\* A step that leaves the file, the table and what viewers hold alone, as the
\* steps of a session between two calls do.
LEMMA QuietKeeps ==
    ASSUME PairInv, TypeOK', UNCHANGED <<row, disk, issued, shown>>,
           mem' = disk, verified' \subseteq verified,
           session' = "refresh" => session = "refresh" \/ Queued = {} 
    PROVE  PairInv'
<1>1. WorksOnSaved' /\ QueueDecides' /\ RowsMade' /\ NewIsBlank' /\ OneTranscript'
  BY DEF PairInv, WorksOnSaved, QueueDecides, RowsMade, NewIsBlank, OneTranscript, Granted
<1>2. FlushedFirst'
  BY DEF PairInv, FlushedFirst, Queued
<1>3. ApprovalBacked' /\ DecidedOnce'
  BY DEF PairInv, ApprovalBacked, DecidedOnce
<1>4. QED
  BY <1>1, <1>2, <1>3 DEF PairInv

\* Steps of the publisher that neither save nor reach the relay's table.
LEMMA SessionStepKeeps ==
    ASSUME PairInv, Tick \/ Load \/ FlushDone \/ FlushRefused \/ Interrupt
    PROVE  PairInv'
<1> USE DEF PairInv, TypeOK, WorksOnSaved
<1>1. CASE Tick
  BY <1>1, PairingAssumption, QuietKeeps DEF Tick, relayVars, publisherVars, viewerVars
<1>2. CASE Load
  BY <1>2, QuietKeeps DEF Load, ReadPrivate, relayVars, viewerVars, FlushStages
<1>3. CASE FlushDone
  <2>1. Queued = {}
    BY <1>3 DEF FlushDone, QueuedDecisions, Queued
  <2>2. QED
    BY <1>3, <2>1, QuietKeeps DEF FlushDone, relayVars, viewerVars, FlushStages
<1>4. CASE FlushRefused
  BY <1>4, QuietKeeps DEF FlushRefused, EndSession, relayVars, viewerVars
<1>5. CASE Interrupt
  BY <1>5, QuietKeeps DEF Interrupt, EndSession, relayVars, viewerVars
<1>6. QED
  BY <1>1, <1>2, <1>3, <1>4, <1>5

\* A viewer that gives up a running check or forgets the publisher.
LEMMA ViewerForgetKeeps ==
    ASSUME PairInv,
           \/ \E r \in Requests : HeadlessTimeout(r)
           \/ \E v \in Viewers : ForgetVerifiedPublisher(v)
    PROVE  PairInv'
<1>1. TypeOK'
  BY DEF PairInv, TypeOK, HeadlessTimeout, ForgetVerifiedPublisher, relayVars, publisherVars
<1>2. QED
  BY <1>1, QuietKeeps DEF PairInv, WorksOnSaved, HeadlessTimeout, ForgetVerifiedPublisher,
     relayVars, publisherVars

\* A viewer reads its inbox: rows may be purged, it may take over an offer the
\* relay holds or drop one, and it pins the publisher only on an approval.
LEMMA InboxReadKeeps ==
    ASSUME PairInv, TypeOK', UNCHANGED <<issued, publisherVars>>,
           \A q \in Requests : row'[q] = row[q] \/ row'[q] = NoRow,
           \A q \in Requests : shown'[q] \in {0, shown[q], row[q].offer},
           \A v \in verified' : v \in verified
               \/ \E q \in Requests : ViewerOf[q] = v /\ row[q].decision \in Approvals
    PROVE  PairInv'
<1>1. NoRow.offer = 0 /\ NoRow.confirmation = 0 /\ NoRow.decision = "none" /\ ~NoRow.live
  BY DEF NoRow
<1>2. UNCHANGED disk
  BY DEF publisherVars
<1>3. WorksOnSaved' /\ FlushedFirst' /\ QueueDecides'
  BY DEF PairInv, WorksOnSaved, FlushedFirst, QueueDecides, Granted, publisherVars
<1>4. RowsMade'
  BY <1>1, <1>2 DEF PairInv, RowsMade
<1>5. NewIsBlank'
  BY <1>1, <1>2 DEF PairInv, NewIsBlank
<1>6. OneTranscript'
  <2> SUFFICES ASSUME NEW q \in disk.pending
               PROVE  /\ row'[q].offer \in {0, disk.offer[q]}
                      /\ row'[q].confirmation \in {0, disk.offer[q]}
                      /\ shown'[q] \in {0, disk.offer[q]}
                      /\ q \in disk.confirmed /\ row'[q].live =>
                            row'[q].confirmation = disk.offer[q]
    BY <1>2 DEF OneTranscript
  <2>1. q \in Requests
    BY DEF PairInv, TypeOK, PublisherState
  <2>2. QED
    BY <1>1, <2>1 DEF PairInv, OneTranscript
<1>7. ApprovalBacked'
  BY <1>1, <1>2 DEF PairInv, ApprovalBacked, Approvals
<1>8. DecidedOnce'
  BY <1>1, <1>2 DEF PairInv, DecidedOnce
<1>9. QED
  BY <1>3, <1>4, <1>5, <1>6, <1>7, <1>8 DEF PairInv

\* A viewer's refresh, wherever it stops.
LEMMA RefreshPairingKeeps ==
    ASSUME PairInv, NEW v \in Viewers, RefreshPairing(v)
    PROVE  PairInv'
<1> DEFINE mine == ViewerInbox(v) \cap waiting
           offered == {r \in mine : row[r].offer # 0}
           decided == {r \in mine : row[r].decision # "none"}
<1>1. /\ row' \in [Requests -> Row]
      /\ \A q \in Requests : row'[q] = row[q] \/ row'[q] = NoRow
  BY CommitPurges DEF PairInv, TypeOK, RefreshPairing, ServeInbox
<1>2. mine \subseteq Requests /\ \A r \in mine : ViewerOf[r] = v
  BY DEF ViewerInbox, Kept
<1>3. PICK read \in SUBSET offered, pinned \in SUBSET decided, dropped \in SUBSET decided :
         /\ shown' = [r \in Requests |-> IF r \in dropped THEN 0
                                         ELSE IF r \in read THEN row[r].offer
                                         ELSE shown[r]]
         /\ \/ verified' = verified
            \/ /\ verified' = verified \cup {v}
               /\ \E r \in pinned : row[r].decision \in Approvals
         /\ waiting' = waiting \ dropped
  BY DEF RefreshPairing, Prefixes, RememberVerifiedPublisher, SavePairingState
<1>4. \A q \in Requests : row[q].offer \in Offers
  BY DEF PairInv, TypeOK, Row
<1>5. shown' \in [Requests -> Offers] /\ \A q \in Requests : shown'[q] \in {0, shown[q], row[q].offer}
  BY <1>3, <1>4, PairingAssumption DEF PairInv, TypeOK, Offers
<1>6. /\ verified' \subseteq Viewers
      /\ \A w \in verified' : w \in verified
            \/ \E q \in Requests : ViewerOf[q] = w /\ row[q].decision \in Approvals
  BY <1>2, <1>3 DEF PairInv, TypeOK
<1>7. UNCHANGED <<clock, issued, publisherVars, polling>> /\ waiting' \subseteq Requests
  BY <1>3 DEF PairInv, TypeOK, RefreshPairing
<1>8. TypeOK'
  BY <1>1, <1>5, <1>6, <1>7 DEF PairInv, TypeOK, publisherVars
<1>9. QED
  BY <1>1, <1>5, <1>6, <1>7, <1>8, InboxReadKeeps

\* The decision a headless check was waiting for.
LEMMA HeadlessDecidedKeeps ==
    ASSUME PairInv, NEW r \in Requests, HeadlessDecided(r)
    PROVE  PairInv'
<1>1. /\ row' \in [Requests -> Row]
      /\ \A q \in Requests : row'[q] = row[q] \/ row'[q] = NoRow
  BY CommitPurges DEF PairInv, TypeOK, HeadlessDecided, ServeInbox
<1>2. /\ verified' \subseteq Viewers
      /\ \A w \in verified' : w \in verified
            \/ \E q \in Requests : ViewerOf[q] = w /\ row[q].decision \in Approvals
  BY PairingAssumption DEF PairInv, TypeOK, HeadlessDecided, RememberVerifiedPublisher
<1>3. UNCHANGED <<clock, issued, publisherVars, waiting, shown>> /\ polling' \subseteq Requests
  BY DEF PairInv, TypeOK, HeadlessDecided
<1>4. TypeOK'
  BY <1>1, <1>2, <1>3 DEF PairInv, TypeOK, publisherVars
<1>5. QED
  BY <1>1, <1>2, <1>3, <1>4, InboxReadKeeps

\* The viewer's human said no.
LEMMA RejectPairingKeeps ==
    ASSUME PairInv, NEW r \in Requests, RejectPairing(r)
    PROVE  PairInv'
<1>1. UNCHANGED <<clock, issued, row, publisherVars, polling, verified>>
  BY DEF RejectPairing, relayVars
<1>2. /\ shown' \in [Requests -> Offers] /\ waiting' \subseteq Requests
      /\ \A q \in Requests : shown'[q] \in {0, shown[q]}
  BY PairingAssumption DEF PairInv, TypeOK, RejectPairing, SavePairingState, Offers
<1>3. TypeOK'
  BY <1>1, <1>2 DEF PairInv, TypeOK, publisherVars
<1>4. QED
  BY <1>1, <1>2, <1>3, InboxReadKeeps

\* A request enters the relay: nobody has heard of it, so nothing disagrees.
LEMMA NewRequestKeeps ==
    ASSUME PairInv, NEW r \in Requests, BeginPairing(r),
           UNCHANGED <<clock, publisherVars, shown, verified>>,
           waiting' \subseteq Requests, polling' \subseteq Requests
    PROVE  PairInv'
<1> DEFINE new == [NoRow EXCEPT !.live = TRUE, !.received = clock]
<1>1. new \in Row /\ new.offer = 0 /\ new.confirmation = 0 /\ new.decision = "none" /\ new.live
  BY NoRowType DEF PairInv, TypeOK, Row, NoRow
<1>2. /\ row' \in [Requests -> Row]
      /\ row'[r] = new
      /\ \A q \in Requests \ {r} : row'[q] = row[q] \/ row'[q] = NoRow
  BY <1>1, CommitStores DEF PairInv, TypeOK, BeginPairing, ServePairRequest, EnqueueRequest
<1>3. issued[r] = -1 /\ issued' = [issued EXCEPT ![r] = clock]
  BY DEF BeginPairing, NewRequest
<1>4. shown[r] = 0 /\ r \notin disk.pending /\ disk.decisionOutbox[r] = "none"
  BY <1>3 DEF PairInv, RowsMade
<1>5. UNCHANGED disk
  BY DEF publisherVars
<1>6. TypeOK'
  BY <1>2, <1>3, PairingAssumption DEF PairInv, TypeOK, publisherVars
<1>7. WorksOnSaved' /\ FlushedFirst' /\ QueueDecides'
  BY DEF PairInv, WorksOnSaved, FlushedFirst, QueueDecides, Granted, publisherVars
<1>8. NoRow.offer = 0 /\ NoRow.confirmation = 0 /\ NoRow.decision = "none" /\ ~NoRow.live
  BY DEF NoRow
<1>9. RowsMade'
  <2>1. clock # -1
    BY PairingAssumption DEF PairInv, TypeOK
  <2>2. issued'[r] # -1 /\ \A q \in Requests \ {r} : issued'[q] = issued[q]
    BY <1>3, <2>1 DEF PairInv, TypeOK
  <2>3. QED
    BY <1>1, <1>2, <1>5, <1>8, <2>2, ZenonT(30) DEF PairInv, RowsMade
<1>10. NewIsBlank'
  BY <1>1, <1>2, <1>4, <1>5, <1>8, ZenonT(30) DEF PairInv, NewIsBlank
<1>11. OneTranscript'
  <2>1. disk.pending \subseteq Requests \ {r}
    BY <1>4 DEF PairInv, TypeOK, PublisherState
  <2>2. QED
    BY <1>2, <1>5, <1>8, <2>1 DEF PairInv, OneTranscript
<1>12. ApprovalBacked'
  BY <1>1, <1>2, <1>5, <1>8 DEF PairInv, ApprovalBacked, Approvals
<1>13. DecidedOnce'
  BY <1>1, <1>2, <1>5, <1>8 DEF PairInv, DecidedOnce
<1>14. QED
  BY <1>6, <1>7, <1>9, <1>10, <1>11, <1>12, <1>13 DEF PairInv

\* The viewer's two ways to make a request.
LEMMA PairKeeps ==
    ASSUME PairInv, NEW r \in Requests,
           HeadlessPair(r) \/ \E answered \in BOOLEAN : Pair(r, answered)
    PROVE  PairInv'
<1>1. CASE HeadlessPair(r)
  BY <1>1, NewRequestKeeps DEF PairInv, TypeOK, HeadlessPair
<1>2. ASSUME NEW answered \in BOOLEAN, Pair(r, answered) PROVE PairInv'
  BY <1>2, NewRequestKeeps DEF PairInv, TypeOK, Pair, SavePairingState
<1>3. QED
  BY <1>1, <1>2

\* A confirmation is stored only if it signs the offer the relay holds, which
\* for a pending request is the publisher's.
LEMMA ConfirmPairingKeeps ==
    ASSUME PairInv, NEW r \in Requests, ConfirmPairing(r)
    PROVE  PairInv'
<1> DEFINE new == StoreOnce(r, "confirmation", shown[r])
<1>1. /\ new \in Row
      /\ new.confirmation = IF row[r].confirmation = 0 THEN shown[r] ELSE row[r].confirmation
      /\ new.live = row[r].live /\ new.offer = row[r].offer /\ new.decision = row[r].decision
  BY StoreOnceConfirmation DEF PairInv, TypeOK
<1>2. /\ row' \in [Requests -> Row]
      /\ row'[r] = new
      /\ \A q \in Requests \ {r} : row'[q] = row[q] \/ row'[q] = NoRow
  BY <1>1, CommitStores DEF PairInv, TypeOK, ConfirmPairing, ServePairConfirmation, StoreConfirmation
<1>3. row[r].live /\ shown[r] # 0 /\ shown[r] = row[r].offer
  BY DEF ConfirmPairing, Prompted, ServePairConfirmation, MayStoreConfirmation, Kept,
         ConfirmationVerifies, TranscriptMatches
<1>4. UNCHANGED <<clock, issued, disk, publisherVars, viewerVars>>
  BY DEF ConfirmPairing, publisherVars
<1>5. TypeOK' /\ WorksOnSaved' /\ FlushedFirst' /\ QueueDecides'
  BY <1>2, <1>4 DEF PairInv, TypeOK, WorksOnSaved, FlushedFirst, QueueDecides, Granted,
                    publisherVars, viewerVars
<1>6. NoRow.offer = 0 /\ NoRow.confirmation = 0 /\ NoRow.decision = "none" /\ ~NoRow.live
  BY DEF NoRow
<1>7. issued[r] # -1
  BY <1>3, <1>6 DEF PairInv, RowsMade
<1>8. RowsMade'
  BY <1>1, <1>2, <1>3, <1>4, <1>6, <1>7 DEF PairInv, RowsMade, viewerVars
<1>9. NewIsBlank'
  BY <1>1, <1>2, <1>3, <1>4, <1>6 DEF PairInv, NewIsBlank, viewerVars
<1>10. OneTranscript'
  <2>1. disk.pending \subseteq Requests
    BY DEF PairInv, TypeOK, PublisherState
  <2>2. QED
    BY <1>1, <1>2, <1>3, <1>4, <1>6, <2>1 DEF PairInv, OneTranscript, viewerVars
<1>11. ApprovalBacked' /\ DecidedOnce'
  BY <1>1, <1>2, <1>4, <1>6 DEF PairInv, ApprovalBacked, DecidedOnce, Approvals, viewerVars
<1>12. QED
  BY <1>5, <1>8, <1>9, <1>10, <1>11 DEF PairInv

\* The relay keeps the first offer it gets for a request: the publisher's only
\* one, as long as the request is pending.
LEMMA FlushOfferKeeps ==
    ASSUME PairInv, NEW answered \in BOOLEAN, FlushOffer(answered)
    PROVE  PairInv'
<1> DEFINE r == Min(mem.offerOutbox)
           new == StoreOnce(r, "offer", mem.offer[r])
<1>1. mem = disk /\ r \in disk.offerOutbox /\ r \in disk.pending /\ r \in Requests
  BY MinInSet DEF PairInv, TypeOK, PublisherState, WorksOnSaved, FlushOffer
<1>2. disk.offer[r] \in Offers /\ disk.offer[r] # 0
  BY <1>1 DEF PairInv, TypeOK, PublisherState, FlushOffer, ServePairOffer, MayStoreOffer,
              OfferVerifies
<1>3. /\ new \in Row
      /\ new.offer = IF row[r].offer = 0 THEN disk.offer[r] ELSE row[r].offer
      /\ new.live = row[r].live /\ new.confirmation = row[r].confirmation
      /\ new.decision = row[r].decision
  BY <1>1, <1>2, StoreOnceOffer DEF PairInv, TypeOK
<1>4. /\ row' \in [Requests -> Row]
      /\ row'[r] = new
      /\ \A q \in Requests \ {r} : row'[q] = row[q] \/ row'[q] = NoRow
  BY <1>1, <1>3, CommitStores DEF PairInv, TypeOK, FlushOffer, ServePairOffer, StoreOffer
<1>5. row[r].live
  BY DEF FlushOffer, ServePairOffer, MayStoreOffer, Kept
<1>6. /\ mem' = disk' /\ session' # "refresh"
      /\ session' \in FlushStages \cup {"idle", "refresh", "command"}
      /\ disk' = disk \/ disk' = [disk EXCEPT !.offerOutbox = @ \ {r}]
  BY <1>1 DEF FlushOffer, Sent, Save, ReplacePrivate, EndSession, FlushStages
<1>7. /\ disk' \in PublisherState
      /\ disk'.offerOutbox \subseteq disk.offerOutbox
      /\ disk'.pending = disk.pending /\ disk'.offer = disk.offer
      /\ disk'.confirmed = disk.confirmed /\ disk'.decisionOutbox = disk.decisionOutbox
      /\ disk'.approved = disk.approved /\ disk'.revoked = disk.revoked
  BY <1>6 DEF PairInv, TypeOK, PublisherState
<1>8. UNCHANGED <<clock, issued, offers, waiting, shown, polling, verified>>
  BY DEF FlushOffer, viewerVars
<1>9. NoRow.offer = 0 /\ NoRow.confirmation = 0 /\ NoRow.decision = "none" /\ ~NoRow.live
  BY DEF NoRow
<1>10. TypeOK'
  BY <1>4, <1>6, <1>7, <1>8 DEF PairInv, TypeOK
<1>11. WorksOnSaved' /\ FlushedFirst' /\ QueueDecides'
  BY <1>6, <1>7 DEF PairInv, WorksOnSaved, FlushedFirst, QueueDecides, Granted
<1>12. RowsMade'
  <2> HIDE DEF r, new
  <2>1. \A q \in Requests : ~row[q].live => row[q] = NoRow
    BY DEF PairInv, RowsMade
  <2>2. \A q \in Requests : issued[q] = -1 =>
            /\ row[q] = NoRow /\ shown[q] = 0
            /\ q \notin disk.pending /\ disk.decisionOutbox[q] = "none"
    BY DEF PairInv, RowsMade
  <2>3. issued[r] # -1
    BY <1>1, <2>2
  <2>4. \A q \in Requests : ~row'[q].live => row'[q] = NoRow
    BY <1>1, <1>3, <1>4, <1>5, <2>1
  <2>5. \A q \in Requests : issued[q] = -1 =>
            /\ row'[q] = NoRow /\ shown[q] = 0
            /\ q \notin disk.pending /\ disk.decisionOutbox[q] = "none"
    BY <1>4, <2>2, <2>3
  <2>6. QED
    BY <1>7, <1>8, <2>4, <2>5 DEF RowsMade
<1>13. NewIsBlank'
  BY <1>1, <1>3, <1>4, <1>7, <1>8, <1>9 DEF PairInv, NewIsBlank
<1>14. OneTranscript'
  <2>1. disk.pending \subseteq Requests
    BY DEF PairInv, TypeOK, PublisherState
  <2>2. QED
    BY <1>1, <1>3, <1>4, <1>7, <1>8, <1>9, <2>1 DEF PairInv, OneTranscript
<1>15. ApprovalBacked' /\ DecidedOnce'
  BY <1>1, <1>3, <1>4, <1>7, <1>8, <1>9 DEF PairInv, ApprovalBacked, DecidedOnce, Approvals
<1>16. QED
  BY <1>10, <1>11, <1>12, <1>13, <1>14, <1>15 DEF PairInv

\* The relay keeps the first decision it gets: it was queued together with the
\* grant, and no other is ever queued for that request.
LEMMA FlushDecisionKeeps ==
    ASSUME PairInv, NEW answered \in BOOLEAN, FlushDecision(answered)
    PROVE  PairInv'
<1> DEFINE r == Min(QueuedDecisions)
           verdict == disk.decisionOutbox[r]
           new == [row[r] EXCEPT !.decision = verdict, !.decided = clock]
<1>1. mem = disk /\ r \in Requests /\ verdict # "none" /\ verdict \in Verdicts
  <2>1. r \in QueuedDecisions
    BY MinInSet DEF QueuedDecisions, FlushDecision
  <2>2. QED
    BY <2>1 DEF QueuedDecisions, PairInv, TypeOK, PublisherState, WorksOnSaved
<1>2. /\ r \notin disk.pending
      /\ verdict \in Approvals => ViewerOf[r] \in Granted
  BY <1>1 DEF PairInv, QueueDecides
<1>3. row[r].live
  BY DEF FlushDecision, ServePairDecision, MayStoreDecision, Kept
<1>4. /\ row' \in [Requests -> Row]
      /\ \A q \in Requests \ {r} : row'[q] = row[q] \/ row'[q] = NoRow
      /\ \/ row'[r] = NoRow
         \/ /\ row'[r] \in Row /\ row'[r].live
            /\ row'[r].offer = row[r].offer /\ row'[r].confirmation = row[r].confirmation
            /\ \/ row[r].decision # "none" /\ row'[r].decision = row[r].decision
               \/ row'[r].decision = verdict
  <2>1. row \in [Requests -> Row]
    BY DEF PairInv, TypeOK
  <2>2. CASE row[r].decision # "none"
    <3>1. Commit(Unchanged)
      BY <1>1, <2>2 DEF FlushDecision, ServePairDecision, StoreDecision
    <3>2. QED
      BY <1>1, <1>3, <2>1, <2>2, <3>1, CommitPurges
  <2>3. CASE row[r].decision = "none"
    <3>1. Commit(Only(r, new))
      BY <1>1, <2>3 DEF FlushDecision, ServePairDecision, StoreDecision
    <3>2. /\ new \in Row /\ new.decision = verdict /\ new.live
          /\ new.offer = row[r].offer /\ new.confirmation = row[r].confirmation
      BY <1>1, <1>3, <2>1 DEF PairInv, TypeOK, Row
    <3>3. QED
      BY <1>1, <2>1, <3>1, <3>2, CommitStores
  <2>4. QED
    BY <2>2, <2>3
<1>5. /\ mem' = disk' /\ session' # "refresh"
      /\ session' \in FlushStages \cup {"idle", "refresh", "command"}
      /\ disk' = disk \/ disk' = [disk EXCEPT !.decisionOutbox[r] = "none"]
  BY <1>1 DEF FlushDecision, Sent, Save, ReplacePrivate, EndSession, FlushStages
<1>6. /\ disk' \in PublisherState
      /\ \A q \in Requests \ {r} : disk'.decisionOutbox[q] = disk.decisionOutbox[q]
      /\ disk'.decisionOutbox[r] \in {"none", verdict}
      /\ disk'.pending = disk.pending /\ disk'.offer = disk.offer
      /\ disk'.confirmed = disk.confirmed /\ disk'.offerOutbox = disk.offerOutbox
      /\ disk'.approved = disk.approved /\ disk'.revoked = disk.revoked
  BY <1>1, <1>5 DEF PairInv, TypeOK, PublisherState
<1>7. UNCHANGED <<clock, issued, offers, waiting, shown, polling, verified>>
  BY DEF FlushDecision, viewerVars
<1>8. NoRow.offer = 0 /\ NoRow.confirmation = 0 /\ NoRow.decision = "none" /\ ~NoRow.live
  BY DEF NoRow
<1>9. TypeOK'
  BY <1>4, <1>5, <1>6, <1>7 DEF PairInv, TypeOK
<1>10. WorksOnSaved' /\ FlushedFirst' /\ QueueDecides'
  BY <1>1, <1>2, <1>5, <1>6 DEF PairInv, WorksOnSaved, FlushedFirst, QueueDecides, Granted
<1>11. RowsMade'
  BY <1>1, <1>3, <1>4, <1>6, <1>7, <1>8 DEF PairInv, RowsMade
<1>12. NewIsBlank'
  BY <1>1, <1>4, <1>6, <1>7, <1>8 DEF PairInv, NewIsBlank
<1>13. OneTranscript'
  <2>1. disk.pending \subseteq Requests \ {r}
    BY <1>2 DEF PairInv, TypeOK, PublisherState
  <2>2. QED
    BY <1>4, <1>6, <1>7, <1>8, <2>1 DEF PairInv, OneTranscript
<1>14. ApprovalBacked'
  BY <1>1, <1>2, <1>4, <1>6, <1>7, <1>8 DEF PairInv, ApprovalBacked, Approvals, Granted
<1>15. DecidedOnce'
  BY <1>1, <1>2, <1>3, <1>4, <1>6, <1>7, <1>8 DEF PairInv, DecidedOnce
<1>16. QED
  BY <1>9, <1>10, <1>11, <1>12, <1>13, <1>14, <1>15 DEF PairInv

\* A refresh grants and queues at once, and offers only to requests of which
\* nothing is held anywhere.
LEMMA RefreshRequestsKeeps ==
    ASSUME PairInv, NEW policy \in Policies, RefreshRequests(policy)
    PROVE  PairInv'
<1> DEFINE auto == ByPolicy(policy)
           hand == ByHand(policy)
           state == Refreshed(policy)
           conf == Confirmed(state)
<1>1. /\ mem = disk /\ disk.offerOutbox = {}
      /\ \A q \in Requests : disk.decisionOutbox[q] = "none"
  BY DEF PairInv, WorksOnSaved, FlushedFirst, RefreshRequests
<1>2. /\ row' \in [Requests -> Row]
      /\ \A q \in Requests : row'[q] = row[q] \/ row'[q] = NoRow
      /\ \A q \in Requests : row'[q].live => q \in Kept /\ row'[q] = row[q]
  BY CommitPurges DEF PairInv, TypeOK, RefreshRequests, ServePairingInbox
<1>3. /\ auto \subseteq Fresh /\ hand \subseteq Fresh
      /\ auto = {} \/ hand = {}
  BY PairingAssumption DEF ByPolicy, ByHand
<1>4. \A q \in Fresh : /\ q \in Requests /\ q \notin disk.pending
                       /\ row[q].live /\ row[q].decision = "none"
                       /\ ViewerOf[q] \in Viewers
  BY <1>1, PairingAssumption DEF Fresh, PublisherInbox, Undecided, Kept
<1>5. \A q \in hand : /\ row[q].offer = 0 /\ row[q].confirmation = 0 /\ shown[q] = 0
                      /\ issued[q] # -1
  <2>1. ~NoRow.live
    BY DEF NoRow
  <2>2. QED
    BY <1>1, <1>3, <1>4, <2>1 DEF PairInv, NewIsBlank, RowsMade
<1>6. \A q \in auto : issued[q] # -1
  <2>1. ~NoRow.live
    BY DEF NoRow
  <2>2. QED
    BY <1>1, <1>3, <1>4, <2>1 DEF PairInv, RowsMade
<1>7. disk' = [disk EXCEPT
                 !.approved = disk.approved \cup {ViewerOf[q] : q \in auto},
                 !.decisionOutbox = [q \in Requests |-> IF q \in auto THEN "policy"
                                                        ELSE disk.decisionOutbox[q]],
                 !.pending = disk.pending \cup hand,
                 !.offer = [q \in Requests |-> IF q \in hand THEN NewOffer(q) ELSE disk.offer[q]],
                 !.offerOutbox = disk.offerOutbox \cup hand,
                 !.confirmed = disk.confirmed \cup conf]
      /\ state.offer = disk'.offer /\ state.pending = disk'.pending
  <2>1. disk' = [state EXCEPT !.confirmed = @ \cup conf]
    BY DEF RefreshRequests, Save, ReplacePrivate
  <2>2. state = [disk EXCEPT
                   !.approved = disk.approved \cup {ViewerOf[q] : q \in auto},
                   !.decisionOutbox = [q \in Requests |-> IF q \in auto THEN "policy"
                                                          ELSE disk.decisionOutbox[q]],
                   !.pending = disk.pending \cup hand,
                   !.offer = [q \in Requests |-> IF q \in hand THEN NewOffer(q) ELSE disk.offer[q]],
                   !.offerOutbox = disk.offerOutbox \cup hand]
    BY <1>1 DEF Refreshed, WithOffers, QueueDecision, AddApproved, PairInv, TypeOK, PublisherState
  <2> HIDE DEF state, auto, hand, conf
  <2>3. QED
    BY <2>1, <2>2 DEF PairInv, TypeOK, PublisherState
<1>8. /\ disk'.pending = disk.pending \cup hand
      /\ disk'.confirmed = disk.confirmed \cup conf
      /\ disk'.revoked = disk.revoked
      /\ disk'.offerOutbox = hand
      /\ disk'.approved = disk.approved \cup {ViewerOf[q] : q \in auto}
      /\ disk'.offer = [q \in Requests |-> IF q \in hand THEN NewOffer(q) ELSE disk.offer[q]]
      /\ disk'.decisionOutbox = [q \in Requests |-> IF q \in auto THEN "policy"
                                                    ELSE disk.decisionOutbox[q]]
  <2> HIDE DEF state, auto, hand, conf
  <2>1. QED
    BY <1>1, <1>7 DEF PairInv, TypeOK, PublisherState
<1>9. /\ mem' = disk' /\ session' = "flush new"
      /\ UNCHANGED <<clock, issued, waiting, shown, polling, verified>>
  BY DEF RefreshRequests, Save, ReplacePrivate, viewerVars
<1>10. /\ offers' = [q \in Requests |-> IF q \in hand THEN NewOffer(q) ELSE offers[q]]
       /\ \A q \in hand : offers[q] < MaxOffers
  BY DEF RefreshRequests
<1>11. /\ conf \subseteq disk.pending
       /\ \A q \in conf : row[q].confirmation = disk'.offer[q]
  BY <1>5, <1>7, <1>8 DEF RefreshRequests, Confirmed, ConfirmationVerifies, TranscriptMatches
<1> HIDE DEF auto, hand, state, conf
<1>12. \A q \in hand : NewOffer(q) \in Offers
  <2> SUFFICES ASSUME NEW q \in hand PROVE NewOffer(q) \in Offers
    OBVIOUS
  <2>1. q \in Requests /\ offers[q] < MaxOffers
    BY <1>3, <1>4, <1>10
  <2>2. QED
    BY <2>1, PairingAssumption DEF NewOffer, Offers, PairInv, TypeOK
<1>13. disk' \in PublisherState
  <2>1. disk'.pending \subseteq Requests /\ disk'.confirmed \subseteq Requests
    BY <1>3, <1>4, <1>8, <1>11 DEF PairInv, TypeOK, PublisherState
  <2>2. disk'.offer \in [Requests -> Offers]
    BY <1>8, <1>12 DEF PairInv, TypeOK, PublisherState
  <2>3. {ViewerOf[q] : q \in auto} \subseteq Viewers
    BY <1>3, <1>4
  <2>4. disk'.approved \subseteq Viewers /\ disk'.revoked \subseteq Viewers
    BY <1>8, <2>3 DEF PairInv, TypeOK, PublisherState
  <2>5. disk'.offerOutbox \subseteq Requests
    BY <1>3, <1>4, <1>8
  <2>6. disk'.decisionOutbox \in [Requests -> Verdicts \cup {"none"}]
    BY <1>8 DEF PairInv, TypeOK, PublisherState, Verdicts, Approvals
  <2>7. QED
    BY <1>7, <1>8, <2>1, <2>2, <2>4, <2>5, <2>6 DEF PairInv, TypeOK, PublisherState
<1>14. TypeOK'
  BY <1>2, <1>9, <1>10, <1>12, <1>13 DEF PairInv, TypeOK, FlushStages
<1>15. WorksOnSaved' /\ FlushedFirst'
  BY <1>8, <1>9, <1>11 DEF PairInv, WorksOnSaved, FlushedFirst
<1>16. \A q \in Requests : disk'.decisionOutbox[q] # "none" => q \in auto
  BY <1>1, <1>8
<1>17. \A q \in auto : q \notin disk'.pending
  BY <1>3, <1>4, <1>8
<1>18. QueueDecides'
  BY <1>8, <1>16, <1>17 DEF QueueDecides, Granted
<1>19. NoRow.offer = 0 /\ NoRow.confirmation = 0 /\ NoRow.decision = "none" /\ ~NoRow.live
  BY DEF NoRow
<1>20. RowsMade'
  <2>1. \A q \in Requests : ~row'[q].live => row'[q] = NoRow
    BY <1>2 DEF PairInv, RowsMade
  <2>2. ASSUME NEW q \in Requests, issued[q] = -1
        PROVE  /\ row'[q] = NoRow /\ shown[q] = 0
               /\ q \notin disk'.pending /\ disk'.decisionOutbox[q] = "none"
    BY <1>2, <1>5, <1>6, <1>8, <1>16, <2>2 DEF PairInv, RowsMade
  <2>3. QED
    BY <1>9, <2>1, <2>2 DEF RowsMade
<1>21. NewIsBlank'
  <2> SUFFICES ASSUME NEW q \in Requests, row'[q].live, row'[q].decision = "none",
                      q \notin disk'.pending, disk'.decisionOutbox[q] = "none"
               PROVE  row'[q].offer = 0 /\ row'[q].confirmation = 0 /\ shown'[q] = 0
    BY DEF NewIsBlank
  <2>1. row'[q] = row[q]
    BY <1>2, <1>19
  <2>2. q \notin disk.pending /\ disk.decisionOutbox[q] = "none"
    BY <1>1, <1>8
  <2>3. QED
    BY <1>9, <2>1, <2>2 DEF PairInv, NewIsBlank
<1>22. OneTranscript'
  <2> SUFFICES ASSUME NEW q \in disk.pending \cup hand
               PROVE  /\ row'[q].offer \in {0, disk'.offer[q]}
                      /\ row'[q].confirmation \in {0, disk'.offer[q]}
                      /\ shown[q] \in {0, disk'.offer[q]}
                      /\ q \in disk.confirmed \cup conf /\ row'[q].live =>
                            row'[q].confirmation = disk'.offer[q]
    BY <1>8, <1>9 DEF OneTranscript
  <2>1. q \in Requests
    BY <1>3, <1>4 DEF PairInv, TypeOK, PublisherState
  <2>2. CASE q \in hand
    <3>1. q \notin disk.confirmed \cup conf
      BY <1>3, <1>4, <1>11, <2>2 DEF PairInv, WorksOnSaved
    <3>2. QED
      BY <1>2, <1>5, <1>19, <2>1, <2>2, <3>1
  <2>3. CASE q \notin hand
    <3>1. q \in disk.pending /\ disk'.offer[q] = disk.offer[q]
      BY <1>8, <2>1, <2>3
    <3>2. QED
      BY <1>2, <1>11, <1>19, <2>1, <3>1 DEF PairInv, OneTranscript
  <2>4. QED
    BY <2>2, <2>3
<1>23. ApprovalBacked'
  BY <1>2, <1>8, <1>9, <1>19 DEF PairInv, ApprovalBacked, Approvals
<1>24. DecidedOnce'
  <2>1. \A q \in hand \cup auto : row[q].decision = "none"
    BY <1>3, <1>4
  <2>2. \A q \in Requests : q \notin auto => disk'.decisionOutbox[q] = "none"
    BY <1>16
  <2>3. QED
    BY <1>2, <1>8, <1>19, <2>1, <2>2 DEF PairInv, DecidedOnce
<1>25. QED
  BY <1>14, <1>15, <1>18, <1>20, <1>21, <1>22, <1>23, <1>24 DEF PairInv

\* A command decides pending requests only: it removes them, grants and queues
\* in one save, and the relay holds no verdict for any of them.
LEMMA DecideKeeps ==
    ASSUME PairInv, NEW S, NEW verdict \in {"manual", "reject"}, Decide(S, verdict)
    PROVE  PairInv'
<1> DEFINE grants == IF verdict \in Approvals THEN {ViewerOf[q] : q \in S} ELSE {}
<1>1. mem = disk /\ S \subseteq disk.pending /\ S \subseteq Requests
  BY DEF PairInv, TypeOK, PublisherState, WorksOnSaved, Decide, MayDecide, UniqueRequests
<1>2. disk' = [disk EXCEPT
                 !.approved = disk.approved \cup grants,
                 !.decisionOutbox = [q \in Requests |-> IF q \in S THEN verdict
                                                        ELSE disk.decisionOutbox[q]],
                 !.pending = disk.pending \ S,
                 !.confirmed = disk.confirmed \ S,
                 !.offerOutbox = disk.offerOutbox \ S]
  <2>1. disk' = Decided(S, verdict)
    BY DEF Decide, Save, ReplacePrivate
  <2>2. CASE verdict = "manual"
    BY <1>1, <2>1, <2>2 DEF Decided, QueueDecision, AddApproved, Approvals, PairInv, TypeOK, PublisherState
  <2>3. CASE verdict = "reject"
    BY <1>1, <2>1, <2>3, ZenonT(30) DEF Decided, QueueDecision, Approvals, PairInv, TypeOK, PublisherState
  <2>4. QED
    BY <2>2, <2>3
<1>3. grants \subseteq Viewers
  BY <1>1, PairingAssumption
<1>4. verdict \in Approvals => \A q \in S : ViewerOf[q] \in grants
  OBVIOUS
<1> HIDE DEF grants
<1>5. /\ disk'.pending = disk.pending \ S /\ disk'.offer = disk.offer
      /\ disk'.confirmed = disk.confirmed \ S /\ disk'.offerOutbox = disk.offerOutbox \ S
      /\ disk'.approved = disk.approved \cup grants /\ disk'.revoked = disk.revoked
      /\ disk'.decisionOutbox = [q \in Requests |-> IF q \in S THEN verdict
                                                    ELSE disk.decisionOutbox[q]]
  BY <1>2 DEF PairInv, TypeOK, PublisherState
<1>6. disk' \in PublisherState
  <2>1. disk'.decisionOutbox \in [Requests -> Verdicts \cup {"none"}]
    BY <1>5 DEF PairInv, TypeOK, PublisherState, Verdicts, Approvals
  <2>2. QED
    BY <1>2, <1>3, <1>5, <2>1 DEF PairInv, TypeOK, PublisherState
<1>7. /\ mem' = disk' /\ session' = "flush decided"
      /\ UNCHANGED <<clock, issued, row, offers, waiting, shown, polling, verified>>
  BY DEF Decide, Save, ReplacePrivate, relayVars, viewerVars
<1>8. TypeOK'
  BY <1>6, <1>7 DEF PairInv, TypeOK, FlushStages
<1>9. WorksOnSaved' /\ FlushedFirst'
  BY <1>5, <1>7 DEF PairInv, WorksOnSaved, FlushedFirst
<1>10. QueueDecides'
  BY <1>1, <1>4, <1>5 DEF PairInv, QueueDecides, Granted
<1>11. RowsMade' /\ NewIsBlank'
  BY <1>1, <1>5, <1>7, ZenonT(30) DEF PairInv, RowsMade, NewIsBlank
<1>12. OneTranscript'
  BY <1>5, <1>7 DEF PairInv, OneTranscript
<1>13. ApprovalBacked'
  BY <1>5, <1>7 DEF PairInv, ApprovalBacked
<1>14. DecidedOnce'
  <2> SUFFICES ASSUME NEW q \in Requests, row[q].live, row[q].decision # "none"
               PROVE  /\ q \notin disk'.pending
                      /\ disk'.decisionOutbox[q] \in {"none", row[q].decision}
    BY <1>7 DEF DecidedOnce
  <2>1. q \notin disk.pending /\ disk.decisionOutbox[q] \in {"none", row[q].decision}
    BY DEF PairInv, DecidedOnce
  <2>2. QED
    BY <1>1, <1>5, <2>1
<1>15. QED
  BY <1>8, <1>9, <1>10, <1>11, <1>12, <1>13, <1>14 DEF PairInv

\* A revocation moves a grant and touches no request.
LEMMA RevokeKeeps ==
    ASSUME PairInv, NEW v \in Viewers, Revoke(v)
    PROVE  PairInv'
<1>1. /\ disk' = [disk EXCEPT !.approved = @ \ {v}, !.revoked = @ \cup {v}]
      /\ mem' = disk'
      /\ UNCHANGED <<clock, issued, row, session, offers, waiting, shown, polling, verified>>
  BY DEF Revoke, Save, ReplacePrivate, relayVars, viewerVars
<1>2. /\ disk'.pending = disk.pending /\ disk'.offer = disk.offer
      /\ disk'.confirmed = disk.confirmed /\ disk'.offerOutbox = disk.offerOutbox
      /\ disk'.decisionOutbox = disk.decisionOutbox
      /\ disk'.approved = disk.approved \ {v} /\ disk'.revoked = disk.revoked \cup {v}
      /\ disk' \in PublisherState
  BY <1>1 DEF PairInv, TypeOK, PublisherState
<1>3. TypeOK' /\ WorksOnSaved' /\ FlushedFirst'
  BY <1>1, <1>2 DEF PairInv, TypeOK, WorksOnSaved, FlushedFirst
<1>4. QueueDecides'
  BY <1>2 DEF PairInv, QueueDecides, Granted
<1>5. RowsMade' /\ NewIsBlank' /\ OneTranscript' /\ DecidedOnce'
  BY <1>1, <1>2 DEF PairInv, RowsMade, NewIsBlank, OneTranscript, DecidedOnce
<1>6. ApprovalBacked'
  BY <1>1, <1>2 DEF PairInv, ApprovalBacked
<1>7. QED
  BY <1>3, <1>4, <1>5, <1>6 DEF PairInv

\* Every step of the three parties preserves the invariant.
LEMMA PairStep == PairInv /\ [Next]_vars => PairInv'
<1> SUFFICES ASSUME PairInv, [Next]_vars PROVE PairInv'
  OBVIOUS
<1>1. CASE Tick \/ Load \/ FlushDone \/ FlushRefused \/ Interrupt
  BY <1>1, SessionStepKeeps
<1>2. ASSUME NEW answered \in BOOLEAN, FlushOffer(answered) \/ FlushDecision(answered)
      PROVE  PairInv'
  BY <1>2, FlushOfferKeeps, FlushDecisionKeeps
<1>3. ASSUME NEW policy \in Policies, RefreshRequests(policy)
      PROVE  PairInv'
  BY <1>3, RefreshRequestsKeeps
<1>4. CASE NoCommand \/ ApproveAll
  BY <1>4, DecideKeeps DEF NoCommand, ApproveAll
<1>5. ASSUME NEW r \in Requests, Approve(r) \/ Deny(r) \/ ConfirmPairing(r) \/ RejectPairing(r)
      PROVE  PairInv'
  BY <1>5, DecideKeeps, ConfirmPairingKeeps, RejectPairingKeeps DEF Approve, Deny
<1>6. ASSUME NEW r \in Requests, HeadlessPair(r) \/ HeadlessDecided(r) \/ HeadlessTimeout(r)
      PROVE  PairInv'
  BY <1>6, PairKeeps, HeadlessDecidedKeeps, ViewerForgetKeeps
<1>7. ASSUME NEW r \in Requests, NEW answered \in BOOLEAN, Pair(r, answered)
      PROVE  PairInv'
  BY <1>7, PairKeeps
<1>8. ASSUME NEW v \in Viewers, Revoke(v) \/ RefreshPairing(v) \/ ForgetVerifiedPublisher(v)
      PROVE  PairInv'
  BY <1>8, RevokeKeeps, RefreshPairingKeeps, ViewerForgetKeeps
<1>9. CASE UNCHANGED vars
  <2>1. TypeOK'
    BY <1>9 DEF PairInv, TypeOK, vars, relayVars, publisherVars, viewerVars
  <2>2. QED
    BY <1>9, <2>1, QuietKeeps DEF PairInv, WorksOnSaved, vars, relayVars, publisherVars, viewerVars
<1>10. QED
  BY <1>1, <1>2, <1>3, <1>4, <1>5, <1>6, <1>7, <1>8, <1>9 DEF Next

\* The inductive invariant holds in every state the three parties reach.
LEMMA PairAlways == Spec => []PairInv
<1>1. QED
  BY PairInit, PairStep, PTL DEF Spec

-----------------------------------------------------------------------------
(* What the ceremony promises *)

(* Every reachable state of the relay's table, the publisher's file and the  *)
(* viewers' files is well-formed: no offer number, time or verdict out of    *)
(* its range survives any sequence of purges, retries and crashes.           *)
THEOREM PairingTypes == Spec => []TypeOK
<1>1. PairInv => TypeOK
  BY DEF PairInv
<1>2. QED
  BY <1>1, PairAlways, PTL

(* An approval never outruns its grant: decide saves the grant together with *)
(* the queued decision, so what the relay stores or a viewer has acted on is *)
(* backed by the publisher's file whatever crash follows.                    *)
THEOREM ApprovalsAreBacked == Spec => []ApprovalBacked
<1>1. PairInv => ApprovalBacked
  BY DEF PairInv
<1>2. QED
  BY <1>1, PairAlways, PTL

(* Publisher, relay and viewer hold one transcript of a pending request: the *)
(* strings two humans compare are derived from one offer.                    *)
THEOREM OneTranscriptPerRequest == Spec => []CeremonyAgrees
<1>1. PairInv => CeremonyAgrees
  <2> SUFFICES ASSUME PairInv, NEW r \in disk.pending
               PROVE  /\ {row[r].offer, row[r].confirmation, shown[r]} \subseteq {0, disk.offer[r]}
                      /\ r \in disk.confirmed /\ r \in Undecided =>
                            row[r].confirmation = disk.offer[r]
    BY DEF CeremonyAgrees
  <2>1. r \in Undecided => row[r].live
    BY DEF Undecided, Kept
  <2>2. QED
    BY <2>1 DEF PairInv, OneTranscript
<1>2. QED
  BY <1>1, PairAlways, PTL

(* A request is decided once, although decisions are queued, retried after a *)
(* lost answer and refused: the relay never holds a verdict for a request    *)
(* still pending, nor one a queued decision contradicts.                     *)
THEOREM RequestsDecidedOnce == Spec => []DecidedOnce
<1>1. PairInv => DecidedOnce
  BY DEF PairInv
<1>2. QED
  BY <1>1, PairAlways, PTL

=============================================================================
