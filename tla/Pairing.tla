------------------------------- MODULE Pairing -------------------------------
(***************************************************************************)
(* The pairing ceremony that lets a viewer read one publisher's stream.    *)
(* Three parties keep durable state and only ever meet at the relay:       *)
(*                                                                         *)
(*   viewer     pending-pairings.bin and verified-publishers.bin           *)
(*              (crates/viewer/src/lib.rs)                                 *)
(*   relay      one row per request in pairing-v1.sqlite3                  *)
(*              (crates/relay/src/pairing_store.rs, native_service.rs)     *)
(*   publisher  publisher-state.bin, worked on in memory by one session at *)
(*              a time under its lock (crates/publisher/src/native_admin.rs) *)
(*                                                                         *)
(* Every pairing call of the relay is one immediate transaction that first *)
(* purges what has expired.  A call may be stored and its answer lost; a   *)
(* session may be cut off between any two calls.                           *)
(*                                                                         *)
(* An offer is its nonce, a confirmation or a manual decision the nonce of *)
(* the offer whose transcript it signs: two transcripts of one request are *)
(* equal exactly when their offers are.                                    *)
(***************************************************************************)
EXTENDS Integers, FiniteSets, FiniteSetsExt

CONSTANTS
    Requests,      \* request identifiers, numbered: outboxes are sorted by them
    Viewers,       \* viewer identities
    ViewerOf,      \* the viewer that signs each request
    SourceOf,      \* the address each request comes from
    Trusted,       \* requests with a credential of the viewer-approval CA
    Policies,      \* viewer policies the config file may name, re-read every round
    Lifetime,      \* PAIR_LIFETIME_MS
    Retention,     \* DECISION_RETENTION_MS
    Window,        \* the rate limit's window
    PendingLimit,  \* MAX_PENDING_PER_PUBLISHER
    RateLimit,     \* MAX_REQUESTS_PER_MINUTE
    MaxTime,       \* bound on the clock
    MaxOffers      \* bound on the offers signed for one request

ASSUME PairingAssumption ==
    /\ Requests \subseteq Nat /\ IsFiniteSet(Requests)
    /\ ViewerOf \in [Requests -> Viewers]
    /\ Trusted \subseteq Requests
    /\ Policies \subseteq {"required", "trusted_ca", "open"}
    /\ Lifetime \in Nat \ {0} /\ Retention \in Nat
    /\ Window \in Nat /\ PendingLimit \in Nat /\ RateLimit \in Nat
    /\ MaxTime \in Nat /\ MaxOffers \in Nat \ {0}

VARIABLES
    clock,     \* now_ms, the same for all parties
    issued,    \* issued_at of each request, -1 before it is made
    row,       \* relay: the pair_requests table
    disk,      \* publisher: publisher-state.bin
    mem,       \* publisher: the copy of the session that holds the lock
    session,   \* publisher: where that session is, "idle" when the lock is free
    offers,    \* publisher: offers signed so far for each request
    waiting,   \* viewer: requests in its pending-pairings.bin
    shown,     \* viewer: the offer stored with each of them, 0 for none
    polling,   \* viewer: requests of running `gcview --verify-stream`
    verified   \* viewers with the publisher in their verified-publishers.bin

relayVars == <<row>>
publisherVars == <<disk, mem, session, offers>>
viewerVars == <<waiting, shown, polling, verified>>
vars == <<clock, issued, relayVars, publisherVars, viewerVars>>

Offers == 0..MaxOffers
Approvals == {"manual", "policy"}
Verdicts == Approvals \cup {"reject"}

\* A row of pair_requests; its columns are 0 or "none" where SQL has NULL.
Row == [live: BOOLEAN, received: 0..MaxTime, offer: Offers, confirmation: Offers,
        decision: Verdicts \cup {"none"}, decided: 0..MaxTime]

NoRow == [live |-> FALSE, received |-> 0, offer |-> 0, confirmation |-> 0,
          decision |-> "none", decided |-> 0]

\* PublisherState, history_outbox apart (KeyDelivery has it).  The offer of
\* a pending request is in offer, its confirmation known if in confirmed.
PublisherState ==
    [pending: SUBSET Requests, offer: [Requests -> Offers], confirmed: SUBSET Requests,
     approved: SUBSET Viewers, revoked: SUBSET Viewers,
     offerOutbox: SUBSET Requests, decisionOutbox: [Requests -> Verdicts \cup {"none"}]]

Init ==
    /\ clock = 0
    /\ issued = [r \in Requests |-> -1]
    /\ row = [r \in Requests |-> NoRow]
    /\ disk = [pending |-> {}, offer |-> [r \in Requests |-> 0], confirmed |-> {},
               approved |-> {}, revoked |-> {},
               offerOutbox |-> {}, decisionOutbox |-> [r \in Requests |-> "none"]]
    /\ mem = disk
    /\ session = "idle"
    /\ offers = [r \in Requests |-> 0]
    /\ waiting = {} /\ shown = [r \in Requests |-> 0]
    /\ polling = {} /\ verified = {}

Tick == clock < MaxTime /\ clock' = clock + 1
        /\ UNCHANGED <<issued, relayVars, publisherVars, viewerVars>>

-----------------------------------------------------------------------------
(* Message checks: protocol/src/pairing.rs *)

\* The request's signed lifetime is over; its offer expires with it.
Expired(r) == issued[r] + Lifetime <= clock

\* A request is signed once, with the time and a nonce of its own.
NewRequest(r) == issued[r] = -1 /\ issued' = [issued EXCEPT ![r] = clock]

RequestVerifies(r) == issued[r] <= clock /\ ~Expired(r)

\* The publisher's next offer for r: a fresh nonce.
NewOffer(r) == offers[r] + 1

OfferVerifies(r, nonce) == nonce # 0 /\ RequestVerifies(r)

\* A confirmation or manual decision signs the transcript of exactly one offer.
TranscriptMatches(signed, offer) == offer # 0 /\ signed = offer

ConfirmationVerifies(signed, offer) == TranscriptMatches(signed, offer)

\* What a decision signs: the transcript if made by hand, else nothing.
NewDecision(verdict, offer) == IF verdict = "manual" THEN offer ELSE 0

DecisionVerifies(verdict, signed) == (verdict = "manual") = (signed # 0)

-----------------------------------------------------------------------------
(* Relay: pairing_store.rs *)

\* Rows a call finds after its purge.
Purged(r) ==
    \/ row[r].decision = "none" /\ Expired(r)
    \/ row[r].decision # "none" /\ row[r].decided < clock - Retention

Kept == {r \in Requests : row[r].live /\ ~Purged(r)}

\* The table a call leaves behind: the kept rows, changed by what it stores.
Commit(changed) ==
    row' = [r \in Requests |->
              IF r \in DOMAIN changed THEN changed[r]
              ELSE IF r \in Kept THEN row[r] ELSE NoRow]

Unchanged == [r \in {} |-> NoRow]

Only(r, new) == [q \in {r} |-> new]

Undecided == {r \in Kept : row[r].decision = "none"}

Recent == {r \in Kept : row[r].received >= clock - Window}

\* The request arrives as soon as it is signed, so it verifies.
MayEnqueue(r) ==
    /\ Cardinality(Undecided) < PendingLimit
    /\ Cardinality({q \in Recent : SourceOf[q] = SourceOf[r]}) < RateLimit
    /\ Cardinality({q \in Recent : ViewerOf[q] = ViewerOf[r]}) < RateLimit

EnqueueRequest(r) == Commit(Only(r, [NoRow EXCEPT !.live = TRUE, !.received = clock]))

\* store_once keeps the first artifact and reports a retry as served.
StoreOnce(r, column, nonce) ==
    [row[r] EXCEPT ![column] = IF @ = 0 THEN nonce ELSE @]

\* Mutant: a retried offer is refused as a conflict with the stored one.
MayStoreOfferOnce(r, nonce) == r \in Kept /\ OfferVerifies(r, nonce) /\ row[r].offer = 0

MayStoreOffer(r, nonce) == r \in Kept /\ OfferVerifies(r, nonce)

StoreOffer(r, nonce) == Commit(Only(r, StoreOnce(r, "offer", nonce)))

MayStoreConfirmation(r, nonce) == r \in Kept /\ ConfirmationVerifies(nonce, row[r].offer)

StoreConfirmation(r, nonce) == Commit(Only(r, StoreOnce(r, "confirmation", nonce)))

MayStoreDecision(r, verdict, nonce) ==
    /\ r \in Kept /\ DecisionVerifies(verdict, nonce)
    /\ verdict = "manual" =>
         /\ row[r].confirmation # 0
         /\ ConfirmationVerifies(row[r].confirmation, row[r].offer)
         /\ TranscriptMatches(nonce, row[r].offer)

StoreDecision(r, verdict) ==
    IF row[r].decision # "none" THEN Commit(Unchanged)
    ELSE Commit(Only(r, [row[r] EXCEPT !.decision = verdict, !.decided = clock]))

\* The requests and confirmations publisher_inbox returns.
PublisherInbox == Undecided

\* The requests with an offer or a decision viewer_inbox returns.
ViewerInbox(v) ==
    {r \in Kept : ViewerOf[r] = v /\ (row[r].offer # 0 \/ row[r].decision # "none")}

-----------------------------------------------------------------------------
(* Relay: the pairing messages of publisher_loop and viewer_loop.  A refused *)
(* call rolls its transaction back and ends the connection.                  *)

ServePairOffer(r, nonce) == MayStoreOffer(r, nonce) /\ StoreOffer(r, nonce)

ServePairDecision(r, verdict, nonce) ==
    MayStoreDecision(r, verdict, nonce) /\ StoreDecision(r, verdict)

ServePairingInbox == Commit(Unchanged)

ServePairRequest(r) == MayEnqueue(r) /\ EnqueueRequest(r)

ServePairConfirmation(r, nonce) ==
    MayStoreConfirmation(r, nonce) /\ StoreConfirmation(r, nonce)

ServeInbox == Commit(Unchanged)

-----------------------------------------------------------------------------
(* Publisher: one session under .publisher-state.lock, native_admin.rs *)

LockFree == session = "idle"

ReadPrivate == disk

\* The file is staged, synchronized and renamed: a crash leaves old or new.
ReplacePrivate(state) == disk' = state

ValidState(state) == state.offerOutbox \subseteq state.pending

Save(state) == ValidState(state) /\ mem' = state /\ ReplacePrivate(state)

EndSession == session' = "idle" /\ mem' = disk

\* Mutant: a session refreshes before it has delivered what was queued.
LoadThenRefresh ==
    /\ LockFree
    /\ mem' = ReadPrivate
    /\ session' = "refresh"
    /\ UNCHANGED <<clock, issued, relayVars, disk, offers, viewerVars>>

\* A config or policy that cannot be loaded ends the round with the lock free
\* again and nothing read: no step.
Load ==
    /\ LockFree
    /\ mem' = ReadPrivate
    /\ session' = "flush first"
    /\ UNCHANGED <<clock, issued, relayVars, disk, offers, viewerVars>>

QueuedDecisions == {r \in Requests : mem.decisionOutbox[r] # "none"}

QueuedSignature(r) == NewDecision(mem.decisionOutbox[r], mem.offer[r])

FlushStages == {"flush first", "flush new", "flush decided"}

\* Both outboxes are empty: on to the stage after this flush.
FlushDone ==
    /\ session \in FlushStages
    /\ mem.offerOutbox = {} /\ QueuedDecisions = {}
    /\ session' = CASE session = "flush first" -> "refresh"
                    [] session = "flush new" -> "command"
                    [] OTHER -> "idle"
    /\ UNCHANGED <<clock, issued, relayVars, disk, mem, offers, viewerVars>>

\* The relay stores what it is sent; the item leaves the outbox only if the
\* answer arrives and is saved, otherwise the session is over.
Sent(answered, remaining) ==
    IF answered THEN Save(remaining) /\ UNCHANGED session
    ELSE EndSession /\ UNCHANGED disk

FlushOffer(answered) ==
    /\ session \in FlushStages
    /\ mem.offerOutbox # {}
    /\ LET r == Min(mem.offerOutbox) IN
         /\ ServePairOffer(r, mem.offer[r])
         /\ Sent(answered, [mem EXCEPT !.offerOutbox = @ \ {r}])
    /\ UNCHANGED <<clock, issued, offers, viewerVars>>

FlushDecision(answered) ==
    /\ session \in FlushStages
    /\ mem.offerOutbox = {} /\ QueuedDecisions # {}
    /\ LET r == Min(QueuedDecisions) IN
         /\ ServePairDecision(r, mem.decisionOutbox[r], QueuedSignature(r))
         /\ Sent(answered, [mem EXCEPT !.decisionOutbox[r] = "none"])
    /\ UNCHANGED <<clock, issued, offers, viewerVars>>

\* The relay refuses the item at the head: the session fails, the item stays.
Refuses ==
    IF mem.offerOutbox # {}
    THEN LET r == Min(mem.offerOutbox) IN ~MayStoreOffer(r, mem.offer[r])
    ELSE LET r == Min(QueuedDecisions) IN
           ~MayStoreDecision(r, mem.decisionOutbox[r], QueuedSignature(r))

FlushRefused ==
    /\ session \in FlushStages
    /\ mem.offerOutbox # {} \/ QueuedDecisions # {}
    /\ Refuses
    /\ EndSession
    /\ UNCHANGED <<clock, issued, relayVars, disk, offers, viewerVars>>

\* New requests refresh_requests acts on: of viewers not revoked, not pending.
Fresh == {r \in PublisherInbox : ViewerOf[r] \notin mem.revoked /\ r \notin mem.pending}

ByPolicy(policy) ==
    CASE policy = "open" -> Fresh
      [] policy = "trusted_ca" -> Fresh \cap Trusted
      [] policy = "required" -> {}

ByHand(policy) == IF policy = "required" THEN Fresh ELSE {}

AddApproved(state, S) == [state EXCEPT !.approved = @ \cup {ViewerOf[r] : r \in S}]

\* Another decision for the same request still queued fails the session.
MayQueue(S) == \A r \in S : mem.decisionOutbox[r] = "none"

QueueDecision(state, S, verdict) ==
    [state EXCEPT !.decisionOutbox = [r \in Requests |-> IF r \in S THEN verdict ELSE @[r]]]

\* A fresh offer for every request in S, queued behind the ones before it.
WithOffers(state, S) ==
    [state EXCEPT
       !.pending = @ \cup S,
       !.offer = [r \in Requests |-> IF r \in S THEN NewOffer(r) ELSE @[r]],
       !.offerOutbox = @ \cup S]

Refreshed(policy) ==
    WithOffers(QueueDecision(AddApproved(mem, ByPolicy(policy)), ByPolicy(policy), "policy"),
               ByHand(policy))

\* Pending requests whose confirmation is in the inbox.
Confirmed(state) ==
    {r \in PublisherInbox \cap state.pending : row[r].confirmation # 0}

\* Mutant: the refreshed state is sent before it is saved.
RefreshUnsaved(policy) ==
    LET state == Refreshed(policy) IN
    /\ session = "refresh"
    /\ MayQueue(ByPolicy(policy))
    /\ \A r \in ByHand(policy) : offers[r] < MaxOffers
    /\ ServePairingInbox
    /\ offers' = [r \in Requests |-> IF r \in ByHand(policy) THEN NewOffer(r) ELSE offers[r]]
    /\ mem' = [state EXCEPT !.confirmed = @ \cup Confirmed(state)]
    /\ session' = "flush new"
    /\ UNCHANGED <<clock, issued, disk, viewerVars>>

\* A confirmation of another offer than the pending one fails the session.
RefreshRequests(policy) ==
    LET state == Refreshed(policy) IN
    /\ session = "refresh"
    /\ MayQueue(ByPolicy(policy))
    /\ \A r \in ByHand(policy) : offers[r] < MaxOffers
    /\ \A r \in Confirmed(state) : ConfirmationVerifies(row[r].confirmation, state.offer[r])
    /\ ServePairingInbox
    /\ offers' = [r \in Requests |-> IF r \in ByHand(policy) THEN NewOffer(r) ELSE offers[r]]
    /\ Save([state EXCEPT !.confirmed = @ \cup Confirmed(state)])
    /\ session' = "flush new"
    /\ UNCHANGED <<clock, issued, viewerVars>>

\* decide for every request in S: the pending entry goes, the verdict is queued.
Decided(S, verdict) ==
    LET granted == IF verdict \in Approvals THEN AddApproved(mem, S) ELSE mem IN
    [QueueDecision(granted, S, verdict) EXCEPT
       !.pending = @ \ S, !.confirmed = @ \ S, !.offerOutbox = @ \ S]

\* The administrator names a pending request by an unambiguous prefix.
UniqueRequests(S) == S \subseteq mem.pending

MayDecide(S, verdict) ==
    /\ UniqueRequests(S) /\ MayQueue(S)
    /\ verdict \in Approvals =>
         \A r \in S : r \in mem.confirmed /\ ViewerOf[r] \notin mem.revoked

\* Mutant: the decision is sent before it is saved.
DecideUnsaved(S, verdict) ==
    /\ session = "command"
    /\ MayDecide(S, verdict)
    /\ mem' = Decided(S, verdict)
    /\ session' = "flush decided"
    /\ UNCHANGED <<clock, issued, disk, relayVars, offers, viewerVars>>

\* The administrator's command; the approval daemon and `requests` decide nothing.
Decide(S, verdict) ==
    /\ session = "command"
    /\ MayDecide(S, verdict)
    /\ Save(Decided(S, verdict))
    /\ session' = "flush decided"
    /\ UNCHANGED <<clock, issued, relayVars, offers, viewerVars>>

NoCommand == Decide({}, "reject")
Approve(r) == Decide({r}, "manual")
Deny(r) == Decide({r}, "reject")

\* One confirmed request of a revoked viewer fails the whole command unsaved.
ApproveAll == mem.confirmed # {} /\ Decide(mem.confirmed \cap mem.pending, "manual")

UniqueGrant(v) == v \in ReadPrivate.approved

\* Offline: it neither flushes nor refreshes.
Revoke(v) ==
    /\ LockFree
    /\ UniqueGrant(v)
    /\ Save([disk EXCEPT !.approved = @ \ {v}, !.revoked = @ \cup {v}])
    /\ UNCHANGED <<clock, issued, relayVars, session, offers, viewerVars>>

\* A lost connection, a failed command or a crash ends the session and frees
\* the lock; what it had not saved is gone.
Interrupt ==
    /\ session # "idle"
    /\ EndSession
    /\ UNCHANGED <<clock, issued, relayVars, disk, offers, viewerVars>>

-----------------------------------------------------------------------------
(* Viewer: command_worker and the functions it calls *)

BeginPairing(r) == NewRequest(r) /\ ServePairRequest(r)

\* pending-pairings.bin, loaded once and replaced after every change.
SavePairingState(pending) == waiting' = pending

\* viewer-process.lock: one gcview process at a time works on a viewer's files.
ProcessFree(v) == \A r \in polling : ViewerOf[r] # v

\* The viewer remembers a request only once the relay has answered.
Pair(r, answered) ==
    /\ ProcessFree(ViewerOf[r])
    /\ BeginPairing(r)
    /\ SavePairingState(IF answered THEN waiting \cup {r} ELSE waiting)
    /\ UNCHANGED <<clock, publisherVars, shown, polling, verified>>

\* There is one publisher, so the pinned identity never differs.
RememberVerifiedPublisher(v) == verified' = verified \cup {v}

\* `gcview --forget-publisher`.
ForgetVerifiedPublisher(v) ==
    /\ v \in verified
    /\ verified' = verified \ {v}
    /\ UNCHANGED <<clock, issued, relayVars, publisherVars, waiting, shown, polling>>

\* What may have been read of inbox messages S, in the order the relay sends them.
Prefixes(S) ==
    LET Earlier(q, r) == \/ row[q].received < row[r].received
                         \/ row[q].received = row[r].received /\ q < r
    IN {read \in SUBSET S : \A r \in read, q \in S : Earlier(q, r) => q \in read}

\* The inbox has all offers before all decisions, and each message is acted on
\* as it is read: an offer is stored, a decision pins the publisher and only
\* then drops the request, in two files.  A stale offer of a request still
\* pending here ends the refresh; so may a lost connection or a crash, after
\* any message or between the two writes.
RefreshPairing(v) ==
    LET mine == ViewerInbox(v) \cap waiting
        offered == {r \in mine : row[r].offer # 0}
        decided == {r \in mine : row[r].decision # "none"}
    IN
    /\ ProcessFree(v)
    /\ ServeInbox
    /\ \E read \in Prefixes(offered), pinned \in Prefixes(decided) :
       \E dropped \in Prefixes(pinned) :
         /\ \A r \in read : OfferVerifies(r, row[r].offer)
         /\ pinned # {} => read = offered
         /\ Cardinality(pinned \ dropped) <= 1
         /\ shown' = [r \in Requests |-> IF r \in dropped THEN 0
                                         ELSE IF r \in read THEN row[r].offer
                                         ELSE shown[r]]
         /\ IF \E r \in pinned : row[r].decision \in Approvals
            THEN RememberVerifiedPublisher(v) ELSE UNCHANGED verified
         /\ SavePairingState(waiting \ dropped)
    /\ UNCHANGED <<clock, issued, publisherVars, polling>>

\* The prompt is answered for a request still pending with its offer.
Prompted(r) == r \in waiting /\ shown[r] # 0 /\ ProcessFree(ViewerOf[r])

\* The viewer's human compared the strings and said yes.
ConfirmPairing(r) ==
    /\ Prompted(r)
    /\ ServePairConfirmation(r, shown[r])
    /\ UNCHANGED <<clock, issued, publisherVars, viewerVars>>

RejectPairing(r) ==
    /\ Prompted(r)
    /\ SavePairingState(waiting \ {r})
    /\ shown' = [shown EXCEPT ![r] = 0]
    /\ UNCHANGED <<clock, issued, relayVars, publisherVars, polling, verified>>

\* headless_verify_stream: a request kept in memory only, whose inbox is read
\* until the decision is there or 15 seconds are over.
HeadlessPair(r) ==
    /\ ProcessFree(ViewerOf[r])
    /\ BeginPairing(r)
    /\ polling' = polling \cup {r}
    /\ UNCHANGED <<clock, publisherVars, waiting, shown, verified>>

HeadlessDecided(r) ==
    /\ r \in polling \cap Kept /\ row[r].decision # "none"
    /\ ServeInbox
    /\ IF row[r].decision \in Approvals THEN RememberVerifiedPublisher(ViewerOf[r])
       ELSE UNCHANGED verified
    /\ polling' = polling \ {r}
    /\ UNCHANGED <<clock, issued, publisherVars, waiting, shown>>

HeadlessTimeout(r) ==
    /\ r \in polling
    /\ polling' = polling \ {r}
    /\ UNCHANGED <<clock, issued, relayVars, publisherVars, waiting, shown, verified>>

-----------------------------------------------------------------------------
Next ==
    \/ Tick
    \/ Load \/ FlushDone \/ FlushRefused \/ Interrupt
    \/ \E answered \in BOOLEAN : FlushOffer(answered) \/ FlushDecision(answered)
    \/ \E policy \in Policies : RefreshRequests(policy)
    \/ NoCommand \/ ApproveAll
    \/ \E r \in Requests : Approve(r) \/ Deny(r) \/ ConfirmPairing(r) \/ RejectPairing(r)
    \/ \E r \in Requests : HeadlessPair(r) \/ HeadlessDecided(r) \/ HeadlessTimeout(r)
    \/ \E r \in Requests, answered \in BOOLEAN : Pair(r, answered)
    \/ \E v \in Viewers : Revoke(v) \/ RefreshPairing(v) \/ ForgetVerifiedPublisher(v)

Spec == Init /\ [][Next]_vars

(* run_approval_refresh starts a round every second, and the config loads in *)
(* some of them, so sessions recur; a session that is not cut off runs on,   *)
(* and the network does not lose every answer for ever.                      *)
Fairness ==
    /\ WF_vars(Load) /\ WF_vars(FlushDone) /\ WF_vars(FlushRefused)
    /\ SF_vars(FlushOffer(TRUE)) /\ SF_vars(FlushDecision(TRUE))

FairSpec == Spec /\ Fairness

-----------------------------------------------------------------------------
TypeOK ==
    /\ clock \in 0..MaxTime
    /\ issued \in [Requests -> -1..MaxTime]
    /\ row \in [Requests -> Row]
    /\ disk \in PublisherState /\ mem \in PublisherState
    /\ session \in FlushStages \cup {"idle", "refresh", "command"}
    /\ offers \in [Requests -> Offers]
    /\ waiting \subseteq Requests
    /\ shown \in [Requests -> Offers]
    /\ polling \subseteq Requests /\ verified \subseteq Viewers

(* An approval never outruns its grant: whenever the relay holds an approval *)
(* or the viewer has already acted on one, the publisher's file has the      *)
(* grant, or its later revocation, whatever crash follows.                   *)
ApprovalBacked ==
    LET granted == disk.approved \cup disk.revoked IN
    /\ verified \subseteq granted
    /\ \A r \in Requests : row[r].decision \in Approvals => ViewerOf[r] \in granted

(* The two humans compare strings of one transcript: whatever offer the      *)
(* relay or the viewer holds for a request still pending at the publisher is *)
(* the one in the publisher's file, and so is the one the viewer confirmed.  *)
CeremonyAgrees ==
    \A r \in disk.pending :
        /\ {row[r].offer, row[r].confirmation, shown[r]} \subseteq {0, disk.offer[r]}
        /\ r \in disk.confirmed /\ r \in Undecided => row[r].confirmation = disk.offer[r]

(* A request is decided once: the relay never holds a verdict for a request  *)
(* the publisher still shows as pending, nor one that a queued decision of   *)
(* the publisher contradicts.                                                *)
DecidedOnce ==
    \A r \in Requests :
        row[r].live /\ row[r].decision # "none" =>
            /\ r \notin disk.pending
            /\ disk.decisionOutbox[r] \in {"none", row[r].decision}

Queued == disk.offerOutbox \cup {r \in Requests : disk.decisionOutbox[r] # "none"}

(* Durable retry works while the relay keeps the requests: what is queued is *)
(* delivered, however often sessions are cut off, unless the relay has       *)
(* purged a request something is queued for.  In that case it refuses the    *)
(* item in every round, and all items and rounds behind it with it.          *)
DeliveredWhileKept == Queued # {} ~> (Queued = {} \/ ~(Queued \subseteq Kept))

=============================================================================
