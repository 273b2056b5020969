---------------------------- MODULE RelayService ----------------------------
(***************************************************************************)
(* The relay's publisher sessions and viewer subscriptions around one      *)
(* NativeStore (crates/relay/src/native_service.rs).                       *)
(*                                                                         *)
(* Every connection is a task.  A task gives up the processor at each      *)
(* await, and a store call runs on a worker thread, so between two store   *)
(* calls of one task any other task may run: an action is what a task does *)
(* from one such point to the next.  Socket writes are part of the step    *)
(* that precedes them; a write or read that fails, an idle timeout, an     *)
(* expired credential or a refused message ends the connection (Fail,      *)
(* Disconnect).                                                            *)
(*                                                                         *)
(* A publisher session is used once: a publisher that reconnects is a new  *)
(* session.  A viewer identity opens one subscription.                     *)
(***************************************************************************)
EXTENDS NativeStore, Sequences

CONSTANTS
    Sessions,        \* publisher connections
    StartRequests,   \* the SubscriptionStart values viewers ask for
    Capacity,        \* slots of a live channel (live_channel_capacity)
    Page             \* SUBSCRIPTION_PAGE

\* NativeServiceLimits has a non-zero channel capacity; a page is non-empty;
\* a stream is told from no stream.
ASSUME ServiceAssumption ==
    /\ None \notin Streams
    /\ Capacity \in Nat \ {0}
    /\ Page \in Nat \ {0}
    /\ StartRequests \subseteq [at : {"Live", "OldestRetained"}, value : {0}]
                               \cup [at : {"Sequence", "Timestamp"}, value : Nat]

VARIABLES
    online,     \* online_streams
    conn,       \* conn[c]: where session c is
    identity,   \* identity[c]: the publisher that session c admitted
    touched,    \* touched[c]: the session's touched_streams
    finalized,  \* finalized[c]: the touched streams already finalized
    pending,    \* pending[c]: the stream or live item session c is working on
    cursor,     \* cursor[c][s]: the next sequence the publisher will send
    sub,        \* sub[v]: the subscription of viewer v
    queue,      \* queue[v]: what its receiver has not taken yet
    lagged      \* lagged[v]: the channel overwrote an item of this receiver

sessionVars == <<online, conn, identity, touched, finalized, pending, cursor>>
viewerVars == <<sub, queue, lagged>>
vars == <<storeVars, sessionVars, viewerVars>>

-----------------------------------------------------------------------------
(* Types *)

LiveItem == [stream : Streams, kind : {"Object"}, item : Object]
              \cup [stream : Streams, kind : {"Envelope"}, item : Envelope]

ResumeItem == [stream : Streams, kind : {"Resume"}, item : {None}]

Ended == {"closed", "gap", "unavailable"}

Subscription ==
    [phase : {"off", "subscribed", "anchored", "keying", "replay", "sending",
              "live"}
                \cup Ended,
     stream : Streams \cup {None}, start : StartRequests \cup {None},
     first : 0..MaxSequence + 1,        \* the anchor
     last : 0..MaxSequence,             \* last_sequence
     before : (0..MaxSequence) \cup {None}, \* "before" of a re-anchor
     page : SUBSET Object,              \* what is left of the page being sent
     full : BOOLEAN,                    \* the page had Page objects
     sealed : GroupIds \cup {None},     \* delivered_group
     keys : SUBSET GroupIds,            \* groups whose envelope was sent
     lapsed : BOOLEAN]                  \* the receiver has lagged before

ServiceTypeOK ==
    /\ TypeOK
    /\ online \subseteq Streams
    /\ conn \in [Sessions -> {"new", "serving", "validated", "claimed",
                              "stored", "closing", "closed"}]
    /\ identity \in [Sessions -> Publishers \cup {None}]
    /\ touched \in [Sessions -> SUBSET Streams]
    /\ finalized \in [Sessions -> SUBSET Streams]
    /\ pending \in [Sessions -> LiveItem \cup ResumeItem \cup {None}]
    /\ cursor \in [Sessions -> [Streams -> (1..MaxSequence + 1) \cup {None}]]
    /\ sub \in [Recipients -> Subscription]
    /\ queue \in [Recipients -> Seq(LiveItem)]
    /\ \A v \in Recipients : Len(queue[v]) <= Capacity
    /\ lagged \in [Recipients -> BOOLEAN]

\* A viewer that has not subscribed.
Unsubscribed ==
    [phase |-> "off", stream |-> None, start |-> None, first |-> 0, last |-> 0,
     before |-> None, page |-> {}, full |-> FALSE, sealed |-> None,
     keys |-> {}, lapsed |-> FALSE]

ServiceInit ==
    /\ Init
    /\ online = {}
    /\ conn = [c \in Sessions |-> "new"]
    /\ identity = [c \in Sessions |-> None]
    /\ touched = [c \in Sessions |-> {}]
    /\ finalized = [c \in Sessions |-> {}]
    /\ pending = [c \in Sessions |-> None]
    /\ cursor = [c \in Sessions |-> [s \in Streams |-> None]]
    /\ sub = [v \in Recipients |-> Unsubscribed]
    /\ queue = [v \in Recipients |-> <<>>]
    /\ lagged = [v \in Recipients |-> FALSE]

-----------------------------------------------------------------------------
(* Publisher sessions *)

\* Handshake, hello and admission (handle_publisher up to Welcome).
Admit(c, p) ==
    /\ conn[c] = "new"
    /\ conn' = [conn EXCEPT ![c] = "serving"]
    /\ identity' = [identity EXCEPT ![c] = p]
    /\ UNCHANGED <<storeVars, online, touched, finalized, pending, cursor,
                   viewerVars>>

\* Mutant: an online stream is claimed again.
CanAlwaysClaim(c, s) == TRUE

\* claim_online: a stream has one session at a time, and a session claims a
\* stream once.
CanClaim(c, s) == s \in touched[c] \/ s \notin online

Claim(c, s) ==
    /\ CanClaim(c, s)
    /\ online' = online \cup {s}
    /\ touched' = [touched EXCEPT ![c] = @ \cup {s}]

\* Resume, first await: validate_resume_stream reads the descriptor.
ResumeValidate(c, s) ==
    /\ conn[c] = "serving"
    /\ descriptor[s] # None => descriptor[s].publisher = identity[c]
    /\ conn' = [conn EXCEPT ![c] = "validated"]
    /\ pending' = [pending EXCEPT ![c] =
                        [stream |-> s, kind |-> "Resume", item |-> None]]
    /\ UNCHANGED <<storeVars, online, identity, touched, finalized, cursor,
                   viewerVars>>

\* Resume: the stream is claimed before its high-water mark is read.
ResumeClaim(c) ==
    /\ conn[c] = "validated"
    /\ Claim(c, pending[c].stream)
    /\ conn' = [conn EXCEPT ![c] = "claimed"]
    /\ UNCHANGED <<storeVars, identity, finalized, pending, cursor, viewerVars>>

\* Resume, second await: the mark is read and reported in ResumeState; the
\* publisher continues after it.
ResumeRead(c) ==
    /\ conn[c] = "claimed"
    /\ conn' = [conn EXCEPT ![c] = "serving"]
    /\ pending' = [pending EXCEPT ![c] = None]
    /\ LET s == pending[c].stream
       IN  cursor' = [cursor EXCEPT ![c][s] = high_water[s] + 1]
    /\ UNCHANGED <<storeVars, online, identity, touched, finalized, viewerVars>>

\* The claim a Descriptor or an Object makes before its store call.
ClaimForPublish(c, s) ==
    /\ conn[c] = "serving"
    /\ s \notin touched[c]
    /\ Claim(c, s)
    /\ UNCHANGED <<storeVars, conn, identity, finalized, pending, cursor,
                   viewerVars>>

PublishDescriptor(c, s, d) ==
    /\ conn[c] = "serving"
    /\ s \in touched[c]
    /\ d.publisher = identity[c]
    /\ PutDescriptor(s, d)
    /\ UNCHANGED <<sessionVars, viewerVars>>

\* The store call of an Object.  A retry changes nothing: it is acknowledged
\* and not broadcast.
PublishObject(c, s, o, now) ==
    /\ conn[c] = "serving"
    /\ s \in touched[c]
    /\ o.publisher = identity[c]
    /\ StoreObject(s, o, now)
    /\ conn' = [conn EXCEPT ![c] = "stored"]
    /\ pending' = [pending EXCEPT ![c] =
                        [stream |-> s, kind |-> "Object", item |-> o]]
    /\ UNCHANGED <<online, identity, touched, finalized, cursor,
                   viewerVars>>

\* The store call of a KeyEnvelope, which claims no stream.
PublishEnvelope(c, s, e, now) ==
    /\ conn[c] = "serving"
    /\ e.publisher = identity[c]
    /\ StoreEnvelope(s, e, now)
    /\ conn' = [conn EXCEPT ![c] = "stored"]
    /\ pending' = [pending EXCEPT ![c] =
                        [stream |-> s, kind |-> "Envelope", item |-> e]]
    /\ UNCHANGED <<online, identity, touched, finalized, cursor,
                   viewerVars>>

\* Mutant: the receiver is created after the replay.
ReceivesWhenLive(v, s) == sub[v].phase = "live" /\ sub[v].stream = s

\* tokio's broadcast channel: viewer v holds a receiver on stream s.
Receives(v, s) == sub[v].phase \notin {"off"} \cup Ended /\ sub[v].stream = s

\* Mutant: the channel is unbounded.
PushUnbounded(q, x) == Append(q, x)

\* A send into a receiver's full buffer overwrites its oldest item.
Push(q, x) == Append(IF Len(q) = Capacity THEN Tail(q) ELSE q, x)

\* After the store call: the item is sent to every receiver of the stream and
\* an object is acknowledged.  Nothing between the commit and the send can
\* fail, short of the process stopping.
Broadcast(c) ==
    LET item == pending[c]
        To(v) == Receives(v, item.stream)
    IN  /\ conn[c] = "stored"
        /\ queue' = [v \in Recipients |->
                        IF To(v) THEN Push(queue[v], item) ELSE queue[v]]
        /\ lagged' = [v \in Recipients |->
                        lagged[v] \/ (To(v) /\ Len(queue[v]) = Capacity)]
        /\ conn' = [conn EXCEPT ![c] = "serving"]
        /\ pending' = [pending EXCEPT ![c] = None]
        /\ cursor' = IF item.kind = "Object"
                     THEN [cursor EXCEPT ![c][item.stream] = item.item.sequence + 1]
                     ELSE cursor
        /\ UNCHANGED <<storeVars, online, identity, touched, finalized, sub>>

\* Mutant: the streams leave online_streams before they are finalized.
FailOffline(c) ==
    /\ conn[c] \in {"serving", "validated", "claimed"}
    /\ conn' = [conn EXCEPT ![c] = "closing"]
    /\ pending' = [pending EXCEPT ![c] = None]
    /\ online' = online \ touched[c]
    /\ UNCHANGED <<storeVars, identity, touched, finalized, cursor, viewerVars>>

\* publisher_loop returns: the peer is gone or silent for the idle timeout,
\* its credential is no longer valid, or a message was refused.
Fail(c) ==
    /\ conn[c] \in {"serving", "validated", "claimed"}
    /\ conn' = [conn EXCEPT ![c] = "closing"]
    /\ pending' = [pending EXCEPT ![c] = None]
    /\ UNCHANGED <<storeVars, online, identity, touched, finalized, cursor,
                   viewerVars>>

\* Mutant: a stream with no active group is an error that is not passed over.
FinalizeOrStall(c, s) ==
    /\ conn[c] = "closing"
    /\ s \in touched[c] \ finalized[c]
    /\ FinalizeStream(s)
    /\ finalized' = [finalized EXCEPT ![c] = @ \cup {s}]
    /\ UNCHANGED <<online, conn, identity, touched, pending, cursor, viewerVars>>

\* handle_publisher after the loop: each touched stream is finalized by a
\* store call of its own.  With no active group the call changes nothing, and
\* a store error is logged and passed over.
Finalize(c, s) ==
    /\ conn[c] = "closing"
    /\ s \in touched[c] \ finalized[c]
    /\ FinalizeStream(s) \/ UNCHANGED storeVars
    /\ finalized' = [finalized EXCEPT ![c] = @ \cup {s}]
    /\ UNCHANGED <<online, conn, identity, touched, pending, cursor, viewerVars>>

\* Mutant: the session ends without giving its streams back.
RetireOnline(c) ==
    /\ conn[c] = "closing"
    /\ touched[c] = finalized[c]
    /\ conn' = [conn EXCEPT ![c] = "closed"]
    /\ touched' = [touched EXCEPT ![c] = {}]
    /\ finalized' = [finalized EXCEPT ![c] = {}]
    /\ cursor' = [cursor EXCEPT ![c] = [s \in Streams |-> None]]
    /\ UNCHANGED <<storeVars, online, identity, pending, viewerVars>>

\* Only then do the streams leave online_streams, all under one write lock.
Retire(c) ==
    /\ conn[c] = "closing"
    /\ touched[c] = finalized[c]
    /\ conn' = [conn EXCEPT ![c] = "closed"]
    /\ online' = online \ touched[c]
    /\ touched' = [touched EXCEPT ![c] = {}]
    /\ finalized' = [finalized EXCEPT ![c] = {}]
    /\ cursor' = [cursor EXCEPT ![c] = [s \in Streams |-> None]]
    /\ UNCHANGED <<storeVars, identity, pending, viewerVars>>

-----------------------------------------------------------------------------
(* Viewer subscriptions *)

\* Store reads of the subscription task.
Anchor(s, start) ==
    CASE start.at = "Live"           -> LiveAnchor(s)
      [] start.at = "OldestRetained" -> OldestRetainedAnchor(s)
      [] start.at = "Sequence"       -> SequenceAnchor(s, start.value)
      [] start.at = "Timestamp"      -> TimestampAnchor(s, start.value)

\* Mutant: the page starts one object too late.
ListObjectsLate(s, after) ==
    LET later == {o \in objects[s] : o.sequence > after + 1}
    IN  {o \in later : Cardinality({p \in later : p.sequence < o.sequence}) < Page}

\* list_objects(s, after, Page): the first Page retained objects past "after".
ListObjects(s, after) ==
    LET later == {o \in objects[s] : o.sequence > after}
    IN  {o \in later : Cardinality({p \in later : p.sequence < o.sequence}) < Page}

\* get_envelope: the group, as a set, when viewer v has an envelope for it.
EnvelopeFor(v, s, group) ==
    {e.group : e \in {x \in envelopes[s] : x.group = group /\ x.recipient = v}}

\* The subscription of viewer v becomes r; its receiver is untouched.
Becomes(v, r) ==
    /\ sub' = [sub EXCEPT ![v] = r]
    /\ UNCHANGED <<storeVars, sessionVars>>

\* The subscription task ends and its receiver is dropped.
Ends(v, why) ==
    /\ Becomes(v, [sub[v] EXCEPT !.phase = why, !.page = {}, !.full = FALSE,
                                 !.sealed = None])
    /\ queue' = [queue EXCEPT ![v] = <<>>]
    /\ lagged' = [lagged EXCEPT ![v] = FALSE]

\* subscription: the stream exists, and the receiver is created before
\* anything is read from the store.
Subscribe(v, s, start) ==
    /\ sub[v].phase = "off"
    /\ descriptor[s] # None
    /\ Becomes(v, [sub[v] EXCEPT !.phase = "subscribed", !.stream = s,
                                 !.start = start])
    /\ UNCHANGED <<queue, lagged>>

ReadAnchor(v) ==
    LET anchor == Anchor(sub[v].stream, sub[v].start)
    IN  /\ sub[v].phase = "subscribed"
        /\ Becomes(v, [sub[v] EXCEPT !.phase = "anchored", !.first = anchor,
                                     !.last = anchor - 1])
        /\ UNCHANGED <<queue, lagged>>

\* The mark is read by a later call than the anchor: SubscriptionStarted, and
\* for a start past the mark the key of the group the mark lies in.
ReadHighWater(v) ==
    LET mark == high_water[sub[v].stream]
    IN  /\ sub[v].phase = "anchored"
        /\ \/ /\ sub[v].first > mark /\ mark > 0
              /\ \E o \in objects[sub[v].stream] :
                    /\ o.sequence = mark
                    /\ Becomes(v, [sub[v] EXCEPT !.phase = "keying",
                                                 !.sealed = o.group])
           \/ /\ ~ (sub[v].first > mark /\ Stored(sub[v].stream, mark))
              /\ Becomes(v, [sub[v] EXCEPT !.phase = "replay"])
        /\ UNCHANGED <<queue, lagged>>

SendStartEnvelope(v) ==
    /\ sub[v].phase = "keying"
    /\ Becomes(v, [sub[v] EXCEPT
                    !.phase = "replay", !.sealed = None,
                    !.keys = @ \cup EnvelopeFor(v, sub[v].stream, sub[v].sealed)])
    /\ UNCHANGED <<queue, lagged>>

\* reanchor_from_store: the next page is read.
ReadPage(v) ==
    LET page == ListObjects(sub[v].stream, sub[v].last)
    IN  /\ sub[v].phase = "replay"
        /\ page # {}
        /\ Becomes(v, [sub[v] EXCEPT !.phase = "sending", !.page = page,
                                     !.full = Cardinality(page) = Page])
        /\ UNCHANGED <<queue, lagged>>

\* Nothing is left to replay: the task turns to its receiver.
EndReplay(v) ==
    /\ sub[v].phase = "replay"
    /\ ListObjects(sub[v].stream, sub[v].last) = {}
    /\ sub[v].last # sub[v].before
    /\ Becomes(v, [sub[v] EXCEPT !.phase = "live", !.before = None])
    /\ UNCHANGED <<queue, lagged>>

\* A re-anchor that found nothing: HistoryUnavailable.
EndUnavailable(v) ==
    /\ sub[v].phase = "replay"
    /\ ListObjects(sub[v].stream, sub[v].last) = {}
    /\ sub[v].last = sub[v].before
    /\ Ends(v, "unavailable")

\* The next object of the page.
NextOfPage(v) == CHOOSE o \in sub[v].page :
                    \A p \in sub[v].page : o.sequence <= p.sequence

\* Mutant: the replay is one page long.
AfterOnePage(full) == "live"

\* A page that was not full ends the replay.
AfterPage(full) == IF full THEN "replay" ELSE "live"

\* It is sent, after the viewer's envelope for its group when the page has not
\* sent that group yet.
SendReplayed(v) ==
    LET o == NextOfPage(v)
        rest == sub[v].page \ {o}
        phase == IF rest # {} THEN "sending" ELSE AfterPage(sub[v].full)
        key == IF sub[v].sealed = o.group THEN {}
               ELSE EnvelopeFor(v, sub[v].stream, o.group)
    IN  /\ sub[v].phase = "sending"
        /\ o.sequence = sub[v].last + 1
        /\ Becomes(v, [sub[v] EXCEPT
                        !.phase = phase, !.last = o.sequence, !.page = rest,
                        !.full = @ /\ rest # {},
                        !.before = IF phase = "live" THEN None ELSE @,
                        !.sealed = IF rest = {} THEN None ELSE o.group,
                        !.keys = @ \cup key])
        /\ UNCHANGED <<queue, lagged>>

\* The page does not continue the subscription: its tail was evicted.
EndGap(v) ==
    /\ sub[v].phase = "sending"
    /\ NextOfPage(v).sequence # sub[v].last + 1
    /\ Ends(v, "gap")

\* The live loop takes the oldest item of its receiver.
Take(v) ==
    /\ sub[v].phase = "live"
    /\ ~ lagged[v]
    /\ queue[v] # <<>>
    /\ queue' = [queue EXCEPT ![v] = Tail(@)]
    /\ UNCHANGED lagged

RecvEnvelope(v) ==
    LET x == Head(queue[v])
    IN  /\ Take(v)
        /\ x.kind = "Envelope"
        /\ Becomes(v, [sub[v] EXCEPT
                        !.keys = @ \cup {e.group : e \in {y \in {x.item} :
                                                    y.recipient = v}}])

\* Mutant: an object past the next one is sent as well.
RecvAnyObject(v) ==
    LET x == Head(queue[v])
    IN  /\ Take(v)
        /\ x.kind = "Object"
        /\ Becomes(v, [sub[v] EXCEPT !.last = Max({@, x.item.sequence})])

\* An object that was replayed already is skipped, the next one is sent.
RecvObject(v) ==
    LET x == Head(queue[v])
    IN  /\ Take(v)
        /\ x.kind = "Object"
        /\ x.item.sequence <= sub[v].last + 1
        /\ Becomes(v, [sub[v] EXCEPT !.last = Max({@, x.item.sequence})])

\* Lagged, or an object past the next one: the task replays from the store.
Reanchor(v) ==
    LET Ahead == /\ queue[v] # <<>>
                 /\ Head(queue[v]).kind = "Object"
                 /\ Head(queue[v]).item.sequence > sub[v].last + 1
    IN  /\ sub[v].phase = "live"
        /\ lagged[v] \/ Ahead
        /\ Becomes(v, [sub[v] EXCEPT !.phase = "replay", !.before = sub[v].last,
                                     !.lapsed = @ \/ lagged[v]])
        /\ queue' = [queue EXCEPT ![v] = IF lagged[v] THEN @ ELSE Tail(@)]
        /\ lagged' = [lagged EXCEPT ![v] = FALSE]

\* The viewer leaves, stalls or loses its credential.
Disconnect(v) ==
    /\ sub[v].phase \notin {"off"} \cup Ended
    /\ Ends(v, "closed")

-----------------------------------------------------------------------------
(* The relay process *)

\* run_retention: once a second.
Retention(now) == EnforceRetentionAt(now) /\ UNCHANGED <<sessionVars, viewerVars>>

\* The process stops and starts again: every connection, claim and channel is
\* gone, the store is as the last transaction left it.
Restart ==
    /\ conn' = [c \in Sessions |-> IF conn[c] = "new" THEN "new" ELSE "closed"]
    /\ online' = {}
    /\ touched' = [c \in Sessions |-> {}]
    /\ finalized' = [c \in Sessions |-> {}]
    /\ pending' = [c \in Sessions |-> None]
    /\ cursor' = [c \in Sessions |-> [s \in Streams |-> None]]
    /\ sub' = [v \in Recipients |->
                IF sub[v].phase \in {"off"} \cup Ended THEN sub[v]
                ELSE [sub[v] EXCEPT !.phase = "closed", !.page = {},
                                    !.full = FALSE, !.sealed = None]]
    /\ queue' = [v \in Recipients |-> <<>>]
    /\ lagged' = [v \in Recipients |-> FALSE]
    /\ UNCHANGED <<storeVars, identity>>

\* The steps a session or a subscription owes once it can take them.
SessionStep(c) ==
    \/ ResumeClaim(c) \/ ResumeRead(c) \/ Broadcast(c)
    \/ \E s \in Streams : Finalize(c, s)
    \/ Retire(c)

ViewerStep(v) ==
    \/ ReadAnchor(v) \/ ReadHighWater(v) \/ SendStartEnvelope(v)
    \/ ReadPage(v) \/ SendReplayed(v)
    \/ EndReplay(v) \/ EndUnavailable(v) \/ EndGap(v)
    \/ RecvEnvelope(v) \/ RecvObject(v) \/ Reanchor(v)

SessionRequest(c) ==
    \/ \E p \in Publishers : Admit(c, p)
    \/ \E s \in Streams : ResumeValidate(c, s) \/ ClaimForPublish(c, s)
    \/ \E s \in Streams, d \in Descriptors : PublishDescriptor(c, s, d)
    \/ \E s \in Streams, o \in Object, now \in Times : PublishObject(c, s, o, now)
    \/ \E s \in Streams, e \in Envelope, now \in Times : PublishEnvelope(c, s, e, now)
    \/ Fail(c)

ServiceNext ==
    \/ \E c \in Sessions : SessionRequest(c) \/ SessionStep(c)
    \/ \E v \in Recipients : ViewerStep(v) \/ Disconnect(v)
    \/ \E v \in Recipients, s \in Streams, start \in StartRequests :
            Subscribe(v, s, start)
    \/ \E now \in Times : Retention(now)
    \/ Restart

ServiceSpec == ServiceInit /\ [][ServiceNext]_vars

\* tokio polls a task that is ready; a viewer that stops reading for good is
\* a Disconnect.
ServiceFairness ==
    /\ \A c \in Sessions : WF_vars(SessionStep(c))
    /\ \A v \in Recipients : WF_vars(ViewerStep(v))

FairServiceSpec == ServiceSpec /\ ServiceFairness

-----------------------------------------------------------------------------
(* Properties *)

\* A stream has one publisher session at a time, and it is online exactly
\* while a session holds it: from the claim until the session has finalized
\* every stream it touched, whatever step it failed at.
OnlineIsHeld ==
    /\ online = UNION {touched[c] : c \in Sessions}
    /\ \A c, d \in Sessions : c # d => touched[c] \cap touched[d] = {}

\* The position a publisher was told at Resume stays exact until it publishes
\* itself: no other session moves the mark between the read, the reply and
\* the publisher's first object.
CursorExact ==
    \A c \in Sessions, s \in Streams :
        cursor[c][s] # None =>
            high_water[s] + 1 =
                IF conn[c] = "stored" /\ pending[c].stream = s
                                      /\ pending[c].kind = "Object"
                THEN cursor[c][s] + 1 ELSE cursor[c][s]

\* Ending a session never completes the group another session is writing: a
\* group is closed outside store_object only while the session that holds
\* the stream, if any, is closing.
FinalizesOwnGroup ==
    [][\A s \in Streams : active[s] # None /\ active'[s] = None =>
            \A c \in Sessions : s \in touched[c] => conn[c] = "closing"]_vars

\* The objects waiting in viewer v's receiver, as sequences.
Queued(v) == {queue[v][i].item.sequence :
                i \in {j \in DOMAIN queue[v] : queue[v][j].kind = "Object"}}

InFlight(s) == {pending[c].item.sequence :
                  c \in {d \in Sessions : /\ conn[d] = "stored"
                                          /\ pending[d].stream = s
                                          /\ pending[d].kind = "Object"}}

\* "The relay catches up from durable storage and then changes gaplessly to a
\* broadcast tail" (docs/architecture.md:160): for a subscription in its live
\* loop, every retained object it has not sent is in its receiver or about to
\* be broadcast, or its receiver is marked as lagged; and the receiver holds
\* them in order.  (Retention may empty the stream between the anchor and the
\* first page; the next live object then reveals the gap.)
TailGapless ==
    \A v \in Recipients :
        LET s == sub[v].stream
        IN  /\ sub[v].phase = "live" /\ ~ lagged[v] =>
                    {o.sequence : o \in {x \in objects[s] : x.sequence > sub[v].last}}
                        \subseteq Queued(v) \cup InFlight(s)
            /\ \A i, j \in DOMAIN queue[v] :
                    /\ i < j
                    /\ queue[v][i].kind = "Object" /\ queue[v][j].kind = "Object"
                    => queue[v][i].item.sequence < queue[v][j].item.sequence

\* A viewer is not left without a key it was granted: for every retained
\* envelope of a group it has been sent objects of, the envelope was sent, is
\* in its receiver or is about to be broadcast, unless its receiver has lagged.
KeysNotMissed ==
    \A v \in Recipients :
        sub[v].phase = "live" /\ ~ lagged[v] /\ ~ sub[v].lapsed =>
            \A e \in {x \in envelopes[sub[v].stream] : x.recipient = v} :
                \/ \A o \in objects[sub[v].stream] : o.group = e.group =>
                        o.sequence \notin sub[v].first .. sub[v].last
                \/ e.group \in sub[v].keys
                \/ \E i \in DOMAIN queue[v] : queue[v][i].item = e
                \/ \E c \in Sessions : conn[c] = "stored" /\ pending[c].item = e

\* The subscription's next object exists no more.
NextIsGone(v) ==
    LET s == sub[v].stream
    IN  sub[v].last + 1 <= high_water[s] /\ ~ Stored(s, sub[v].last + 1)

\* A subscription ends with "retained native stream contains a sequence gap"
\* only when retention really took its next object.
GapIsHonest == \A v \in Recipients : sub[v].phase = "gap" => NextIsGone(v)

\* A subscription ends with HistoryUnavailable, "live subscription gap is no
\* longer retained" (native_service.rs:843), only when that is so.
UnavailableIsHonest ==
    \A v \in Recipients : sub[v].phase = "unavailable" => NextIsGone(v)

\* The relay implements LiveFeed: whatever replay, live tail and re-anchoring
\* do, each viewer is sent a run of durable objects without a gap or a repeat
\* from its anchor on, and the mark survives a restart.
Opened(v) == sub[v].first # 0

Feed == INSTANCE LiveFeed WITH
            Viewers <- Recipients,
            mark <- high_water,
            feed <- [v \in Recipients |-> IF Opened(v) THEN sub[v].stream ELSE None],
            due <- [v \in Recipients |-> IF Opened(v) THEN sub[v].last + 1 ELSE 0],
            done <- [v \in Recipients |-> sub[v].phase \in Ended]

\* Every behaviour of the service is one of LiveFeed (subscription,
\* reanchor_from_store and the publish path of publisher_loop).
ImplementsLiveFeed == Feed!Spec

\* A subscription is never stuck behind the stream: again and again it has
\* sent everything that is retained past it, or it has ended.
CatchesUp ==
    \A v \in Recipients :
        []<>(\/ sub[v].phase \in {"off"} \cup Ended
             \/ ListObjects(sub[v].stream, sub[v].last) = {})

\* A session that ends gives its streams back, so its publisher can reconnect.
SessionsRelease ==
    \A c \in Sessions, s \in Streams :
        conn[c] = "closing" /\ s \in touched[c] ~> s \notin touched[c]
=============================================================================
