---------------------------- MODULE ViewerSession ----------------------------
(***************************************************************************)
(* One viewer playing one stream through the relay: the subscription task  *)
(* and the key cache of crates/viewer/src/lib.rs, the relay's side of the  *)
(* connection (handle_viewer_from, viewer_loop and subscription in         *)
(* crates/relay/src/native_service.rs) and the access policy that may end  *)
(* it (Access).                                                            *)
(*                                                                         *)
(* RelayService shows what the relay sends over one subscription: stored   *)
(* objects in sequence from the anchor, each group's envelope before the   *)
(* group's first object of a replay, and envelopes stored later as they    *)
(* come.  Here that is the environment of the viewer, which must decrypt   *)
(* in order, wait for keys, forget old ones, and resume after any failure. *)
(* A message is written and handled in one step: the transport keeps the   *)
(* order, and a lost connection may end it after any message.              *)
(*                                                                         *)
(* Object n is in group Group(n); a group is GroupSize objects, the first  *)
(* of which is its epoch object.  The relay holds First(oldest)..high,     *)
(* nothing once retention has dropped the last group of a stream whose     *)
(* publisher went away.                                                    *)
(***************************************************************************)
EXTENDS Access, Sequences, SequencesExt

CONSTANTS
    GroupSize,   \* objects in a group
    MaxSequence, \* bound on published objects
    Starts,      \* starts the viewer may ask for
    MaxKeys,     \* MAX_CACHED_KEYS
    MaxPending,  \* MAX_PENDING_OBJECTS
    Unkeyed,     \* groups whose key this viewer is never sent
    MaxFaults    \* bound on lost connections, lagging and new selections

ASSUME SessionAssumption ==
    /\ GroupSize \in Nat \ {0} /\ MaxSequence \in Nat
    /\ Starts \subseteq {"live", "oldest"} /\ Starts # {}
    /\ MaxKeys \in Nat \ {0} /\ MaxPending \in Nat /\ MaxFaults \in Nat

Group(n) == (n - 1) \div GroupSize
First(g) == g * GroupSize + 1
Groups == {Group(n) : n \in 1..MaxSequence}

VARIABLES
    (* the stream at the relay *)
    high,      \* last object stored, 0 for none
    oldest,    \* oldest group retained
    keyed,     \* retained groups with an envelope for this viewer
    ended,     \* the publisher's session has ended: the newest group is complete
    (* the relay's side of the connection *)
    phase,     \* "off", or where the relay's task is
    opened,    \* last object stored when the live receiver was created
    sent,      \* last_sequence: the last object written
    page,      \* the last object of the page a replay has read
    sentKey,   \* delivered_group of that page, -1 for none
    mail,      \* envelopes in the subscription's live receiver
    (* the viewer *)
    keys,      \* KeyCache, in order of insertion
    start,     \* the start it was asked for
    last,      \* last_decrypted
    pending,   \* objects received and not decrypted, in order
    epochSeen, \* source_size is known to this connection
    (* what the properties remember *)
    joined,    \* where this run of playing began: the relay's answer to a
               \* selection, or to a resume whose next object it no longer has
    played,    \* objects decrypted since
    late,      \* live items written on this connection after access was lost
    faults

streamVars == <<high, oldest, keyed, ended>>
relayVars == <<phase, opened, sent, page, sentKey, mail>>
progress == <<last, joined, played>>
playVars == <<progress, pending, epochSeen>>
vars == <<accessVars, streamVars, relayVars, keys, start, playVars, late, faults>>

Init ==
    /\ AccessInit
    /\ high = 0 /\ oldest = 0 /\ keyed = {} /\ ended = FALSE
    /\ phase = "off" /\ opened = 0 /\ sent = 0 /\ page = 0 /\ sentKey = -1 /\ mail = {}
    /\ keys = <<>> /\ start \in Starts
    /\ last = 0 /\ pending = <<>> /\ epochSeen = FALSE
    /\ joined = 1 /\ played = {} /\ late = 0 /\ faults = 0

Phases == {"off", "control", "command", "read", "replay", "check", "wait"}

-----------------------------------------------------------------------------
(* The stream, as the publisher and the relay's store change it *)

Publish ==
    /\ high < MaxSequence
    /\ high' = high + 1 /\ ended' = FALSE
    /\ UNCHANGED <<accessVars, oldest, keyed, relayVars, keys, start, playVars, late,
                   faults>>

\* finalize_stream completes the newest group when its publisher's session
\* ends; here that is after a whole number of groups.
Finalize ==
    /\ ~ended /\ high > 0 /\ Group(high + 1) > Group(high)
    /\ ended' = TRUE
    /\ UNCHANGED <<accessVars, high, oldest, keyed, relayVars, keys, start, playVars, late,
                   faults>>

\* The relay stores an envelope only for a group it holds, and broadcasts it.
StoreKey(g) ==
    /\ high > 0 /\ g \in oldest..Group(high)
    /\ g \notin keyed \cup Unkeyed
    /\ keyed' = keyed \cup {g}
    /\ mail' = IF phase \in {"read", "replay", "check", "wait"} THEN mail \cup {g} ELSE mail
    /\ UNCHANGED <<accessVars, high, oldest, ended, phase, opened, sent, page, sentKey, keys,
                   start, playVars, late, faults>>

\* The oldest group retained, if any, is complete.
OldestComplete == high > 0 /\ (oldest < Group(high) \/ (ended /\ oldest = Group(high)))

\* run_retention drops the oldest group and its envelopes, if it is complete.
Evict ==
    /\ OldestComplete
    /\ oldest' = oldest + 1
    /\ keyed' = keyed \ {oldest}
    /\ UNCHANGED <<accessVars, high, ended, relayVars, keys, start, playVars, late, faults>>

-----------------------------------------------------------------------------
(* The viewer's key cache *)

\* Mutant: a full cache keeps what it has.
InsertIfRoom(cache, g) ==
    IF g \in Range(cache) \/ Len(cache) = MaxKeys THEN cache ELSE Append(cache, g)

\* A key inserted again keeps its place; the oldest insertion is dropped.
Insert(cache, g) ==
    IF g \in Range(cache) THEN cache
    ELSE LET grown == Append(cache, g)
         IN  IF Len(grown) > MaxKeys THEN Tail(grown) ELSE grown

\* The inbox lists the envelopes of retained groups.
ListedEnvelope(g) == g \in keyed

\* refresh, every five seconds and after a failed connection: the inbox comes
\* envelope by envelope, newest group first, while the subscription plays and
\* groups come and go.  Any envelope at any time is every such order.
Refresh(g) ==
    /\ Admit /\ ListedEnvelope(g)
    /\ keys' = Insert(keys, g)
    /\ UNCHANGED <<accessVars, streamVars, relayVars, start, playVars, late, faults>>

-----------------------------------------------------------------------------
(* Receiving an object or a key *)

\* An object opens with the key of its own group only.
Opens(n, cache) == Group(n) \in Range(cache)

\* The longest prefix of the queue whose keys are cached.
Ready(queue, cache) ==
    LET opens(k) == \A i \in 1..k : Opens(queue[i], cache)
    IN  SubSeq(queue, 1, Max({k \in 0..Len(queue) : opens(k)}))

\* decode_object needs the epoch: a connection that joined in the middle of a
\* group may fail to decode what comes before the next one.
MayFail(ready) == ~epochSeen /\ ready # <<>> /\ Head(ready) # First(Group(Head(ready)))

\* subscribe_once has a queue and a decoder of its own.
NewPlayer == pending' = <<>> /\ epochSeen' = FALSE

\* subscribe_once returned an error: they go, and the connection with them.
Fail ==
    /\ phase' = "off" /\ opened' = 0 /\ sent' = 0 /\ page' = 0 /\ sentKey' = -1 /\ mail' = {}
    /\ late' = 0
    /\ NewPlayer

\* Mutant: resume after the last object received.
ResumeAtReceived(queue, ready) == IF queue = <<>> THEN last ELSE Last(queue)

\* drain_pending_objects returned the last object it decrypted, if any.
LastDecrypted(queue, ready) == IF ready = <<>> THEN last ELSE Last(ready)

\* drain_pending_objects over queue with the keys in cache, then the relay
\* goes on.  An error loses the count of what this drain has played.
Drain(queue, cache, Continue) ==
    LET ready == Ready(queue, cache)
    IN  \/ /\ last' = LastDecrypted(queue, ready)
           /\ pending' = SubSeq(queue, Len(ready) + 1, Len(queue))
           /\ epochSeen' = (epochSeen \/ \E n \in Range(ready) : n = First(Group(n)))
           /\ played' = played \cup Range(ready) /\ UNCHANGED joined
           /\ Continue
        \/ /\ MayFail(ready)
           /\ Fail
           /\ UNCHANGED progress

\* LiveSequenceGuard refuses what is not newer than the last object it took.
InOrder(n) == n > sent

\* The queue is bounded in objects and in bytes: one object is always within
\* MAX_PENDING_CIPHERTEXT_BYTES, two may be beyond it.
HandleObject(n, Continue) ==
    /\ \/ /\ ~InOrder(n) \/ Len(pending) + 1 > MaxPending \/ pending # <<>>
          /\ Fail /\ UNCHANGED progress
       \/ /\ InOrder(n) /\ Len(pending) + 1 <= MaxPending
          /\ Drain(Append(pending, n), keys, Continue)
    /\ UNCHANGED keys

HandleEnvelope(g, Continue) ==
    /\ keys' = Insert(keys, g)
    /\ Drain(pending, keys', Continue)

-----------------------------------------------------------------------------
(* Connecting and failing *)

\* subscribe: resume after the last object decrypted, from the start if none.
Resume == IF last = 0 THEN start ELSE "sequence"

\* The groups retained, by their first objects.
GroupStarts == {First(g) : g \in oldest..Group(high)}

AnchorAt(groups) ==
    LET before == {f \in groups : f <= last + 1}
    IN  CASE high = 0 -> 1
          [] high > 0 /\ Resume = "live" ->
                IF oldest <= Group(high) THEN First(Group(high)) ELSE high + 1
          [] high > 0 /\ Resume = "oldest" ->
                IF OldestComplete THEN First(oldest) ELSE high + 1
          [] high > 0 /\ Resume = "sequence" ->
                IF before = {} THEN high + 1 ELSE Max(before)

\* Mutant: a resume is answered from complete groups only.
AnchorComplete == AnchorAt({f \in GroupStarts : f < First(Group(high)) \/ ended})

\* subscription_anchor: the group that holds the next object or the last one
\* before it, and the next object to come when there is none.
Anchor == AnchorAt(GroupStarts)

\* command_worker: selecting a stream aborts the task that plays it.
Select(s) ==
    /\ faults < MaxFaults /\ faults' = faults + 1
    /\ start' = s /\ last' = 0 /\ joined' = 1 /\ played' = {}
    /\ Fail
    /\ UNCHANGED <<accessVars, streamVars, keys>>

\* handle_viewer_from: handshake, hello, admission, welcome.
Welcomed == Admit /\ phase' = "control"

Connect ==
    /\ phase = "off" /\ Welcomed
    /\ UNCHANGED <<accessVars, streamVars, opened, sent, page, sentKey, mail, keys, start,
                   playVars, late, faults>>

\* viewer_loop checks the credential, then waits for a message.
CheckControl ==
    /\ phase = "control"
    /\ IF EnsureActive
       THEN phase' = "command" /\ UNCHANGED <<opened, sent, page, sentKey, mail, late, pending, epochSeen>>
       ELSE Fail
    /\ UNCHANGED <<accessVars, streamVars, keys, start, progress, faults>>

\* The credential expires before the viewer's next message comes.
ReadUntilExpiry ==
    /\ phase = "command" /\ clock >= NotAfter
    /\ Fail
    /\ UNCHANGED <<accessVars, streamVars, keys, start, progress, faults>>

\* The receiver is created before the anchor is read.  At the live edge the
\* envelope of the newest object's group comes first.
Subscribe ==
    /\ phase = "command"
    /\ phase' = "read" /\ opened' = high /\ sent' = Anchor - 1 /\ sentKey' = -1 /\ mail' = {}
    /\ keys' = IF Anchor > high /\ high > 0 /\ Group(high) \in keyed
               THEN Insert(keys, Group(high)) ELSE keys
    /\ IF last = 0 \/ Anchor > last + 1 THEN joined' = Anchor /\ played' = {}
       ELSE UNCHANGED <<joined, played>>
    /\ NewPlayer
    /\ UNCHANGED <<accessVars, streamVars, page, start, last, late, faults>>

\* The connection is lost, or subscribe_once gives it up over a message: one
\* that is misrouted, cannot be opened or decoded, or is not expected.
Disconnect ==
    /\ phase # "off" /\ faults < MaxFaults
    /\ faults' = faults + 1
    /\ Fail
    /\ UNCHANGED <<accessVars, streamVars, keys, start, progress>>

\* The live receiver holds nothing to write.
Quiet == high \in {opened, sent} /\ mail = {}

\* read_viewer: nothing came for NETWORK_TIMEOUT.
ReadTimeout ==
    /\ phase \in {"check", "wait"} /\ Quiet
    /\ Fail
    /\ UNCHANGED <<accessVars, streamVars, keys, start, progress, faults>>

-----------------------------------------------------------------------------
(* Replay and live tail *)

\* list_objects after last_sequence.
Listed == {n \in sent + 1..high : n >= First(oldest)}

\* reanchor_from_store reads a page; objects after it come from the receiver.
\* A page that does not begin with the next object is an error, an empty one
\* is not.
ReadPage ==
    /\ phase = "read"
    /\ IF Listed # {} /\ sent + 1 \notin Listed
       THEN Fail
       ELSE /\ phase' = (IF Listed # {} THEN "replay" ELSE "check")
            /\ page' = (IF Listed # {} THEN high ELSE 0)
            /\ UNCHANGED <<opened, sent, sentKey, mail, late, pending, epochSeen>>
    /\ UNCHANGED <<accessVars, streamVars, keys, start, progress, faults>>

\* send_group_envelope, before the first object of a group in the page.
ReplayEnvelope ==
    LET g == Group(sent + 1)
        continue == sentKey' = g /\ UNCHANGED <<phase, opened, sent, page, mail, late>>
    IN  /\ phase = "replay" /\ sentKey # g
        /\ IF g \in keyed THEN HandleEnvelope(g, continue)
           ELSE continue /\ UNCHANGED <<keys, playVars>>
        /\ UNCHANGED <<accessVars, streamVars, start, faults>>

ReplayObject(n) ==
    /\ phase = "replay" /\ n = sent + 1 /\ sentKey = Group(n)
    /\ HandleObject(n, /\ sent' = n
                       /\ IF n < page THEN UNCHANGED <<phase, page, sentKey>>
                          ELSE phase' = "check" /\ page' = 0 /\ sentKey' = -1
                       /\ UNCHANGED <<opened, mail, late>>)
    /\ UNCHANGED <<accessVars, streamVars, start, faults>>

\* Mutant: only the credential's expiry ends a subscription.
CheckExpiry ==
    /\ phase = "check"
    /\ IF clock < NotAfter
       THEN phase' = "wait" /\ UNCHANGED <<opened, sent, page, sentKey, mail, late, pending, epochSeen>>
       ELSE Fail
    /\ UNCHANGED <<accessVars, streamVars, keys, start, progress, faults>>

\* The top of the subscription's loop.
Check ==
    /\ phase = "check"
    /\ IF EnsureActive
       THEN phase' = "wait" /\ UNCHANGED <<opened, sent, page, sentKey, mail, late, pending, epochSeen>>
       ELSE Fail
    /\ UNCHANGED <<accessVars, streamVars, keys, start, progress, faults>>

\* The policy tick: nothing was received for a second.
PolicyTick ==
    /\ phase = "wait" /\ Quiet
    /\ phase' = "check"
    /\ UNCHANGED <<accessVars, streamVars, opened, sent, page, sentKey, mail, keys, start,
                   playVars, late, faults>>

\* A live item is written without looking at the policy again.
Written ==
    /\ phase' = "check"
    /\ late' = IF EnsureActive THEN late ELSE late + 1
    /\ UNCHANGED <<opened, page, sentKey>>

TailObject(n) ==
    /\ phase = "wait" /\ opened <= sent /\ n = sent + 1 /\ n <= high
    /\ HandleObject(n, Written /\ sent' = n /\ UNCHANGED mail)
    /\ UNCHANGED <<accessVars, streamVars, start, faults>>

\* The receiver holds a group's first object before any of its envelopes,
\* unless the object was stored before the receiver was created.
TailEnvelope(g) ==
    /\ phase = "wait" /\ g \in mail /\ (First(g) <= sent \/ First(g) <= opened)
    /\ HandleEnvelope(g, Written /\ mail' = mail \ {g} /\ UNCHANGED sent)
    /\ UNCHANGED <<accessVars, streamVars, start, faults>>

\* The next item received is not the next object: everything was evicted
\* between the anchor and the page.  The store cannot fill that gap either.
TailGap ==
    /\ phase = "wait" /\ sent < opened /\ opened < high
    /\ Fail
    /\ UNCHANGED <<accessVars, streamVars, keys, start, progress, faults>>

\* The receiver lagged: items were overwritten, and the store is read again;
\* it must yield the next object.
Lag(lost) ==
    /\ phase = "wait" /\ faults < MaxFaults
    /\ faults' = faults + 1
    /\ IF sent + 1 \in Listed
       THEN phase' = "replay" /\ page' = high /\ mail' = mail \ lost
            /\ UNCHANGED <<opened, sent, sentKey, late, pending, epochSeen>>
       ELSE Fail
    /\ UNCHANGED <<accessVars, streamVars, keys, start, progress>>

-----------------------------------------------------------------------------
\* Access regained starts the count of late items again.
Policy ==
    /\ AccessNext
    /\ late' = IF EnsureActive' THEN 0 ELSE late
    /\ UNCHANGED <<streamVars, relayVars, keys, start, playVars, faults>>

Receive ==
    \/ ReadPage \/ ReplayEnvelope \/ Check \/ PolicyTick \/ TailGap
    \/ \E n \in 1..MaxSequence : ReplayObject(n) \/ TailObject(n)
    \/ \E g \in Groups : TailEnvelope(g)
    \/ \E lost \in SUBSET mail : Lag(lost)

Next ==
    \/ Policy
    \/ Publish \/ Finalize \/ Evict \/ (\E g \in Groups : StoreKey(g))
    \/ (\E g \in Groups : Refresh(g))
    \/ (\E s \in Starts : Select(s)) \/ Connect \/ CheckControl \/ Subscribe
    \/ ReadUntilExpiry \/ Disconnect \/ ReadTimeout
    \/ Receive

\* The step that plays object n.
Plays(n) == (ReplayObject(n) \/ TailObject(n)) /\ phase' # "off" /\ pending' = <<>>

\* What the connection's two tasks do next when they wait for nothing.
Proceed ==
    \/ Connect \/ CheckControl \/ Subscribe \/ ReadPage \/ ReplayEnvelope \/ Check
    \/ \E n \in 1..MaxSequence : ReplayObject(n)

\* What the relay's receiver holds is received.
ReceiveLive ==
    \/ (\E n \in 1..MaxSequence : TailObject(n)) \/ TailGap
    \/ (\E g \in Groups : TailEnvelope(g))

(***************************************************************************)
(* The tasks run and the timers fire.  Strong fairness of playing n: the   *)
(* refresh that may push n's key out of a full cache runs every five       *)
(* seconds, and does not fall between the key and the object every time.   *)
(***************************************************************************)
Fairness ==
    /\ WF_vars(Reload /\ Policy)
    /\ WF_vars(Proceed) /\ WF_vars(ReceiveLive) /\ WF_vars(ReadTimeout)
    /\ \A n \in 1..MaxSequence : SF_vars(Plays(n))

Spec == Init /\ [][Next]_vars /\ Fairness

-----------------------------------------------------------------------------
TypeOK ==
    /\ AccessTypeOK
    /\ high \in 0..MaxSequence /\ oldest \in Nat /\ keyed \subseteq Groups
    /\ ended \in BOOLEAN
    /\ phase \in Phases /\ opened \in 0..MaxSequence /\ sent \in 0..MaxSequence /\ page \in 0..MaxSequence
    /\ sentKey \in Groups \cup {-1} /\ mail \subseteq Groups
    /\ Range(keys) \subseteq Groups /\ Len(keys) <= MaxKeys
    /\ start \in Starts /\ last \in 0..MaxSequence
    /\ Range(pending) \subseteq 1..MaxSequence /\ Len(pending) <= MaxPending
    /\ epochSeen \in BOOLEAN
    /\ joined \in 1..MaxSequence + 1 /\ played \subseteq 1..MaxSequence
    /\ late \in Nat /\ faults \in 0..MaxFaults

\* The viewer never passes over an object within a run of playing: from where
\* the run began to the last object it counts as decrypted, each was played,
\* however often keys were missing, connections failed and it resumed at
\* last_decrypted + 1 (subscribe, drain_pending_objects).
NoSilentSkip == joined..last \subseteq played

\* A run of playing is broken off, and another begun further on, only by a new
\* selection or when the relay no longer has the object that comes next
\* (subscribe, subscription_anchor).  The new run begins at the next live
\* object: what the relay still has in between is passed over as well.
JumpsOnlyPastEviction ==
    [][joined' # joined => 0 \in {last, last'} \/ last + 1 < First(oldest)]_vars

\* After the policy in force withdraws the credential, at most one live item
\* is written to a connection: the one its task was waiting for when it last
\* looked (subscription).  A replay does not look.
LateItemsBounded == late <= 1

\* Nothing to play: the relay would not admit the viewer, would have it wait
\* for the next live object, or is without a key of what it would replay.
Blocked ==
    \/ ~Admit
    \/ Anchor > high
    \/ ~(Group(Anchor)..Group(high) \subseteq keyed)

\* The viewer always catches up with the stream again, with a cache and a
\* queue smaller than the history, unless it is blocked (subscribe,
\* subscribe_once, KeyCache::insert, refresh).
PlaysOn == []<>(high = 0 \/ last = high \/ Blocked)

\* The file names the credential in a list that verifies, the credential is out
\* of time, or so is the list in force and the file has no other.
Withdrawn ==
    \/ ListVerifies(file) /\ file.revokes
    \/ clock >= NotAfter
    \/ ~ListVerifies(loaded) /\ ~ListVerifies(file)

\* A credential that stays withdrawn ends every connection and gets no other:
\* the reload task, the checks of a session and the admission of the next
\* agree (run_access_reload, ensure_active, admit).
WithdrawalEndsSessions == <>[]Withdrawn => <>[](phase = "off")
=============================================================================
