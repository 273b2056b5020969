----------------------------- MODULE KeyDelivery -----------------------------
(***************************************************************************)
(* How the content keys of one stream reach its approved viewers:          *)
(* the publish loop (crates/publisher/src/native_publish.rs) opens key     *)
(* groups and seals each key for the viewers it last read from the         *)
(* approval file; administration sessions (native_admin.rs), in other      *)
(* tasks and processes, approve and revoke viewers in that file and        *)
(* deliver the keys of retained groups to newly approved ones.             *)
(*                                                                         *)
(* An administration session holds the approval file's lock from its load  *)
(* to its end, so the loop's read of the file waits for it.  Both files    *)
(* are replaced atomically.  The relay stores what arrives on each         *)
(* connection in order; a lost connection loses any suffix of it.          *)
(*                                                                         *)
(* A group is <<epoch, number>>: a reconnect opens a fresh epoch, so       *)
(* groups are ordered by their time of creation, and so are the keys of    *)
(* the history (reconnects are at least 250 ms apart).                     *)
(***************************************************************************)
EXTENDS Integers, FiniteSetsExt

CONSTANTS
    Viewers,      \* viewer identities
    GroupFrames,  \* frames per key group (fps * 4, at least 1)
    HistoryBytes, \* the publisher's byte limit on its key history
    HistoryAge,   \* and its age limit
    MaxEpoch,     \* bound: connections the loop makes
    MaxFrames,    \* bound: frames per connection
    Times,        \* readings of the wall clock
    MaxFaults     \* bound: lost connections, crashes and failed deliveries

\* group_frames is clamped to at least 1, zero history limits are refused.
ASSUME LimitsAssumption ==
    /\ GroupFrames \in Nat \ {0}
    /\ HistoryBytes \in Nat \ {0}
    /\ HistoryAge \in Nat \ {0}
    /\ Times \subseteq Nat /\ 0 \in Times
    /\ MaxEpoch \in Nat /\ MaxFrames \in Nat /\ MaxFaults \in Nat

VARIABLES
    (* publisher-state.bin *)
    approvedFile,   \* approved grants of the stream
    revokedFile,    \* permanent deny list
    historyOutbox,  \* grants whose retained keys are still to be delivered
    pairing,        \* its pairing outboxes: "clear", "queued" or "purged" (Pairing has
                    \* them in full): a queued record's request is gone from the relay
    (* the administration session that holds .publisher-state.lock *)
    admin,          \* "idle" (lock free), "open", "loaded", "refresh", "decided", "flush", "send"
    todo,           \* grants flush_history_outbox has still to try
    target,         \* the viewer it is delivering keys to
    plan,           \* the groups whose keys it has still to send
    (* key-history.bin, and the loop's copy of it *)
    keyFile, keyHistory,
    (* run_native_client *)
    pc,             \* where the loop is
    epoch, group,   \* the current epoch and group number, 0 before the first
    sequence,       \* last sequence number sealed
    frame,          \* frame_index
    starts,         \* starts_group of the current frame
    approved,       \* the viewers read at the start of the frame
    clock,
    (* its connection: envelopes of the current group, then one object *)
    keysOut, objectOut,
    (* the relay's rows of the stream *)
    committed,      \* high-water mark
    retained,       \* groups that are retained
    published,      \* those of them that hold a media object
    envelopes,      \* <<group, viewer>> pairs
    faults,
    (* history variables of the properties *)
    seen,           \* deny list when the loop last read the approval file
    denied,         \* denied[g]: seen when the loop opened group g
    openAt          \* openAt[v]: group whose first frame was under way at v's approval

fileVars == <<approvedFile, revokedFile, historyOutbox, pairing>>
adminVars == <<admin, todo, target, plan>>
loopVars == <<pc, epoch, group, sequence, frame, starts, approved, keyHistory, clock>>
relayVars == <<committed, retained, published, envelopes>>
ghostVars == <<seen, denied, openAt>>
vars == <<fileVars, adminVars, keyFile, loopVars, keysOut, objectOut, relayVars,
          faults, ghostVars>>

Groups == (1..MaxEpoch) \X (1..MaxFrames)
NoGroup == <<0, 0>>
Nobody == "nobody"
Current == <<epoch, group>>
Newer(g, h) == g[1] > h[1] \/ (g[1] = h[1] /\ g[2] > h[2])
Newest(gs) == CHOOSE g \in gs : \A h \in gs : h = g \/ Newer(g, h)
Oldest(gs) == CHOOSE g \in gs : \A h \in gs : h = g \/ Newer(h, g)
RetainedKey == [group : Groups, bytes : Nat, at : Times]
Locked == admin # "idle"

Init ==
    /\ approvedFile = {} /\ revokedFile = {} /\ historyOutbox = {} /\ pairing = "clear"
    /\ admin = "idle" /\ todo = {} /\ target = Nobody /\ plan = {}
    /\ keyFile = {} /\ keyHistory = {}
    /\ pc = "down" /\ epoch = 0 /\ group = 0 /\ sequence = 0 /\ frame = 0
    /\ starts = FALSE /\ approved = {} /\ clock = 0
    /\ keysOut = {} /\ objectOut = "none"
    /\ committed = 0 /\ retained = {} /\ published = {} /\ envelopes = {}
    /\ faults = 0
    /\ seen = {} /\ denied = [g \in Groups |-> {}] /\ openAt = [v \in Viewers |-> NoGroup]

-----------------------------------------------------------------------------
(* prune_key_history *)

\* The bytes of the groups of a history from group g on.
BytesFrom(history, g) ==
    MapThenSumSet(LAMBDA k : k.bytes, {k \in history : ~Newer(g, k.group)})

IsNewest(key, history) == \A k \in history : k = key \/ Newer(key.group, k.group)

\* Keys that are young enough; of these the newest whose groups fit the byte
\* limit, and always the newest one.
PruneKeyHistory(history, now) ==
    LET young == {k \in history : now - k.at <= HistoryAge}
    IN  {k \in young : IsNewest(k, young) \/ BytesFrom(young, k.group) <= HistoryBytes}

\* The newest key counts a frame's content while it is the current group's.
Counted(history, bytes) ==
    {IF IsNewest(k, history) /\ k.group = Current
     THEN [k EXCEPT !.bytes = @ + bytes] ELSE k : k \in history}

SaveKeyHistory(history) ==
    /\ keyHistory' = history
    /\ keyFile' = history

-----------------------------------------------------------------------------
(* run_native_client *)

\* Mutant: the position of the previous connection is kept.
ConnectStale ==
    /\ pc = "down" /\ epoch < MaxEpoch
    /\ keysOut = {} /\ objectOut = "none"
    /\ ~Locked
    /\ pc' = "read"
    /\ epoch' = epoch + 1
    /\ group' = 0
    /\ frame' = 0
    /\ approved' = approvedFile
    /\ keyHistory' = keyFile
    /\ UNCHANGED <<fileVars, adminVars, keyFile, sequence, starts, clock, keysOut,
                   objectOut, relayVars, faults, ghostVars>>

\* Connect, Resume with a fresh epoch, and read both files.  The relay refuses
\* the claim until the previous connection is gone.
Connect ==
    /\ pc = "down" /\ epoch < MaxEpoch
    /\ keysOut = {} /\ objectOut = "none"
    /\ ~Locked
    /\ pc' = "read"
    /\ epoch' = epoch + 1
    /\ group' = 0
    /\ sequence' = committed
    /\ frame' = 0
    /\ approved' = approvedFile
    /\ keyHistory' = keyFile
    /\ UNCHANGED <<fileVars, adminVars, keyFile, starts, clock, keysOut, objectOut,
                   relayVars, faults, ghostVars>>

StartsGroup ==
    \/ group = 0
    \/ approved \ approvedFile # {}
    \/ frame % GroupFrames = 0

\* The top of the loop: compare the approval file with the last reading, open
\* a group or hand the current key to the viewers approved since.
ReadApprovals ==
    /\ pc = "read" /\ frame < MaxFrames
    /\ ~Locked
    /\ starts' = StartsGroup
    /\ group' = IF StartsGroup THEN group + 1 ELSE group
    /\ keysOut' = IF StartsGroup THEN {} ELSE approvedFile \ approved
    /\ approved' = approvedFile
    /\ pc' = "capture"
    /\ seen' = revokedFile
    /\ denied' = IF StartsGroup
                 THEN [denied EXCEPT ![<<epoch, group + 1>>] = revokedFile]
                 ELSE denied
    /\ UNCHANGED <<fileVars, adminVars, keyFile, epoch, sequence, frame, keyHistory,
                   clock, objectOut, relayVars, faults, openAt>>

\* After the capture and the encode, the epoch object of a new group ...
PublishEpoch ==
    /\ pc = "capture" /\ starts
    /\ sequence' = sequence + 1
    /\ objectOut' = "epoch"
    /\ pc' = "epoch"
    /\ UNCHANGED <<fileVars, adminVars, keyFile, epoch, group, frame, starts, approved,
                   keyHistory, clock, keysOut, relayVars, faults, ghostVars>>

\* ... or the frame itself.
PublishFrame ==
    /\ pc = "capture" /\ ~starts
    /\ sequence' = sequence + 1
    /\ objectOut' = "media"
    /\ pc' = "media"
    /\ UNCHANGED <<fileVars, adminVars, keyFile, epoch, group, frame, starts, approved,
                   keyHistory, clock, keysOut, relayVars, faults, ghostVars>>

\* Mutant: the key is only kept in memory until the end of the frame.
RecordKeyUnsaved ==
    /\ pc = "epoch" /\ objectOut = "none"
    /\ \E now \in Times :
        /\ now >= clock /\ clock' = now
        /\ keyHistory' = PruneKeyHistory(
               keyHistory \cup {[group |-> Current, bytes |-> 0, at |-> now]}, now)
    /\ keysOut' = approved
    /\ sequence' = sequence + 1
    /\ objectOut' = "media"
    /\ pc' = "media"
    /\ UNCHANGED <<fileVars, adminVars, keyFile, epoch, group, frame, starts, approved,
                   relayVars, faults, ghostVars>>

\* The epoch object is acknowledged: save the key, seal it for the viewers
\* read at the start of the frame, publish the frame.
RecordKey ==
    /\ pc = "epoch" /\ objectOut = "none"
    /\ \E now \in Times :
        /\ now >= clock /\ clock' = now
        /\ SaveKeyHistory(PruneKeyHistory(
               keyHistory \cup {[group |-> Current, bytes |-> 0, at |-> now]}, now))
    /\ keysOut' = approved
    /\ sequence' = sequence + 1
    /\ objectOut' = "media"
    /\ pc' = "media"
    /\ UNCHANGED <<fileVars, adminVars, epoch, group, frame, starts, approved,
                   relayVars, faults, ghostVars>>

PublishCursor ==
    /\ pc = "media" /\ objectOut = "none"
    /\ sequence' = sequence + 1
    /\ objectOut' = "cursor"
    /\ pc' = "cursor"
    /\ UNCHANGED <<fileVars, adminVars, keyFile, epoch, group, frame, starts, approved,
                   keyHistory, clock, keysOut, relayVars, faults, ghostVars>>

\* Every object of the frame is acknowledged: count its content and save.
EndFrame ==
    /\ pc \in {"media", "cursor"} /\ objectOut = "none"
    /\ \E now \in Times :
        /\ now >= clock /\ clock' = now
        /\ SaveKeyHistory(PruneKeyHistory(
               Counted(keyHistory, IF pc = "media" THEN 1 ELSE 2), now))
    /\ frame' = frame + 1
    /\ pc' = "read"
    /\ UNCHANGED <<fileVars, adminVars, epoch, group, sequence, starts, approved,
                   keysOut, objectOut, relayVars, faults, ghostVars>>

\* An error of the connection, the capture or the encoder, a timeout, a
\* shutdown or the death of the process.  What was sent may still arrive.
Drop ==
    /\ pc # "down"
    /\ faults < MaxFaults
    /\ faults' = faults + 1
    /\ pc' = "down"
    /\ UNCHANGED <<fileVars, adminVars, keyFile, epoch, group, sequence, frame, starts,
                   approved, keyHistory, clock, keysOut, objectOut, relayVars, ghostVars>>

-----------------------------------------------------------------------------
(* The relay *)

\* store_envelope keeps an envelope of a retained group and drops any other.
Kept(g, v) == IF g \in retained THEN envelopes \cup {<<g, v>>} ELSE envelopes

RelayEnvelope ==
    /\ \E v \in keysOut :
        /\ keysOut' = keysOut \ {v}
        /\ envelopes' = Kept(Current, v)
    /\ UNCHANGED <<fileVars, adminVars, keyFile, loopVars, objectOut, committed, retained,
                   published, faults, ghostVars>>

\* store_object takes the next sequence only, and a new group at its epoch.
Accepts ==
    /\ sequence = committed + 1
    /\ (objectOut = "epoch") = (Current \notin retained)
    /\ \A g \in retained : g = Current \/ Newer(Current, g)

RelayObject ==
    /\ objectOut # "none" /\ keysOut = {}
    /\ Accepts
    /\ objectOut' = "none"
    /\ committed' = committed + 1
    /\ retained' = retained \cup {Current}
    /\ published' = IF objectOut = "media" THEN published \cup {Current} ELSE published
    /\ UNCHANGED <<fileVars, adminVars, keyFile, loopVars, keysOut, envelopes, faults,
                   ghostVars>>

\* The relay ends the session of a lost connection; the rest never arrives.
RelayClose ==
    /\ pc = "down" /\ (keysOut # {} \/ objectOut # "none")
    /\ keysOut' = {} /\ objectOut' = "none"
    /\ UNCHANGED <<fileVars, adminVars, keyFile, loopVars, relayVars, faults, ghostVars>>

\* A later group completes a group, and so does the end of its session.
Complete(g) ==
    \/ \E h \in retained : Newer(h, g)
    \/ g[1] # epoch
    \/ pc = "down" /\ keysOut = {} /\ objectOut = "none"

\* Mutant: the group's row goes without what it holds.
EvictRowOnly ==
    /\ retained # {}
    /\ LET g == Oldest(retained)
       IN  /\ Complete(g)
           /\ retained' = retained \ {g}
    /\ UNCHANGED <<fileVars, adminVars, keyFile, loopVars, keysOut, objectOut, committed,
                   published, envelopes, faults, ghostVars>>

\* Retention evicts the oldest complete group with its envelopes.
Evict ==
    /\ retained # {}
    /\ LET g == Oldest(retained)
       IN  /\ Complete(g)
           /\ retained' = retained \ {g}
           /\ published' = published \ {g}
           /\ envelopes' = {e \in envelopes : e[1] # g}
    /\ UNCHANGED <<fileVars, adminVars, keyFile, loopVars, keysOut, objectOut, committed,
                   faults, ghostVars>>

-----------------------------------------------------------------------------
(* Administration sessions *)

\* A group counts as open for a viewer approved during its first frame: its
\* key is not in the history yet, or has no content there.
Opening ==
    IF pc \in {"capture", "epoch", "media", "cursor"} /\ starts THEN Current ELSE NoGroup

\* The worker's next round, or a command other than revoke, takes the lock.
Synchronize ==
    /\ ~Locked
    /\ admin' = "open"
    /\ UNCHANGED <<fileVars, todo, target, plan, keyFile, loopVars, keysOut, objectOut,
                   relayVars, faults, ghostVars>>

LoadPolicy ==
    /\ admin = "open"
    /\ admin' = "loaded"
    /\ UNCHANGED <<fileVars, todo, target, plan, keyFile, loopVars, keysOut, objectOut,
                   relayVars, faults, ghostVars>>

\* load_config or load_policy fails (a file does not parse, the trusted list
\* has expired), or refresh_requests rejects a record of the inbox.
RoundRefused ==
    /\ admin \in {"open", "refresh"}
    /\ admin' = "idle"
    /\ UNCHANGED <<fileVars, todo, target, plan, keyFile, loopVars, keysOut, objectOut,
                   relayVars, faults, ghostVars>>

\* flush_outbox, before the refresh and again once its results are saved: all
\* offers and decisions are acknowledged.
FlushOutbox ==
    /\ admin \in {"loaded", "decided"} /\ pairing # "purged"
    /\ pairing' = "clear"
    /\ admin' = IF admin = "loaded" THEN "refresh" ELSE "flush"
    /\ todo' = IF admin = "loaded" THEN todo ELSE historyOutbox
    /\ UNCHANGED <<approvedFile, revokedFile, historyOutbox, target, plan, keyFile, loopVars,
                   keysOut, objectOut, relayVars, faults, ghostVars>>

\* The relay refuses an offer or decision whose request it has purged; it stays
\* queued, and the session ends before the history outbox.
OutboxRefused ==
    /\ admin \in {"loaded", "decided"} /\ pairing = "purged"
    /\ admin' = "idle"
    /\ UNCHANGED <<fileVars, todo, target, plan, keyFile, loopVars, keysOut, objectOut,
                   relayVars, faults, ghostVars>>

\* A request whose record is still queued expires at the relay.
Purge ==
    /\ pairing = "queued"
    /\ pairing' = "purged"
    /\ UNCHANGED <<approvedFile, revokedFile, historyOutbox, adminVars, keyFile, loopVars,
                   keysOut, objectOut, relayVars, faults, ghostVars>>

\* refresh_requests and the command's decide, add_approved, and the save before
\* any delivery.  A grant queues its decision; a round without one may queue
\* offers or rejections.
Approve(vs) ==
    /\ admin = "refresh"
    /\ vs \cap (approvedFile \cup revokedFile) = {}
    /\ approvedFile' = approvedFile \cup vs
    /\ historyOutbox' = historyOutbox \cup vs
    /\ pairing' \in IF vs = {} THEN {"clear", "queued"} ELSE {"queued"}
    /\ admin' = "decided"
    /\ openAt' = [v \in Viewers |-> IF v \in vs THEN Opening ELSE openAt[v]]
    /\ UNCHANGED <<revokedFile, todo, target, plan, keyFile, loopVars, keysOut, objectOut,
                   relayVars, faults, seen, denied>>

\* Mutant: the grant stays in the outbox.
RevokeGrantOnly(v) ==
    /\ ~Locked
    /\ v \in approvedFile
    /\ approvedFile' = approvedFile \ {v}
    /\ revokedFile' = revokedFile \cup {v}
    /\ UNCHANGED <<historyOutbox, pairing, adminVars, keyFile, loopVars, keysOut, objectOut,
                   relayVars, faults, ghostVars>>

\* gcpub revoke: an offline command.
Revoke(v) ==
    /\ ~Locked
    /\ v \in approvedFile
    /\ approvedFile' = approvedFile \ {v}
    /\ revokedFile' = revokedFile \cup {v}
    /\ historyOutbox' = historyOutbox \ {v}
    /\ UNCHANGED <<pairing, adminVars, keyFile, loopVars, keysOut, objectOut, relayVars, faults,
                   ghostVars>>

\* Mutant: the newest key is left to the live path.
OfferedOlder == {k.group : k \in {j \in keyFile : j.bytes > 0 /\ ~IsNewest(j, keyFile)}}

\* has_published_content
Offered == {k.group : k \in {j \in keyFile : j.bytes > 0}}

\* publish_history_envelopes reads the key history for one grant.
LoadKeys(v) ==
    /\ admin = "flush" /\ v \in todo
    /\ admin' = "send"
    /\ todo' = todo \ {v}
    /\ target' = v
    /\ plan' = Offered
    /\ UNCHANGED <<fileVars, keyFile, loopVars, keysOut, objectOut, relayVars, faults,
                   ghostVars>>

\* Mutant: the relay treats an envelope of an evicted group as a fault.
SendKeyRefused ==
    /\ admin = "send" /\ plan # {}
    /\ LET g == Newest(plan)
       IN  IF g \in retained
           THEN /\ plan' = plan \ {g}
                /\ envelopes' = Kept(g, target)
                /\ UNCHANGED <<admin, target>>
           ELSE /\ admin' = "flush" /\ target' = Nobody /\ plan' = {}
                /\ UNCHANGED envelopes
    /\ UNCHANGED <<fileVars, todo, keyFile, loopVars, keysOut, objectOut,
                   committed, retained, published, faults, ghostVars>>

\* publish_history_groups sends newest first; the relay stores or drops.
SendKey ==
    /\ admin = "send" /\ plan # {}
    /\ LET g == Newest(plan)
       IN  /\ plan' = plan \ {g}
           /\ envelopes' = Kept(g, target)
    /\ UNCHANGED <<fileVars, admin, todo, target, keyFile, loopVars, keysOut, objectOut,
                   committed, retained, published, faults, ghostVars>>

\* The Pong proves that all were processed: the grant leaves the outbox.
Confirm ==
    /\ admin = "send" /\ plan = {}
    /\ historyOutbox' = historyOutbox \ {target}
    /\ admin' = "flush"
    /\ target' = Nobody
    /\ UNCHANGED <<approvedFile, revokedFile, pairing, todo, plan, keyFile, loopVars,
                   keysOut, objectOut, relayVars, faults, ghostVars>>

\* store_envelope refuses a new envelope at a limit of its group, of the
\* publisher or of the relay; the grant stays queued, the next one is tried.
QuotaRefuses ==
    /\ admin = "send" /\ plan # {}
    /\ Newest(plan) \in retained /\ <<Newest(plan), target>> \notin envelopes
    /\ admin' = "flush"
    /\ target' = Nobody /\ plan' = {}
    /\ UNCHANGED <<fileVars, todo, keyFile, loopVars, keysOut, objectOut, relayVars,
                   faults, ghostVars>>

\* Any other failed delivery.
DeliveryFails ==
    /\ admin = "send"
    /\ faults < MaxFaults
    /\ faults' = faults + 1
    /\ admin' = "flush"
    /\ target' = Nobody /\ plan' = {}
    /\ UNCHANGED <<fileVars, todo, keyFile, loopVars, keysOut, objectOut, relayVars,
                   ghostVars>>

EndSession ==
    /\ admin = "flush" /\ todo = {}
    /\ admin' = "idle"
    /\ UNCHANGED <<fileVars, todo, target, plan, keyFile, loopVars, keysOut, objectOut,
                   relayVars, faults, ghostVars>>

\* The session's process dies or it cannot reach the relay; the lock goes.
SessionFails ==
    /\ Locked
    /\ faults < MaxFaults
    /\ faults' = faults + 1
    /\ admin' = "idle" /\ todo' = {} /\ target' = Nobody /\ plan' = {}
    /\ UNCHANGED <<fileVars, keyFile, loopVars, keysOut, objectOut, relayVars, ghostVars>>

\* A session up to its history outbox, approvals apart.
RoundStep == Synchronize \/ LoadPolicy \/ RoundRefused \/ FlushOutbox \/ OutboxRefused

-----------------------------------------------------------------------------
Next ==
    \/ Connect \/ ReadApprovals \/ PublishEpoch \/ PublishFrame \/ RecordKey
    \/ PublishCursor \/ EndFrame \/ Drop
    \/ RelayEnvelope \/ RelayObject \/ RelayClose \/ Evict
    \/ Purge \/ RoundStep
    \/ \E vs \in SUBSET Viewers : Approve(vs)
    \/ \E v \in Viewers : Revoke(v) \/ LoadKeys(v)
    \/ SendKey \/ QuotaRefuses \/ Confirm \/ DeliveryFails \/ EndSession \/ SessionFails

Spec == Init /\ [][Next]_vars

AdminStep ==
    \/ Synchronize \/ LoadPolicy \/ FlushOutbox \/ OutboxRefused
    \/ (\E vs \in SUBSET Viewers : Approve(vs)) \/ (\E v \in Viewers : LoadKeys(v))
    \/ SendKey \/ Confirm \/ EndSession

\* The worker runs a round every second, and a session's own steps are taken.
FairSpec == Spec /\ WF_vars(AdminStep)

-----------------------------------------------------------------------------
(* Properties *)

TypeOK ==
    /\ approvedFile \in SUBSET Viewers /\ revokedFile \in SUBSET Viewers
    /\ historyOutbox \in SUBSET Viewers
    /\ pairing \in {"clear", "queued", "purged"}
    /\ admin \in {"idle", "open", "loaded", "refresh", "decided", "flush", "send"}
    /\ todo \in SUBSET Viewers
    /\ target \in Viewers \cup {Nobody}
    /\ plan \in SUBSET Groups
    /\ keyFile \in SUBSET RetainedKey /\ keyHistory \in SUBSET RetainedKey
    /\ pc \in {"down", "read", "capture", "epoch", "media", "cursor"}
    /\ epoch \in 0..MaxEpoch /\ group \in 0..MaxFrames
    /\ sequence \in Nat /\ frame \in 0..MaxFrames
    /\ starts \in BOOLEAN
    /\ approved \in SUBSET Viewers
    /\ clock \in Times
    /\ keysOut \in SUBSET Viewers
    /\ objectOut \in {"none", "epoch", "media", "cursor"}
    /\ committed \in Nat
    /\ retained \in SUBSET Groups /\ published \in SUBSET retained
    /\ envelopes \in SUBSET (Groups \X Viewers)
    /\ faults \in 0..MaxFaults
    /\ seen \in SUBSET Viewers
    /\ denied \in [Groups -> SUBSET Viewers]
    /\ openAt \in [Viewers -> Groups \cup {NoGroup}]

\* However approvals, revocations, deliveries and frames interleave, the key of
\* a group the loop opened after it had read a revocation is never sealed for
\* the revoked viewer, by neither the live path nor a late history delivery.
RevokedNeverKeyed == \A e \in envelopes : e[2] \notin denied[e[1]]

\* The sequence and group the publisher seals next are the ones the relay will
\* accept, also after a connection was lost with objects in flight; otherwise
\* every reconnect would be refused again.
NeverRefused == objectOut # "none" => Accepts

\* Media is published only under keys that survive a crash: the key of every
\* retained group with media is in key-history.bin unless it was pruned there,
\* and pruning takes the oldest keys first.
PublishedKeysDurable ==
    \A g \in published :
        \/ \E k \in keyFile : k.group = g
        \/ \A k \in keyFile : Newer(k.group, g)

\* Once a grant has left the outbox its viewer can open every retained group
\* whose key the publisher still offers, whether history delivery or the live
\* path brought it.  The only exception is the group whose first frame was
\* under way when the viewer was approved.
DeliveredGrantsComplete ==
    \A v \in approvedFile \ historyOutbox :
        \A k \in keyFile :
            k.bytes > 0 /\ k.group \in retained \ {openAt[v]} => <<k.group, v>> \in envelopes

\* publish_history_groups leaves out a group without content: "A mid-rotation
\* group is delivered moments later by the live path".
MidRotationDelivered ==
    \A v \in approved \cap approvedFile :
        (openAt[v] \in published /\ keysOut = {}) => <<openAt[v], v>> \in envelopes

\* README: after a revocation "an active publisher rotates the group key and
\* forces a new IDR before publishing more".  Read for a frame that started
\* after the revocation: its objects are under a key the viewer does not have.
RevocationRotates ==
    objectOut # "none" => \A v \in seen : <<Current, v>> \notin envelopes

\* Every grant's retained keys are delivered in the end, or the grant is
\* revoked, if from some time on neither policy nor inbox fails a round, no
\* queued offer or decision is refused and no quota is full: failed deliveries
\* are retried and an evicted group does not stop the others.
OutboxDrains ==
    <>[][~(RoundRefused \/ OutboxRefused \/ QuotaRefuses)]_vars =>
        \A v \in Viewers : v \in historyOutbox ~> v \notin historyOutbox
=============================================================================
