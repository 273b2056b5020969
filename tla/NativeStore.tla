----------------------------- MODULE NativeStore -----------------------------
(***************************************************************************)
(* The relay's durable store of opaque stream objects, keyframe groups and *)
(* viewer key envelopes (crates/relay/src/native_store.rs).                *)
(*                                                                         *)
(* Every public operation runs as one IMMEDIATE SQLite transaction under   *)
(* one mutex, so each is one action here.  An operation that returns an    *)
(* error rolls its transaction back: it changes nothing and is a           *)
(* stuttering step, which is why an action is guarded by the conditions    *)
(* under which the code commits.  The rows are durable, so a crash between *)
(* two operations is a stuttering step as well.                            *)
(*                                                                         *)
(* Two objects (or two envelopes) are equal exactly when their encodings   *)
(* are byte-identical; signatures are taken to be unforgeable, so an       *)
(* object carries the identity that signed it.                             *)
(***************************************************************************)
EXTENDS Integers, FiniteSets, FiniteSetsExt

CONSTANTS
    Streams,                  \* stream ids
    Publishers,               \* publisher identities
    Recipients,               \* viewer identities
    Epochs,                   \* epoch ids
    KeyGroups,                \* key-group numbers a publisher uses
    KeyIds,                   \* content-key ids
    Timestamps,               \* media timestamps
    Times,                    \* wall-clock readings (milliseconds)
    Sizes,                    \* encoded lengths
    Shapes,                   \* the kinds of object (a subset of ValidShapes)
    DescriptorBodies,         \* the replaceable metadata of a descriptor
    MaxSequence,              \* largest sequence the INTEGER column can hold
    RetentionBytes,           \* per-stream byte retention, or None
    RetentionAge,             \* per-stream age retention, or None
    MaxStreams, MaxStreamsPerPublisher, MaxObjectsPerGroup, MaxGroupBytes,
    MaxEnvelopesPerGroup, MaxTotalBytes, MaxPublisherBytes,
    None                      \* SQL NULL and Rust's None

\* Header combinations that validate_header lets through: an epoch object is
\* always random access, a cursor object never.
ValidShapes ==
    {[kind |-> "Epoch",  random_access |-> TRUE],
     [kind |-> "Media",  random_access |-> TRUE],
     [kind |-> "Media",  random_access |-> FALSE],
     [kind |-> "Cursor", random_access |-> FALSE]}

\* Identifiers, numbers and clocks have the ranges of their wire types.
ASSUME DataAssumption ==
    /\ KeyGroups \subseteq Nat \ {0}
    /\ Timestamps \subseteq Nat
    /\ Times \subseteq Int
    /\ Sizes \subseteq Nat \ {0}
    /\ Shapes \subseteq ValidShapes
    /\ MaxSequence \in Nat
    /\ None \notin Publishers \cup (Epochs \X KeyGroups)
    /\ None \notin [publisher : Publishers, body : DescriptorBodies]

\* A stream id is a UUID, so there are finitely many.
ASSUME StreamsAssumption == IsFiniteSet(Streams)

\* open_with_limits refuses zero or inconsistent limits.
ASSUME LimitAssumption ==
    /\ RetentionBytes \in (Nat \ {0}) \cup {None}
    /\ RetentionAge \in (Nat \ {0}) \cup {None}
    /\ {MaxStreams, MaxStreamsPerPublisher, MaxObjectsPerGroup, MaxGroupBytes,
        MaxEnvelopesPerGroup, MaxTotalBytes, MaxPublisherBytes}
            \subseteq Nat \ {0}
    /\ MaxStreamsPerPublisher <= MaxStreams
    /\ MaxPublisherBytes <= MaxTotalBytes

VARIABLES
    publisher_id,   \* streams.publisher_id, None when the stream has no row
    descriptor,     \* streams.descriptor, None when the stream has no row
    high_water,     \* streams.high_water
    active,         \* streams.(active_epoch, active_group), or None
    groups,         \* groups[s]: the rows of table groups for stream s
    objects,        \* objects[s]: the rows of table objects for stream s
    envelopes       \* envelopes[s]: the rows of table envelopes for stream s

storeVars == <<publisher_id, descriptor, high_water, active,
               groups, objects, envelopes>>

-----------------------------------------------------------------------------
(* Rows *)

GroupIds == Epochs \X KeyGroups

Descriptors == [publisher : Publishers, body : DescriptorBodies]

SequenceNumbers == 1..MaxSequence

Group == [id : GroupIds, key_id : KeyIds,
          first_sequence : SequenceNumbers, last_sequence : SequenceNumbers,
          first_timestamp : Timestamps, last_timestamp : Timestamps,
          received_last_ms : Times, retained_bytes : Nat,
          complete : BOOLEAN]

Object == [publisher : Publishers, group : GroupIds, key_id : KeyIds,
           sequence : SequenceNumbers, timestamp : Timestamps,
           shape : Shapes, bytes : Sizes]

Envelope == [publisher : Publishers, group : GroupIds, key_id : KeyIds,
             recipient : Recipients, bytes : Sizes]

TypeOK ==
    /\ publisher_id \in [Streams -> Publishers \cup {None}]
    /\ descriptor \in [Streams -> Descriptors \cup {None}]
    /\ high_water \in [Streams -> 0..MaxSequence]
    /\ active \in [Streams -> GroupIds \cup {None}]
    /\ groups \in [Streams -> SUBSET Group]
    /\ objects \in [Streams -> SUBSET Object]
    /\ envelopes \in [Streams -> SUBSET Envelope]

Init ==
    /\ publisher_id = [s \in Streams |-> None]
    /\ descriptor = [s \in Streams |-> None]
    /\ high_water = [s \in Streams |-> 0]
    /\ active = [s \in Streams |-> None]
    /\ groups = [s \in Streams |-> {}]
    /\ objects = [s \in Streams |-> {}]
    /\ envelopes = [s \in Streams |-> {}]

-----------------------------------------------------------------------------
(* Byte accounting and hard limits *)

\* SUM(retained_bytes) over a set of group rows.
RetainedBytes(gs) == MapThenSumSet(LAMBDA g : g.retained_bytes, gs)

\* SUM(retained_bytes) over the groups of a set of streams.
StreamsBytes(S) == MapThenSumSet(LAMBDA s : RetainedBytes(groups[s]), S)

PublisherStreams(p) == {s \in Streams : publisher_id[s] = p}

\* check_group_growth: one more item of the given size fits the group g of
\* stream s, whose table already holds the items in the set "items".
CheckGroupGrowth(s, g, items, itemLimit, added) ==
    /\ Cardinality({i \in items : i.group = g.id}) < itemLimit
    /\ g.retained_bytes + added <= MaxGroupBytes
    /\ StreamsBytes(Streams) + added <= MaxTotalBytes
    /\ StreamsBytes(PublisherStreams(descriptor[s].publisher)) + added
            <= MaxPublisherBytes

-----------------------------------------------------------------------------
(* Retention *)

\* Mutant: the active group's bytes are left out of the byte limit.
ExceededCompleteOnly(gs, g, now) ==
    \/ /\ RetentionBytes # None
       /\ RetainedBytes({h \in gs : h.complete /\
                                h.first_sequence >= g.first_sequence})
                > RetentionBytes
    \/ /\ RetentionAge # None
       /\ g.received_last_ms < now - RetentionAge

\* Group g has its turn in the eviction loop: every complete group before it
\* is gone and it is the oldest complete one left.
Exceeded(gs, g, now) ==
    \/ /\ RetentionBytes # None
       /\ RetainedBytes({h \in gs : h.complete =>
                                h.first_sequence >= g.first_sequence})
                > RetentionBytes
    \/ /\ RetentionAge # None
       /\ g.received_last_ms < now - RetentionAge

\* Mutant: the loop picks the newest complete group.
EvictedNewestFirst(gs, now) ==
    {g \in gs : /\ g.complete
                /\ \A h \in gs :
                      h.complete /\ h.first_sequence >= g.first_sequence
                        => Exceeded(gs, h, now)}

\* enforce_retention: the loop deletes the oldest complete group until neither
\* limit is exceeded, so it deletes the complete groups whose predecessors
\* and which themselves are found exceeded.
Evicted(gs, now) ==
    {g \in gs : /\ g.complete
                /\ \A h \in gs :
                      h.complete /\ h.first_sequence <= g.first_sequence
                        => Exceeded(gs, h, now)}

\* Mutant: rows are deleted by epoch, as if it named the group.
CascadeEpoch(rows, deleted) == {r \in rows : \A g \in deleted : g.id[1] # r.group[1]}

\* ON DELETE CASCADE: the objects or envelopes left when groups are deleted.
Cascade(rows, deleted) == {r \in rows : \A g \in deleted : g.id # r.group}

\* The end of a transaction on stream s that wrote the rows gs, os and es:
\* enforce_retention and the commit.
CommitWithRetention(s, gs, os, es, now) ==
    LET evicted == Evicted(gs, now)
    IN  /\ groups' = [groups EXCEPT ![s] = gs \ evicted]
        /\ objects' = [objects EXCEPT ![s] = Cascade(os, evicted)]
        /\ envelopes' = [envelopes EXCEPT ![s] = Cascade(es, evicted)]

-----------------------------------------------------------------------------
(* put_descriptor *)

\* Mutant: the upsert does not compare the owner.
ReplaceAnyDescriptor(s, d) ==
    /\ publisher_id[s] # None
    /\ descriptor' = [descriptor EXCEPT ![s] = d]
    /\ UNCHANGED <<publisher_id, high_water, active, groups, objects, envelopes>>

\* A stream that has a row keeps its owner; its metadata is replaced.
ReplaceDescriptor(s, d) ==
    /\ publisher_id[s] # None
    /\ publisher_id[s] = d.publisher
    /\ descriptor' = [descriptor EXCEPT ![s] = d]
    /\ UNCHANGED <<publisher_id, high_water, active, groups, objects, envelopes>>

\* A new stream is inserted while both stream limits allow it.
InsertDescriptor(s, d) ==
    /\ publisher_id[s] = None
    /\ Cardinality({t \in Streams : publisher_id[t] # None}) < MaxStreams
    /\ Cardinality(PublisherStreams(d.publisher)) < MaxStreamsPerPublisher
    /\ publisher_id' = [publisher_id EXCEPT ![s] = d.publisher]
    /\ descriptor' = [descriptor EXCEPT ![s] = d]
    /\ UNCHANGED <<high_water, active, groups, objects, envelopes>>

PutDescriptor(s, d) == ReplaceDescriptor(s, d) \/ InsertDescriptor(s, d)

-----------------------------------------------------------------------------
(* store_object *)

\* The stream has a descriptor and its publisher signed the item.
Verified(s, item) ==
    /\ descriptor[s] # None
    /\ item.publisher = descriptor[s].publisher

Stored(s, sequence) == \E x \in objects[s] : x.sequence = sequence

\* A byte-identical retry of a retained object: acknowledged, nothing stored.
IsRetry(s, o) == Verified(s, o) /\ o \in objects[s]

\* Mutant: an absent sequence is accepted wherever it lies.
AnySequence(s, o) == Verified(s, o) /\ ~ Stored(s, o.sequence)

\* The object is new, signed and the next in sequence.
InSequence(s, o) ==
    /\ Verified(s, o)
    /\ ~ Stored(s, o.sequence)
    /\ o.sequence = high_water[s] + 1

\* Mutant: a group may start with any object.
ProgressionByNumberOnly(s, o) ==
    /\ active[s] # None /\ active[s][1] = o.group[1]
            => o.group[2] > active[s][2]
    /\ \A g \in groups[s] : g.id # o.group

\* validate_group_progression, and the primary key of table groups, which
\* refuses a group id that is still retained.
ValidateGroupProgression(s, o) ==
    /\ active[s] # None /\ active[s][1] = o.group[1]
            => o.group[2] > active[s][2]
    /\ o.shape.kind # "Cursor"
    /\ o.shape.random_access
    /\ \A g \in groups[s] : g.id # o.group

\* The row of the group that object o starts.
NewGroup(o, now) ==
    [id |-> o.group, key_id |-> o.key_id,
     first_sequence |-> o.sequence, last_sequence |-> o.sequence,
     first_timestamp |-> o.timestamp, last_timestamp |-> o.timestamp,
     received_last_ms |-> now, retained_bytes |-> o.bytes,
     complete |-> FALSE]

\* The group row g after object o is appended to it.
Extended(g, o, now) ==
    [g EXCEPT !.last_sequence = o.sequence,
              !.last_timestamp = o.timestamp,
              !.received_last_ms = Max({@, now}),
              !.retained_bytes = @ + o.bytes]

\* UPDATE groups SET complete = 1 for the group "id" (no row when id is None).
MarkComplete(g, id) == [g EXCEPT !.complete = @ \/ g.id = id]

\* Mutant: the previous group is left incomplete.
NeverCompleted(gs, id) == gs

\* The group rows gs after that UPDATE.
Completed(gs, id) == {MarkComplete(g, id) : g \in gs}

\* Mutant: the mark is set one past the object.
StoreFirstOffByOne(s, o, now) ==
    /\ InSequence(s, o)
    /\ active[s] # o.group
    /\ ValidateGroupProgression(s, o)
    /\ CheckGroupGrowth(s, [NewGroup(o, now) EXCEPT !.retained_bytes = 0],
                        objects[s], MaxObjectsPerGroup, o.bytes)
    /\ active' = [active EXCEPT ![s] = o.group]
    /\ high_water' = [high_water EXCEPT ![s] = o.sequence + 1]
    /\ CommitWithRetention(s,
            Completed(groups[s], active[s]) \cup {NewGroup(o, now)},
            objects[s] \cup {o}, envelopes[s], now)
    /\ UNCHANGED <<publisher_id, descriptor>>

\* An object that opens a group: the previous active group becomes complete
\* in the same transaction.
StoreFirstObject(s, o, now) ==
    /\ InSequence(s, o)
    /\ active[s] # o.group
    /\ ValidateGroupProgression(s, o)
    /\ CheckGroupGrowth(s, [NewGroup(o, now) EXCEPT !.retained_bytes = 0],
                        objects[s], MaxObjectsPerGroup, o.bytes)
    /\ active' = [active EXCEPT ![s] = o.group]
    /\ high_water' = [high_water EXCEPT ![s] = o.sequence]
    /\ CommitWithRetention(s,
            Completed(groups[s], active[s]) \cup {NewGroup(o, now)},
            objects[s] \cup {o}, envelopes[s], now)
    /\ UNCHANGED <<publisher_id, descriptor>>

\* An object of the active group: same content key, and the table's CHECK
\* refuses a timestamp before the group's first.
StoreNextObject(s, o, now) ==
    /\ InSequence(s, o)
    /\ active[s] = o.group
    /\ \E g \in groups[s] :
        /\ g.id = o.group
        /\ g.key_id = o.key_id
        /\ o.timestamp >= g.first_timestamp
        /\ CheckGroupGrowth(s, g, objects[s], MaxObjectsPerGroup, o.bytes)
        /\ CommitWithRetention(s,
                (groups[s] \ {g}) \cup {Extended(g, o, now)},
                objects[s] \cup {o}, envelopes[s], now)
    /\ high_water' = [high_water EXCEPT ![s] = o.sequence]
    /\ UNCHANGED <<publisher_id, descriptor, active>>

StoreObject(s, o, now) == StoreFirstObject(s, o, now) \/ StoreNextObject(s, o, now)

-----------------------------------------------------------------------------
(* store_envelope *)

\* Mutant: the envelope's key is not compared with the group's.
NeverContradicts(s, e) == FALSE

\* The group is retained under another key: the envelope is refused.
ContradictsGroup(s, e) ==
    \E g \in groups[s] : g.id = e.group /\ g.key_id # e.key_id

\* A second envelope of the group for the same recipient: the stored one stays.
HasEnvelope(s, e) ==
    \E x \in envelopes[s] : x.group = e.group /\ x.recipient = e.recipient

\* Mutant: an envelope's bytes are not charged to its group.
NotCharged(g, bytes) == g

\* The group row g after an envelope is added to it.
Charged(g, bytes) == [g EXCEPT !.retained_bytes = @ + bytes]

\* An envelope of a retained group without one for this recipient.  With no
\* such group, or with one stored already, the code reports success and
\* stores nothing.
StoreEnvelope(s, e, now) ==
    /\ Verified(s, e)
    /\ ~ ContradictsGroup(s, e)
    /\ ~ HasEnvelope(s, e)
    /\ \E g \in groups[s] :
        /\ g.id = e.group
        /\ CheckGroupGrowth(s, g, envelopes[s], MaxEnvelopesPerGroup, e.bytes)
        /\ CommitWithRetention(s,
                (groups[s] \ {g}) \cup {Charged(g, e.bytes)},
                objects[s], envelopes[s] \cup {e}, now)
    /\ UNCHANGED <<publisher_id, descriptor, high_water, active>>

-----------------------------------------------------------------------------
(* Periodic retention and the end of a publisher session *)

\* enforce_retention_at: every stream in one transaction.
EnforceRetentionAt(now) ==
    /\ groups' = [s \in Streams |-> groups[s] \ Evicted(groups[s], now)]
    /\ objects' = [s \in Streams |->
                        Cascade(objects[s], Evicted(groups[s], now))]
    /\ envelopes' = [s \in Streams |->
                        Cascade(envelopes[s], Evicted(groups[s], now))]
    /\ UNCHANGED <<publisher_id, descriptor, high_water, active>>

\* finalize_stream: the active group becomes complete history.
FinalizeStream(s) ==
    /\ active[s] # None
    /\ groups' = [groups EXCEPT ![s] = Completed(@, active[s])]
    /\ active' = [active EXCEPT ![s] = None]
    /\ UNCHANGED <<publisher_id, descriptor, high_water, objects, envelopes>>

-----------------------------------------------------------------------------
(* Reads: where a subscription starts, and what the catalog advertises *)

NextLive(s) == high_water[s] + 1

CompleteGroups(s) == {g \in groups[s] : g.complete}

\* The first sequences of a set of group rows.
Starts(gs) == {g.first_sequence : g \in gs}

\* The newest of the groups whose first timestamp is the latest one not after
\* ts: ORDER BY first_timestamp DESC, first_sequence DESC.
TimestampGroups(s, ts) ==
    LET before == {g \in groups[s] : g.first_timestamp <= ts}
    IN  {g \in before : \A h \in before : h.first_timestamp <= g.first_timestamp}

\* subscription_anchor for each SubscriptionStart.
LiveAnchor(s) ==
    IF groups[s] = {} THEN NextLive(s) ELSE Max(Starts(groups[s]))

OldestRetainedAnchor(s) ==
    IF CompleteGroups(s) = {} THEN NextLive(s) ELSE Min(Starts(CompleteGroups(s)))

\* Mutant: the requested sequence is taken as it is.
SequenceAsRequested(s, n) == IF n > high_water[s] THEN NextLive(s) ELSE n

SequenceAnchor(s, n) ==
    LET before == {f \in Starts(groups[s]) : f <= n}
    IN  IF before = {} THEN NextLive(s) ELSE Max(before)

TimestampAnchor(s, ts) ==
    IF TimestampGroups(s, ts) = {} THEN NextLive(s)
    ELSE Max(Starts(TimestampGroups(s, ts)))

\* retained_bounds: the extent of the complete groups, when there are any.
RetainedBounds(s) ==
    [oldest_sequence  |-> Min(Starts(CompleteGroups(s))),
     newest_sequence  |-> Max({g.last_sequence : g \in CompleteGroups(s)}),
     oldest_timestamp |-> Min({g.first_timestamp : g \in CompleteGroups(s)}),
     newest_timestamp |-> Max({g.last_timestamp : g \in CompleteGroups(s)})]

-----------------------------------------------------------------------------
Next ==
    \/ \E s \in Streams, d \in Descriptors : PutDescriptor(s, d)
    \/ \E s \in Streams, o \in Object, now \in Times : StoreObject(s, o, now)
    \/ \E s \in Streams, e \in Envelope, now \in Times : StoreEnvelope(s, e, now)
    \/ \E now \in Times : EnforceRetentionAt(now)
    \/ \E s \in Streams : FinalizeStream(s)

Spec == Init /\ [][Next]_storeVars

-----------------------------------------------------------------------------
(* Properties: what one stream's rows gs, os, es look like between two       *)
(* transactions, given its high-water mark hw and its active group act.      *)

\* The retained groups partition an interval of sequences that ends at hw.
GroupsTile(gs, hw) ==
    /\ \A g \in gs : g.first_sequence <= g.last_sequence /\ g.last_sequence <= hw
    /\ \A g, h \in gs : g # h =>
            /\ g.id # h.id
            /\ \/ g.last_sequence < h.first_sequence
               \/ h.last_sequence < g.first_sequence
    /\ \A g \in gs : \A n \in g.first_sequence..hw :
            \E h \in gs : h.first_sequence <= n /\ n <= h.last_sequence

\* A group holds exactly one object for each sequence of its range.
ObjectsFill(gs, os) ==
    /\ \A o \in os : \E g \in gs :
            /\ g.id = o.group
            /\ g.first_sequence <= o.sequence /\ o.sequence <= g.last_sequence
    /\ \A g \in gs : \A n \in g.first_sequence..g.last_sequence :
            \E o \in os : o.sequence = n /\ o.group = g.id
    /\ \A o, p \in os : o.sequence = p.sequence => o = p

\* A group starts with a random-access video object.
GroupStartsDecodable(gs, os) ==
    \A g \in gs, o \in os : o.sequence = g.first_sequence =>
        o.shape.random_access /\ o.shape.kind # "Cursor"

\* The active group is the only incomplete one and ends at hw.
ActiveIsNewest(gs, hw, act) ==
    /\ \A g \in gs : g.complete <=> g.id # act
    /\ act # None => \E g \in gs : g.id = act /\ g.last_sequence = hw

\* Every object and envelope of a group is under the group's one key, and an
\* envelope has its group.
KeysAgree(gs, os, es) ==
    /\ \A g \in gs : \A r \in os \cup es : r.group = g.id => r.key_id = g.key_id
    /\ \A e \in es : \E g \in gs : g.id = e.group
    /\ \A e, f \in es : e.group = f.group /\ e.recipient = f.recipient => e = f

\* What a replay reads is gapless: the retained objects of a stream are an
\* interval of sequences that ends at its high-water mark and is split into
\* whole groups, after any mix of commits, evictions and finalizations.
\* ("Sequences are immutable and contiguous", native_store.rs:304.)
RetainedHistoryGapless ==
    \A s \in Streams : /\ GroupsTile(groups[s], high_water[s])
                       /\ ObjectsFill(groups[s], objects[s])

\* A viewer that starts at any retained group boundary can decode: eviction
\* and reconnects never leave a group whose first object is not a
\* random-access video object (validate_group_progression).
GroupsDecodable ==
    \A s \in Streams : GroupStartsDecodable(groups[s], objects[s])

\* The group a publisher is writing is the newest, the only incomplete one,
\* and is never taken by retention ("the active incomplete group is never
\* selected as retained history", native_store.rs:137).
ActiveGroupIsNewest ==
    \A s \in Streams : ActiveIsNewest(groups[s], high_water[s], active[s])

\* A retained group is under one content key, and no envelope is kept for a
\* group that is gone: a viewer's key for a group opens all of it.
KeysMatchGroups ==
    \A s \in Streams : KeysAgree(groups[s], objects[s], envelopes[s])

\* A stream's rows all belong to the identity that created it, the one whose
\* quota they are charged to.
OwnerBinding ==
    \A s \in Streams :
        /\ descriptor[s] = None <=> publisher_id[s] = None
        /\ descriptor[s] # None => descriptor[s].publisher = publisher_id[s]
        /\ \A r \in objects[s] \cup envelopes[s] : r.publisher = publisher_id[s]

StoredBytes(S) ==
    MapThenSumSet(LAMBDA s : MapThenSumSet(LAMBDA o : o.bytes, objects[s])
                           + MapThenSumSet(LAMBDA e : e.bytes, envelopes[s]), S)

\* The bytes really held, not the counters the code keeps of them, stay
\* within the relay's and every publisher's quota although the counters are
\* split over groups, streams and two tables.
StoredBytesWithinQuota ==
    /\ StoredBytes(Streams) <= MaxTotalBytes
    /\ \A p \in Publishers :
            StoredBytes(PublisherStreams(p)) <= MaxPublisherBytes

NothingRewritten ==
    \A s \in Streams :
        /\ high_water[s] <= high_water'[s]
        /\ \A o \in objects'[s] \ objects[s] : o.sequence > high_water[s]

\* A committed sequence is never rewritten nor reused, not even after its
\* group was evicted: what is new in a step lies above the old mark.
HistoryImmutable == [][NothingRewritten]_storeVars

Kept(s, id) == \E g \in groups[s] : g.id = id

OldestGoFirst ==
    \A s \in Streams :
        /\ \A g \in groups[s] : ~ Kept(s, g.id)' =>
                \A k \in groups'[s] : g.last_sequence < k.first_sequence
        /\ \A r \in objects[s] : Kept(s, r.group)' => r \in objects'[s]
        /\ \A r \in envelopes[s] : Kept(s, r.group)' => r \in envelopes'[s]

\* Retention removes whole groups, oldest first: no group older than a removed
\* one survives the step, and an object or an envelope leaves only together
\* with its group ("they cannot outlive or disappear before their ciphertext
\* group", native_store.rs:5).
EvictsOldestFirst == [][OldestGoFirst]_storeVars

\* What the periodic retention would leave of a stream at any time: nothing
\* complete while the byte limit is exceeded, no overdue oldest group, and
\* not one group less than that takes.
RetentionIsExact ==
    \A s \in Streams, now \in Times :
        LET gone == Evicted(groups[s], now)
            kept == groups[s] \ gone
            Overdue(g) == RetentionAge # None
                            /\ g.received_last_ms + RetentionAge < now
            Heavy(gs) == RetentionBytes # None
                            /\ RetainedBytes(gs) > RetentionBytes
            old == {g \in kept : g.complete}
        IN  /\ Heavy(kept) => old = {}
            /\ \A g \in old : g.first_sequence = Min(Starts(old)) => ~ Overdue(g)
            /\ \A g \in gone : g.first_sequence = Max(Starts(gone)) =>
                    Overdue(g) \/ Heavy(kept \cup {g})

\* Every subscription starts where a decoder can: at a retained group's
\* random-access object with everything up to the high-water mark behind it,
\* or at the next live sequence.
AnchorsReplayable ==
    \A s \in Streams :
        \A a \in {LiveAnchor(s), OldestRetainedAnchor(s)}
                \cup {SequenceAnchor(s, n) : n \in 0..MaxSequence + 1}
                \cup {TimestampAnchor(s, ts) : ts \in Timestamps} :
            \/ a = NextLive(s)
            \/ /\ \E o \in objects[s] : o.sequence = a /\ o.shape.random_access
               /\ \A n \in a..high_water[s] : Stored(s, n)

\* Whatever sequence a viewer picks in the range the catalog advertises, it is
\* anchored at the group that holds that sequence, and the oldest retained
\* start is the range's first sequence.  The range is read from the complete
\* groups and the anchor from all of them (retained_bounds and
\* subscription_anchor).
AdvertisedRangeSeekable ==
    \A s \in {t \in Streams : CompleteGroups(t) # {}} :
        LET bounds == RetainedBounds(s)
        IN  /\ OldestRetainedAnchor(s) = bounds.oldest_sequence
            /\ \A n \in bounds.oldest_sequence..bounds.newest_sequence :
                \E g \in groups[s] :
                    /\ g.first_sequence = SequenceAnchor(s, n)
                    /\ n <= g.last_sequence

\* "Explicit sequence/time starts select the containing or immediately
\* preceding group, falling back to the oldest complete retained group"
\* (native_store.rs:902).
AnchorFallsBackToOldest ==
    \A s \in {t \in Streams : CompleteGroups(t) # {}}, n \in 1..MaxSequence :
        (\A g \in groups[s] : g.first_sequence > n)
            => SequenceAnchor(s, n) = OldestRetainedAnchor(s)

=============================================================================
