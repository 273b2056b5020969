-------------------------- MODULE NativeStoreProofs --------------------------
(***************************************************************************)
(* Proofs about NativeStore, for every set of streams, publishers, epochs, *)
(* keys and every limit.                                                   *)
(*                                                                         *)
(* The safety properties of one stream are proved together: their          *)
(* conjunction Consistent is what a transaction needs to find and has to   *)
(* leave behind.  A transaction is a change of the rows followed by        *)
(* enforce_retention, so there is one lemma per change and one for the     *)
(* eviction.                                                               *)
(***************************************************************************)
EXTENDS NativeStore, SumTheorems

\* Everything the store promises of the rows of one stream.
Consistent(gs, os, es, hw, act) ==
    /\ GroupsTile(gs, hw)
    /\ ObjectsFill(gs, os)
    /\ GroupStartsDecodable(gs, os)
    /\ ActiveIsNewest(gs, hw, act)
    /\ KeysAgree(gs, os, es)

StoreConsistent ==
    \A s \in Streams :
        Consistent(groups[s], objects[s], envelopes[s], high_water[s], active[s])

\* The larger of two clock readings is one of them (received_last_ms is MAX).
LEMMA MaxOfTwo ==
    ASSUME NEW a \in Int, NEW b \in Int
    PROVE  Max({a, b}) \in {a, b}
<1>1. \E x \in {a, b} : \A y \in {a, b} : x >= y
  OBVIOUS
<1>2. QED
  BY <1>1 DEF Max

\* Appending an object changes the four fields the UPDATE sets and no other.
LEMMA ExtendedFields ==
    ASSUME NEW g \in Group, NEW o \in Object, NEW now \in Times
    PROVE  /\ Extended(g, o, now) \in Group
           /\ Extended(g, o, now).id = g.id
           /\ Extended(g, o, now).key_id = g.key_id
           /\ Extended(g, o, now).complete = g.complete
           /\ Extended(g, o, now).first_sequence = g.first_sequence
           /\ Extended(g, o, now).last_sequence = o.sequence
           /\ Extended(g, o, now).retained_bytes = g.retained_bytes + o.bytes
<1>1. Max({g.received_last_ms, now}) \in Times
  <2>1. g.received_last_ms \in Times /\ Times \subseteq Int
    BY DataAssumption DEF Group
  <2>2. QED
    BY <2>1, MaxOfTwo
<1>2. g.retained_bytes + o.bytes \in Nat
  <2>1. g.retained_bytes \in Nat
    BY DEF Group
  <2>2. o.bytes \in Nat
    BY DataAssumption DEF Object
  <2>3. QED
    BY <2>1, <2>2
<1>3. QED
  BY <1>1, <1>2 DEF Extended, Group, Object

\* Marking a group complete touches only that flag.
LEMMA MarkedRow ==
    ASSUME NEW g \in Group, NEW id
    PROVE  /\ MarkComplete(g, id) \in Group
           /\ MarkComplete(g, id).id = g.id
           /\ MarkComplete(g, id).key_id = g.key_id
           /\ MarkComplete(g, id).first_sequence = g.first_sequence
           /\ MarkComplete(g, id).last_sequence = g.last_sequence
           /\ MarkComplete(g, id).complete = (g.complete \/ g.id = id)
           /\ MarkComplete(g, id).retained_bytes = g.retained_bytes
<1>1. (g.complete \/ g.id = id) \in BOOLEAN
  BY DEF Group
<1>2. QED
  BY <1>1 DEF MarkComplete, Group

\* Storing an envelope changes the byte count of its group only.
LEMMA ChargedFields ==
    ASSUME NEW g \in Group, NEW bytes \in Sizes
    PROVE  /\ Charged(g, bytes) \in Group
           /\ Charged(g, bytes).id = g.id
           /\ Charged(g, bytes).key_id = g.key_id
           /\ Charged(g, bytes).complete = g.complete
           /\ Charged(g, bytes).first_sequence = g.first_sequence
           /\ Charged(g, bytes).last_sequence = g.last_sequence
           /\ Charged(g, bytes).retained_bytes = g.retained_bytes + bytes
<1>1. g.retained_bytes + bytes \in Nat
  <2>1. g.retained_bytes \in Nat
    BY DEF Group
  <2>2. bytes \in Nat
    BY DataAssumption
  <2>3. QED
    BY <2>1, <2>2
<1>2. QED
  BY <1>1 DEF Charged, Group

\* The row a first object inserts is a group row.
LEMMA NewGroupRow ==
    ASSUME NEW o \in Object, NEW now \in Times
    PROVE  NewGroup(o, now) \in Group
BY DataAssumption DEF NewGroup, Group, Object

-----------------------------------------------------------------------------
(* Retention *)

\* What enforce_retention deletes is complete and older than all that stays.
LEMMA EvictedIsPrefix ==
    ASSUME NEW gs \in SUBSET Group, NEW hw \in Nat, NEW act, NEW now \in Times,
           GroupsTile(gs, hw), ActiveIsNewest(gs, hw, act),
           NEW g \in Evicted(gs, now), NEW k \in gs \ Evicted(gs, now)
    PROVE  g.complete /\ g.last_sequence < k.first_sequence
<1>1. g \in gs /\ k \in gs /\ g # k /\ g.complete
  BY DEF Evicted
<1>2. /\ g.first_sequence \in Nat /\ g.last_sequence \in Nat
      /\ k.first_sequence \in Nat /\ k.last_sequence \in Nat
  BY <1>1 DEF Group, SequenceNumbers
<1>3. CASE k.complete
  <2>1. ~ (k.first_sequence <= g.first_sequence)
    <3>1. SUFFICES ASSUME k.first_sequence <= g.first_sequence
                   PROVE  FALSE
      OBVIOUS
    <3>2. PICK h \in gs : h.complete /\ h.first_sequence <= k.first_sequence
                            /\ ~ Exceeded(gs, h, now)
      BY <1>1, <1>3 DEF Evicted
    <3>3. h.first_sequence \in Nat
      BY DEF Group, SequenceNumbers
    <3>4. h.first_sequence <= g.first_sequence
      BY <3>1, <3>2, <3>3, <1>2
    <3>5. QED
      BY <3>2, <3>4 DEF Evicted
  <2>2. QED
    BY <1>1, <1>2, <2>1 DEF GroupsTile
<1>4. CASE ~ k.complete
  <2>1. k.id = act
    BY <1>1, <1>4 DEF ActiveIsNewest, Group
  <2>2. act # None
    <3>1. k.id \in Epochs \X KeyGroups
      BY <1>1 DEF Group, GroupIds
    <3>2. QED
      BY <2>1, <3>1, DataAssumption
  <2>3. k.last_sequence = hw
    BY <1>1, <2>1, <2>2 DEF ActiveIsNewest, GroupsTile
  <2>4. QED
    BY <1>1, <1>2, <2>3 DEF GroupsTile
<1>5. QED
  BY <1>3, <1>4

\* enforce_retention leaves a consistent stream consistent.
LEMMA RetentionKeepsConsistent ==
    ASSUME NEW gs \in SUBSET Group, NEW os \in SUBSET Object,
           NEW es \in SUBSET Envelope, NEW hw \in Nat, NEW act, NEW now \in Times,
           Consistent(gs, os, es, hw, act)
    PROVE  Consistent(gs \ Evicted(gs, now), Cascade(os, Evicted(gs, now)),
                      Cascade(es, Evicted(gs, now)), hw, act)
<1> DEFINE ev == Evicted(gs, now)
           kept == gs \ ev
<1>1. GroupsTile(kept, hw)
  <2>1. ASSUME NEW g \in kept, NEW n \in g.first_sequence..hw
        PROVE  \E h \in kept : h.first_sequence <= n /\ n <= h.last_sequence
    <3>1. PICK h \in gs : h.first_sequence <= n /\ n <= h.last_sequence
      BY DEF Consistent, GroupsTile
    <3>2. h \notin ev
      <4>1. SUFFICES ASSUME h \in ev PROVE FALSE
        OBVIOUS
      <4>2. h.last_sequence < g.first_sequence
        BY <4>1, EvictedIsPrefix DEF Consistent
      <4>3. /\ g.first_sequence \in Nat /\ h.last_sequence \in Nat /\ n \in Int
            /\ g.first_sequence <= n
        BY DEF Group, SequenceNumbers
      <4>4. QED
        BY <3>1, <4>2, <4>3
    <3>3. QED
      BY <3>1, <3>2
  <2>2. QED
    BY <2>1 DEF Consistent, GroupsTile
<1>2. ASSUME NEW g \in kept, NEW h \in ev
      PROVE  g.id # h.id
  BY DEF Consistent, GroupsTile, Evicted
<1>3. ObjectsFill(kept, Cascade(os, ev))
  BY <1>2 DEF Consistent, ObjectsFill, Cascade
<1>4. GroupStartsDecodable(kept, Cascade(os, ev))
  BY DEF Consistent, GroupStartsDecodable, Cascade
<1>5. ActiveIsNewest(kept, hw, act)
  BY DEF Consistent, ActiveIsNewest, Evicted
<1>6. KeysAgree(kept, Cascade(os, ev), Cascade(es, ev))
  BY <1>2 DEF Consistent, KeysAgree, Cascade
<1>7. QED
  BY <1>1, <1>3, <1>4, <1>5, <1>6 DEF Consistent

-----------------------------------------------------------------------------
(* The changes a transaction makes before it runs retention *)

\* Marking the active group complete and clearing it (finalize_stream).
LEMMA CompletionKeepsConsistent ==
    ASSUME NEW gs \in SUBSET Group, NEW os \in SUBSET Object,
           NEW es \in SUBSET Envelope, NEW hw \in Nat, NEW act,
           Consistent(gs, os, es, hw, act)
    PROVE  Consistent(Completed(gs, act), os, es, hw, None)
<1> DEFINE M(g) == MarkComplete(g, act)
           cs == Completed(gs, act)
<1>1. \A g \in gs : /\ M(g) \in cs /\ M(g).id = g.id /\ M(g).key_id = g.key_id
                     /\ M(g).first_sequence = g.first_sequence
                     /\ M(g).last_sequence = g.last_sequence
                     /\ M(g).complete = (g.complete \/ g.id = act)
  BY MarkedRow DEF Completed
<1>2. \A c \in cs : \E g \in gs : c = M(g)
  BY DEF Completed
<1> HIDE DEF M, cs
<1>3. GroupsTile(cs, hw)
  BY <1>1, <1>2 DEF Consistent, GroupsTile
<1>4. ObjectsFill(cs, os)
  BY <1>1, <1>2 DEF Consistent, ObjectsFill
<1>5. GroupStartsDecodable(cs, os)
  BY <1>1, <1>2 DEF Consistent, GroupStartsDecodable
<1>6. ActiveIsNewest(cs, hw, None)
  <2>1. \A g \in gs : g.complete \/ g.id = act
    BY DEF Consistent, ActiveIsNewest
  <2>2. \A g \in gs : g.id # None
    <3>1. \A g \in gs : g.id \in Epochs \X KeyGroups
      BY DEF Group, GroupIds
    <3>2. QED
      BY <3>1, DataAssumption
  <2>3. ASSUME NEW c \in cs
        PROVE  c.complete /\ c.id # None
    <3>1. PICK g \in gs : c = M(g)
      BY <1>2
    <3>2. c.complete = (g.complete \/ g.id = act) /\ c.id = g.id
      BY <1>1, <3>1
    <3>3. QED
      BY <2>1, <2>2, <3>2
  <2>4. QED
    BY <2>3 DEF ActiveIsNewest
<1>7. KeysAgree(cs, os, es)
  BY <1>1, <1>2 DEF Consistent, KeysAgree
<1>8. QED
  BY <1>3, <1>4, <1>5, <1>6, <1>7 DEF Consistent, cs

\* Opening a group right above the high-water mark of a stream whose groups
\* are all complete.
LEMMA OpeningKeepsConsistent ==
    ASSUME NEW gs \in SUBSET Group, NEW os \in SUBSET Object,
           NEW es \in SUBSET Envelope, NEW hw \in Nat, NEW now \in Times,
           NEW o \in Object,
           Consistent(gs, os, es, hw, None),
           o.sequence = hw + 1,
           o.shape.random_access, o.shape.kind # "Cursor",
           \A g \in gs : g.id # o.group
    PROVE  Consistent(gs \cup {NewGroup(o, now)}, os \cup {o}, es,
                      o.sequence, o.group)
<1> DEFINE ng == NewGroup(o, now)
           ns == gs \cup {ng}
<1>1. /\ ng.id = o.group /\ ng.key_id = o.key_id /\ ng.complete = FALSE
      /\ ng.first_sequence = o.sequence /\ ng.last_sequence = o.sequence
  BY DEF NewGroup
<1>2. \A g \in gs : /\ g.first_sequence \in Nat /\ g.last_sequence \in Nat
                     /\ g.last_sequence <= hw /\ g.first_sequence <= hw
  BY DEF Consistent, GroupsTile, Group, SequenceNumbers
<1>3. \A x \in os : x.sequence \in Nat /\ x.sequence <= hw /\ x.group # o.group
  <2>1. ASSUME NEW x \in os
        PROVE  x.sequence \in Nat /\ x.sequence <= hw /\ x.group # o.group
    <3>1. PICK g \in gs : g.id = x.group /\ x.sequence <= g.last_sequence
      BY DEF Consistent, ObjectsFill
    <3>2. x.sequence \in Nat
      BY DEF Object, SequenceNumbers
    <3>3. QED
      BY <1>2, <3>1, <3>2
  <2>2. QED
    BY <2>1
<1>4. GroupsTile(ns, o.sequence)
  <2>1. \A g \in ns : /\ g.first_sequence <= g.last_sequence
                       /\ g.last_sequence <= o.sequence
    BY <1>1, <1>2 DEF Consistent, GroupsTile
  <2>2. \A g, h \in ns : g # h =>
            /\ g.id # h.id
            /\ \/ g.last_sequence < h.first_sequence
               \/ h.last_sequence < g.first_sequence
    BY <1>1, <1>2 DEF Consistent, GroupsTile
  <2>3. ASSUME NEW g \in ns, NEW n \in g.first_sequence..o.sequence
        PROVE  \E h \in ns : h.first_sequence <= n /\ n <= h.last_sequence
    <3>1. CASE n = o.sequence
      BY <1>1, <3>1
    <3>2. CASE n # o.sequence
      <4>1. g \in gs /\ n \in g.first_sequence..hw
        BY <1>1, <1>2, <3>2
      <4>2. QED
        BY <4>1 DEF Consistent, GroupsTile
    <3>3. QED
      BY <3>1, <3>2
  <2>4. QED
    BY <2>1, <2>2, <2>3 DEF GroupsTile
<1>5. ObjectsFill(ns, os \cup {o})
  <2>1. \A x \in os \cup {o} : \E g \in ns :
            /\ g.id = x.group
            /\ g.first_sequence <= x.sequence /\ x.sequence <= g.last_sequence
    BY <1>1 DEF Consistent, ObjectsFill
  <2>2. ASSUME NEW g \in ns, NEW n \in g.first_sequence..g.last_sequence
        PROVE  \E x \in os \cup {o} : x.sequence = n /\ x.group = g.id
    <3>1. CASE g \in gs
      BY <3>1 DEF Consistent, ObjectsFill
    <3>2. CASE g = ng
      BY <1>1, <3>2
    <3>3. QED
      BY <3>1, <3>2
  <2>3. \A x, y \in os \cup {o} : x.sequence = y.sequence => x = y
    BY <1>3 DEF Consistent, ObjectsFill
  <2>4. QED
    BY <2>1, <2>2, <2>3 DEF ObjectsFill
<1>6. GroupStartsDecodable(ns, os \cup {o})
  BY <1>1, <1>2, <1>3 DEF Consistent, GroupStartsDecodable
<1>7. ActiveIsNewest(ns, o.sequence, o.group)
  <2>1. \A g \in gs : g.complete
    <3>1. \A g \in gs : g.id \in Epochs \X KeyGroups
      BY DEF Group, GroupIds
    <3>2. QED
      BY <3>1, DataAssumption DEF Consistent, ActiveIsNewest
  <2>2. QED
    BY <1>1, <2>1 DEF ActiveIsNewest
<1>8. KeysAgree(ns, os \cup {o}, es)
  BY <1>1, <1>3 DEF Consistent, KeysAgree
<1>9. QED
  BY <1>4, <1>5, <1>6, <1>7, <1>8 DEF Consistent

\* Appending the next object to the active group.
LEMMA AppendKeepsConsistent ==
    ASSUME NEW gs \in SUBSET Group, NEW os \in SUBSET Object,
           NEW es \in SUBSET Envelope, NEW hw \in Nat, NEW now \in Times,
           NEW o \in Object, NEW g \in gs,
           Consistent(gs, os, es, hw, o.group),
           o.sequence = hw + 1, g.id = o.group, g.key_id = o.key_id
    PROVE  Consistent((gs \ {g}) \cup {Extended(g, o, now)}, os \cup {o}, es,
                      o.sequence, o.group)
<1> DEFINE x == Extended(g, o, now)
           ns == (gs \ {g}) \cup {x}
<1>1. /\ x.id = g.id /\ x.key_id = g.key_id /\ x.complete = g.complete
      /\ x.first_sequence = g.first_sequence /\ x.last_sequence = o.sequence
  BY ExtendedFields
<1> HIDE DEF x
<1>2. \A h \in gs : /\ h.first_sequence \in Nat /\ h.last_sequence \in Nat
                     /\ h.last_sequence <= hw /\ h.first_sequence <= hw
  BY DEF Consistent, GroupsTile, Group, SequenceNumbers
<1>3. o.group # None
  <2>1. o.group \in Epochs \X KeyGroups
    BY DEF Object, GroupIds
  <2>2. QED
    BY <2>1, DataAssumption
<1>4. g.last_sequence = hw
  BY <1>3 DEF Consistent, ActiveIsNewest, GroupsTile
<1>5. \A h \in gs : h # g => h.last_sequence < g.first_sequence /\ h.id # g.id
  BY <1>2, <1>4 DEF Consistent, GroupsTile
<1>6. \A y \in os : y.sequence \in Nat /\ y.sequence <= hw
  <2>1. ASSUME NEW y \in os
        PROVE  y.sequence \in Nat /\ y.sequence <= hw
    <3>1. PICK h \in gs : y.sequence <= h.last_sequence
      BY DEF Consistent, ObjectsFill
    <3>2. y.sequence \in Nat
      BY DEF Object, SequenceNumbers
    <3>3. QED
      BY <1>2, <3>1, <3>2
  <2>2. QED
    BY <2>1
<1>7. GroupsTile(ns, o.sequence)
  <2>1. \A h \in ns : /\ h.first_sequence <= h.last_sequence
                       /\ h.last_sequence <= o.sequence
    BY <1>1, <1>2 DEF Consistent, GroupsTile
  <2>2. \A h, k \in ns : h # k =>
            /\ h.id # k.id
            /\ \/ h.last_sequence < k.first_sequence
               \/ k.last_sequence < h.first_sequence
    BY <1>1, <1>5 DEF Consistent, GroupsTile
  <2>3. ASSUME NEW h \in ns, NEW n \in h.first_sequence..o.sequence
        PROVE  \E k \in ns : k.first_sequence <= n /\ n <= k.last_sequence
    <3>1. h.first_sequence \in Nat /\ n \in Nat /\ x.first_sequence \in Nat
      BY <1>1, <1>2
    <3>2. CASE x.first_sequence <= n
      BY <1>1, <3>1, <3>2
    <3>3. CASE ~ (x.first_sequence <= n)
      <4>1. h \in gs /\ n \in h.first_sequence..hw
        BY <1>1, <1>2, <3>1, <3>3
      <4>2. PICK k \in gs : k.first_sequence <= n /\ n <= k.last_sequence
        BY <4>1 DEF Consistent, GroupsTile
      <4>3. k # g
        BY <1>1, <3>3, <4>2
      <4>4. QED
        BY <4>2, <4>3
    <3>4. QED
      BY <3>2, <3>3
  <2>4. QED
    BY <2>1, <2>2, <2>3 DEF GroupsTile
<1>8. ObjectsFill(ns, os \cup {o})
  <2>1. ASSUME NEW y \in os \cup {o}
        PROVE  \E h \in ns :
                 /\ h.id = y.group
                 /\ h.first_sequence <= y.sequence /\ y.sequence <= h.last_sequence
    <3>1. CASE y = o
      BY <1>1, <1>2, <3>1
    <3>2. CASE y \in os
      <4>1. PICK h \in gs : /\ h.id = y.group /\ h.first_sequence <= y.sequence
                            /\ y.sequence <= h.last_sequence
        BY <3>2 DEF Consistent, ObjectsFill
      <4>2. CASE h = g
        BY <1>1, <1>6, <3>2, <4>1, <4>2
      <4>3. CASE h # g
        BY <4>1, <4>3
      <4>4. QED
        BY <4>2, <4>3
    <3>3. QED
      BY <3>1, <3>2
  <2>2. ASSUME NEW h \in ns, NEW n \in h.first_sequence..h.last_sequence
        PROVE  \E y \in os \cup {o} : y.sequence = n /\ y.group = h.id
    <3>1. CASE h \in gs
      BY <3>1 DEF Consistent, ObjectsFill
    <3>2. CASE h = x
      <4>1. CASE n = o.sequence
        BY <1>1, <3>2, <4>1
      <4>2. CASE n # o.sequence
        <5>1. n \in g.first_sequence..g.last_sequence
          BY <1>1, <1>2, <1>4, <3>2, <4>2
        <5>2. QED
          BY <1>1, <3>2, <5>1 DEF Consistent, ObjectsFill
      <4>3. QED
        BY <4>1, <4>2
    <3>3. QED
      BY <3>1, <3>2
  <2>3. \A y, z \in os \cup {o} : y.sequence = z.sequence => y = z
    BY <1>6 DEF Consistent, ObjectsFill
  <2>4. QED
    BY <2>1, <2>2, <2>3 DEF ObjectsFill
<1>9. GroupStartsDecodable(ns, os \cup {o})
  BY <1>1, <1>2 DEF Consistent, GroupStartsDecodable
<1>10. ActiveIsNewest(ns, o.sequence, o.group)
  <2>1. \A h \in gs : h.complete <=> h.id # o.group
    BY DEF Consistent, ActiveIsNewest
  <2>2. \A h \in ns : h.complete <=> h.id # o.group
    BY <1>1, <2>1
  <2>3. \E h \in ns : h.id = o.group /\ h.last_sequence = o.sequence
    BY <1>1
  <2>4. QED
    BY <2>2, <2>3 DEF ActiveIsNewest
<1>11. KeysAgree(ns, os \cup {o}, es)
  <2>1. \A h \in ns : \A r \in os \cup {o} \cup es :
            r.group = h.id => r.key_id = h.key_id
    BY <1>1, <1>5 DEF Consistent, KeysAgree
  <2>2. \A e \in es : \E h \in ns : h.id = e.group
    BY <1>1 DEF Consistent, KeysAgree
  <2>3. QED
    BY <2>1, <2>2 DEF Consistent, KeysAgree
<1>12. QED
  BY <1>7, <1>8, <1>9, <1>10, <1>11 DEF Consistent, x

\* Adding a recipient's first envelope under the group's key.
LEMMA EnvelopeKeepsConsistent ==
    ASSUME NEW gs \in SUBSET Group, NEW os \in SUBSET Object,
           NEW es \in SUBSET Envelope, NEW hw \in Nat, NEW act,
           NEW e \in Envelope, NEW g \in gs,
           Consistent(gs, os, es, hw, act),
           g.id = e.group, g.key_id = e.key_id,
           ~ \E f \in es : f.group = e.group /\ f.recipient = e.recipient
    PROVE  Consistent((gs \ {g}) \cup {Charged(g, e.bytes)}, os, es \cup {e},
                      hw, act)
<1> DEFINE x == Charged(g, e.bytes)
           ns == (gs \ {g}) \cup {x}
<1>1. e.bytes \in Sizes
  BY DEF Envelope
<1>2. /\ x.id = g.id /\ x.key_id = g.key_id /\ x.complete = g.complete
      /\ x.first_sequence = g.first_sequence /\ x.last_sequence = g.last_sequence
  BY <1>1, ChargedFields
<1> HIDE DEF x
<1>3. \A h \in ns : \E k \in gs :
         /\ (h = x /\ k = g) \/ (h = k /\ k # g)
         /\ h.id = k.id /\ h.key_id = k.key_id /\ h.complete = k.complete
         /\ h.first_sequence = k.first_sequence
         /\ h.last_sequence = k.last_sequence
  BY <1>2
<1>4. \A k \in gs : \E h \in ns :
         /\ h.id = k.id /\ h.key_id = k.key_id /\ h.complete = k.complete
         /\ h.first_sequence = k.first_sequence
         /\ h.last_sequence = k.last_sequence
  BY <1>2
<1> HIDE DEF ns
<1>5. GroupsTile(ns, hw)
  BY <1>3, <1>4 DEF Consistent, GroupsTile
<1>6. ObjectsFill(ns, os)
  BY <1>3, <1>4 DEF Consistent, ObjectsFill
<1>7. GroupStartsDecodable(ns, os)
  BY <1>3 DEF Consistent, GroupStartsDecodable
<1>8. ActiveIsNewest(ns, hw, act)
  BY <1>3, <1>4 DEF Consistent, ActiveIsNewest
<1>9. KeysAgree(ns, os, es \cup {e})
  BY <1>3, <1>4 DEF Consistent, KeysAgree, GroupsTile
<1>10. QED
  BY <1>5, <1>6, <1>7, <1>8, <1>9 DEF Consistent, ns, x

-----------------------------------------------------------------------------
(* The state machine *)

\* The end of a transaction writes rows of the right shape.
LEMMA CommitTyped ==
    ASSUME TypeOK, NEW s \in Streams, NEW gs \in SUBSET Group,
           NEW os \in SUBSET Object, NEW es \in SUBSET Envelope, NEW now \in Times,
           CommitWithRetention(s, gs, os, es, now)
    PROVE  /\ groups' \in [Streams -> SUBSET Group]
           /\ objects' \in [Streams -> SUBSET Object]
           /\ envelopes' \in [Streams -> SUBSET Envelope]
<1>1. Cascade(os, Evicted(gs, now)) \in SUBSET Object
  BY DEF Cascade
<1>2. Cascade(es, Evicted(gs, now)) \in SUBSET Envelope
  BY DEF Cascade
<1>3. QED
  BY <1>1, <1>2 DEF CommitWithRetention, TypeOK

\* The rows the two ways of storing an object and the one of storing an
\* envelope hand to the end of their transaction.
LEMMA FirstObjectRows ==
    ASSUME TypeOK, NEW s \in Streams, NEW o \in Object, NEW now \in Times
    PROVE  /\ Completed(groups[s], active[s]) \cup {NewGroup(o, now)}
                    \in SUBSET Group
           /\ objects[s] \cup {o} \in SUBSET Object
           /\ envelopes[s] \in SUBSET Envelope
<1>1. \A g \in groups[s] : g \in Group
  BY DEF TypeOK
<1>2. Completed(groups[s], active[s]) \in SUBSET Group
  BY <1>1, MarkedRow DEF Completed
<1>3. QED
  BY <1>2, NewGroupRow DEF TypeOK

\* An object appended to the active group.
LEMMA NextObjectRows ==
    ASSUME TypeOK, NEW s \in Streams, NEW o \in Object, NEW now \in Times,
           NEW g \in groups[s]
    PROVE  /\ (groups[s] \ {g}) \cup {Extended(g, o, now)} \in SUBSET Group
           /\ objects[s] \cup {o} \in SUBSET Object
           /\ envelopes[s] \in SUBSET Envelope
<1>1. g \in Group
  BY DEF TypeOK
<1>2. QED
  BY <1>1, ExtendedFields DEF TypeOK

\* An envelope charged to its group.
LEMMA EnvelopeRows ==
    ASSUME TypeOK, NEW s \in Streams, NEW e \in Envelope, NEW g \in groups[s]
    PROVE  /\ (groups[s] \ {g}) \cup {Charged(g, e.bytes)} \in SUBSET Group
           /\ objects[s] \in SUBSET Object
           /\ envelopes[s] \cup {e} \in SUBSET Envelope
<1>1. g \in Group /\ e.bytes \in Sizes
  BY DEF TypeOK, Envelope
<1>2. QED
  BY <1>1, ChargedFields DEF TypeOK

\* The empty database is well typed.
LEMMA TypeInit == Init => TypeOK
BY DataAssumption DEF Init, TypeOK

\* Every store transaction writes well-typed rows.
LEMMA TypeStep == TypeOK /\ [Next]_storeVars => TypeOK'
<1> SUFFICES ASSUME TypeOK, [Next]_storeVars
             PROVE  TypeOK'
  OBVIOUS
<1>1. ASSUME NEW s \in Streams, NEW d \in Descriptors, PutDescriptor(s, d)
      PROVE  TypeOK'
  BY <1>1 DEF PutDescriptor, ReplaceDescriptor, InsertDescriptor, TypeOK, Descriptors
<1>2. ASSUME NEW s \in Streams, NEW o \in Object, NEW now \in Times,
             StoreFirstObject(s, o, now)
      PROVE  TypeOK'
  <2>1. /\ groups' \in [Streams -> SUBSET Group]
        /\ objects' \in [Streams -> SUBSET Object]
        /\ envelopes' \in [Streams -> SUBSET Envelope]
    BY <1>2, FirstObjectRows, CommitTyped DEF StoreFirstObject
  <2>2. o.sequence \in 0..MaxSequence /\ o.group \in GroupIds
    BY DataAssumption DEF Object, SequenceNumbers
  <2>3. QED
    BY <1>2, <2>1, <2>2 DEF StoreFirstObject, TypeOK
<1>3. ASSUME NEW s \in Streams, NEW o \in Object, NEW now \in Times,
             StoreNextObject(s, o, now)
      PROVE  TypeOK'
  <2>1. PICK g \in groups[s] :
            CommitWithRetention(s, (groups[s] \ {g}) \cup {Extended(g, o, now)},
                                objects[s] \cup {o}, envelopes[s], now)
    BY <1>3 DEF StoreNextObject
  <2>2. /\ groups' \in [Streams -> SUBSET Group]
        /\ objects' \in [Streams -> SUBSET Object]
        /\ envelopes' \in [Streams -> SUBSET Envelope]
    BY <2>1, NextObjectRows, CommitTyped
  <2>3. o.sequence \in 0..MaxSequence
    BY DataAssumption DEF Object, SequenceNumbers
  <2>4. QED
    BY <1>3, <2>2, <2>3 DEF StoreNextObject, TypeOK
<1>4. ASSUME NEW s \in Streams, NEW e \in Envelope, NEW now \in Times,
             StoreEnvelope(s, e, now)
      PROVE  TypeOK'
  <2>1. PICK g \in groups[s] :
            CommitWithRetention(s, (groups[s] \ {g}) \cup {Charged(g, e.bytes)},
                                objects[s], envelopes[s] \cup {e}, now)
    BY <1>4 DEF StoreEnvelope
  <2>2. /\ groups' \in [Streams -> SUBSET Group]
        /\ objects' \in [Streams -> SUBSET Object]
        /\ envelopes' \in [Streams -> SUBSET Envelope]
    BY <2>1, EnvelopeRows, CommitTyped
  <2>3. QED
    BY <1>4, <2>2 DEF StoreEnvelope, TypeOK
<1>5. ASSUME NEW now \in Times, EnforceRetentionAt(now)
      PROVE  TypeOK'
  BY <1>5 DEF EnforceRetentionAt, Cascade, TypeOK
<1>6. ASSUME NEW s \in Streams, FinalizeStream(s)
      PROVE  TypeOK'
  <2>1. Completed(groups[s], active[s]) \in SUBSET Group
    <3>1. \A g \in groups[s] : g \in Group
      BY DEF TypeOK
    <3>2. QED
      BY <3>1, MarkedRow DEF Completed
  <2>2. QED
    BY <1>6, <2>1 DEF FinalizeStream, TypeOK
<1>7. CASE UNCHANGED storeVars
  BY <1>7 DEF storeVars, TypeOK
<1>8. QED
  BY <1>1, <1>2, <1>3, <1>4, <1>5, <1>6, <1>7 DEF Next, StoreObject

\* The rows of the store always have the shape of their tables.
THEOREM StoreTypeCorrect == Spec => []TypeOK
<1>1. Init => TypeOK
  BY TypeInit
<1>2. TypeOK /\ [Next]_storeVars => TypeOK'
  BY TypeStep
<1>3. QED
  BY <1>1, <1>2, PTL DEF Spec

\* A transaction whose own rows are consistent leaves the store consistent.
LEMMA CommitKeepsConsistent ==
    ASSUME TypeOK, StoreConsistent, NEW s \in Streams,
           NEW gs \in SUBSET Group, NEW os \in SUBSET Object,
           NEW es \in SUBSET Envelope, NEW now \in Times,
           CommitWithRetention(s, gs, os, es, now),
           high_water'[s] \in Nat,
           Consistent(gs, os, es, high_water'[s], active'[s]),
           \A t \in Streams \ {s} : /\ high_water'[t] = high_water[t]
                                     /\ active'[t] = active[t]
    PROVE  StoreConsistent'
<1>1. ASSUME NEW t \in Streams
      PROVE  Consistent(groups'[t], objects'[t], envelopes'[t],
                        high_water'[t], active'[t])
  <2>1. CASE t = s
    <3>1. Consistent(gs \ Evicted(gs, now), Cascade(os, Evicted(gs, now)),
                     Cascade(es, Evicted(gs, now)), high_water'[s], active'[s])
      BY RetentionKeepsConsistent
    <3>2. /\ groups'[s] = gs \ Evicted(gs, now)
          /\ objects'[s] = Cascade(os, Evicted(gs, now))
          /\ envelopes'[s] = Cascade(es, Evicted(gs, now))
      BY DEF CommitWithRetention, TypeOK
    <3>3. QED
      BY <2>1, <3>1, <3>2
  <2>2. CASE t # s
    <3>1. /\ groups'[t] = groups[t] /\ objects'[t] = objects[t]
          /\ envelopes'[t] = envelopes[t]
      BY <2>2 DEF CommitWithRetention, TypeOK
    <3>2. high_water'[t] = high_water[t] /\ active'[t] = active[t]
      BY <2>2
    <3>3. Consistent(groups[t], objects[t], envelopes[t], high_water[t], active[t])
      BY DEF StoreConsistent
    <3>4. QED
      BY <3>1, <3>2, <3>3
  <2>3. QED
    BY <2>1, <2>2
<1>2. QED
  BY <1>1 DEF StoreConsistent

\* A stream without rows is consistent.
LEMMA ConsistentInit == Init => StoreConsistent
<1> SUFFICES ASSUME Init, NEW s \in Streams
             PROVE  Consistent(groups[s], objects[s], envelopes[s],
                               high_water[s], active[s])
  BY DEF StoreConsistent
<1>1. /\ groups[s] = {} /\ objects[s] = {} /\ envelopes[s] = {}
      /\ high_water[s] = 0 /\ active[s] = None
  BY DEF Init
<1>2. QED
  BY <1>1 DEF Consistent, GroupsTile, ObjectsFill, GroupStartsDecodable,
              ActiveIsNewest, KeysAgree

\* The rows gs, os, es that a step of stream s hands to the end of its
\* transaction are consistent and hold all that the stream had.
TransactionRows(s, gs, os, es, now) ==
    /\ CommitWithRetention(s, gs, os, es, now)
    /\ high_water'[s] \in Nat
    /\ Consistent(gs, os, es, high_water'[s], active'[s])
    /\ \A t \in Streams \ {s} : /\ high_water'[t] = high_water[t]
                                 /\ active'[t] = active[t]
    /\ \A g \in groups[s] : \E h \in gs :
            h.id = g.id /\ g.last_sequence <= h.last_sequence
    /\ objects[s] \subseteq os /\ envelopes[s] \subseteq es

Transaction(s, now) ==
    \E gs \in SUBSET Group, os \in SUBSET Object, es \in SUBSET Envelope :
        TransactionRows(s, gs, os, es, now)

\* store_object when the object opens a group: complete the old one, insert the new.
LEMMA FirstObjectTransaction ==
    ASSUME TypeOK, StoreConsistent, NEW s \in Streams, NEW o \in Object,
           NEW now \in Times, StoreFirstObject(s, o, now)
    PROVE  Transaction(s, now)
<1>0. /\ high_water[s] \in Nat /\ groups[s] \in SUBSET Group
      /\ objects[s] \in SUBSET Object /\ envelopes[s] \in SUBSET Envelope
  BY DataAssumption DEF TypeOK
<1> DEFINE cs == Completed(groups[s], active[s])
<1>1. /\ o.sequence = high_water[s] + 1
      /\ o.shape.random_access /\ o.shape.kind # "Cursor"
      /\ \A g \in groups[s] : g.id # o.group
  BY DEF StoreFirstObject, InSequence, ValidateGroupProgression
<1>2. cs \in SUBSET Group /\ \A c \in cs : c.id # o.group
  <2>1. \A g \in groups[s] : /\ MarkComplete(g, active[s]) \in Group
                             /\ MarkComplete(g, active[s]).id = g.id
    BY <1>0, MarkedRow
  <2>2. QED
    BY <1>1, <2>1 DEF Completed
<1>3. Consistent(cs, objects[s], envelopes[s], high_water[s], None)
  BY <1>0, CompletionKeepsConsistent DEF StoreConsistent
<1>4. Consistent(cs \cup {NewGroup(o, now)}, objects[s] \cup {o}, envelopes[s],
                 o.sequence, o.group)
  <2> HIDE DEF cs
  <2>1. QED
    BY <1>0, <1>1, <1>2, <1>3, OpeningKeepsConsistent
<1>5. /\ high_water' = [high_water EXCEPT ![s] = o.sequence]
      /\ active' = [active EXCEPT ![s] = o.group]
      /\ CommitWithRetention(s, cs \cup {NewGroup(o, now)},
                             objects[s] \cup {o}, envelopes[s], now)
  BY DEF StoreFirstObject
<1>6. /\ high_water'[s] = o.sequence /\ active'[s] = o.group
      /\ \A t \in Streams \ {s} : /\ high_water'[t] = high_water[t]
                                   /\ active'[t] = active[t]
  BY <1>5 DEF TypeOK
<1>7. high_water'[s] \in Nat
  BY <1>0, <1>1, <1>6
<1>8. /\ cs \cup {NewGroup(o, now)} \in SUBSET Group
      /\ objects[s] \cup {o} \in SUBSET Object
      /\ envelopes[s] \in SUBSET Envelope
  BY FirstObjectRows
<1>9. \A g \in groups[s] : \E h \in cs \cup {NewGroup(o, now)} :
          h.id = g.id /\ g.last_sequence <= h.last_sequence
  <2>1. ASSUME NEW g \in groups[s]
        PROVE  /\ MarkComplete(g, active[s]) \in cs
               /\ MarkComplete(g, active[s]).id = g.id
               /\ g.last_sequence <= MarkComplete(g, active[s]).last_sequence
    <3>1. g \in Group /\ g.last_sequence \in Nat
      BY <1>0 DEF Group, SequenceNumbers
    <3>2. QED
      BY <3>1, MarkedRow DEF Completed
  <2>2. QED
    BY <2>1
<1> HIDE DEF cs
<1>10. QED
  <2>1. TransactionRows(s, cs \cup {NewGroup(o, now)},
                        objects[s] \cup {o}, envelopes[s], now)
    BY <1>4, <1>5, <1>6, <1>7, <1>9 DEF TransactionRows
  <2>2. QED
    BY <1>8, <2>1 DEF Transaction

\* store_object when the object extends the active group.
LEMMA NextObjectTransaction ==
    ASSUME TypeOK, StoreConsistent, NEW s \in Streams, NEW o \in Object,
           NEW now \in Times, StoreNextObject(s, o, now)
    PROVE  Transaction(s, now)
<1>0. /\ high_water[s] \in Nat /\ groups[s] \in SUBSET Group
      /\ objects[s] \in SUBSET Object /\ envelopes[s] \in SUBSET Envelope
  BY DataAssumption DEF TypeOK
<1>1. PICK g \in groups[s] :
        /\ g.id = o.group /\ g.key_id = o.key_id
        /\ CommitWithRetention(s, (groups[s] \ {g}) \cup {Extended(g, o, now)},
                               objects[s] \cup {o}, envelopes[s], now)
  BY DEF StoreNextObject
<1>2. o.sequence = high_water[s] + 1 /\ active[s] = o.group
  BY DEF StoreNextObject, InSequence
<1>3. Consistent((groups[s] \ {g}) \cup {Extended(g, o, now)},
                 objects[s] \cup {o}, envelopes[s], o.sequence, o.group)
  <2>1. Consistent(groups[s], objects[s], envelopes[s], high_water[s], o.group)
    BY <1>2 DEF StoreConsistent
  <2>2. QED
    BY <1>0, <1>1, <1>2, <2>1, AppendKeepsConsistent
<1>4. /\ high_water'[s] = o.sequence /\ active'[s] = o.group
      /\ \A t \in Streams \ {s} : /\ high_water'[t] = high_water[t]
                                   /\ active'[t] = active[t]
  BY <1>2 DEF StoreNextObject, TypeOK
<1>5. high_water'[s] \in Nat
  BY <1>0, <1>2, <1>4
<1>6. /\ (groups[s] \ {g}) \cup {Extended(g, o, now)} \in SUBSET Group
      /\ objects[s] \cup {o} \in SUBSET Object
      /\ envelopes[s] \in SUBSET Envelope
  BY NextObjectRows
<1>7. \A h \in groups[s] : \E k \in (groups[s] \ {g}) \cup {Extended(g, o, now)} :
          k.id = h.id /\ h.last_sequence <= k.last_sequence
  <2>1. \A h \in groups[s] : h.last_sequence \in Nat
    BY <1>0 DEF Group, SequenceNumbers
  <2>2. g.last_sequence <= o.sequence
    BY <1>0, <1>2, <2>1 DEF StoreConsistent, Consistent, GroupsTile
  <2>3. /\ Extended(g, o, now).id = g.id
        /\ Extended(g, o, now).last_sequence = o.sequence
    BY <1>0, ExtendedFields
  <2>4. QED
    BY <2>1, <2>2, <2>3
<1>8. QED
  <2>1. TransactionRows(s, (groups[s] \ {g}) \cup {Extended(g, o, now)},
                        objects[s] \cup {o}, envelopes[s], now)
    BY <1>1, <1>3, <1>4, <1>5, <1>7 DEF TransactionRows
  <2>2. QED
    BY <1>6, <2>1 DEF Transaction

\* store_envelope of a recipient's key for a retained group.
LEMMA EnvelopeTransaction ==
    ASSUME TypeOK, StoreConsistent, NEW s \in Streams, NEW e \in Envelope,
           NEW now \in Times, StoreEnvelope(s, e, now)
    PROVE  Transaction(s, now)
<1>0. /\ high_water[s] \in Nat /\ groups[s] \in SUBSET Group
      /\ objects[s] \in SUBSET Object /\ envelopes[s] \in SUBSET Envelope
  BY DataAssumption DEF TypeOK
<1>1. PICK g \in groups[s] :
        /\ g.id = e.group
        /\ CommitWithRetention(s, (groups[s] \ {g}) \cup {Charged(g, e.bytes)},
                               objects[s], envelopes[s] \cup {e}, now)
  BY DEF StoreEnvelope
<1>2. /\ g.key_id = e.key_id
      /\ ~ \E f \in envelopes[s] : f.group = e.group /\ f.recipient = e.recipient
      /\ UNCHANGED <<high_water, active>>
  BY <1>1 DEF StoreEnvelope, ContradictsGroup, HasEnvelope
<1>3. Consistent((groups[s] \ {g}) \cup {Charged(g, e.bytes)},
                 objects[s], envelopes[s] \cup {e}, high_water[s], active[s])
  <2>1. Consistent(groups[s], objects[s], envelopes[s], high_water[s], active[s])
    BY DEF StoreConsistent
  <2>2. QED
    BY <1>0, <1>1, <1>2, <2>1, EnvelopeKeepsConsistent
<1>4. /\ (groups[s] \ {g}) \cup {Charged(g, e.bytes)} \in SUBSET Group
      /\ objects[s] \in SUBSET Object
      /\ envelopes[s] \cup {e} \in SUBSET Envelope
  BY EnvelopeRows
<1>5. \A h \in groups[s] : \E k \in (groups[s] \ {g}) \cup {Charged(g, e.bytes)} :
          k.id = h.id /\ h.last_sequence <= k.last_sequence
  <2>1. \A h \in groups[s] : h.last_sequence \in Nat
    BY <1>0 DEF Group, SequenceNumbers
  <2>2. /\ Charged(g, e.bytes).id = g.id
        /\ Charged(g, e.bytes).last_sequence = g.last_sequence
    <3>1. g \in Group /\ e.bytes \in Sizes
      BY <1>0 DEF Envelope
    <3>2. QED
      BY <3>1, ChargedFields
  <2>3. QED
    BY <2>1, <2>2
<1>6. QED
  <2>1. TransactionRows(s, (groups[s] \ {g}) \cup {Charged(g, e.bytes)},
                        objects[s], envelopes[s] \cup {e}, now)
    BY <1>0, <1>1, <1>2, <1>3, <1>5 DEF TransactionRows
  <2>2. QED
    BY <1>4, <2>1 DEF Transaction

\* Every store transaction keeps every stream consistent.
LEMMA ConsistentStep ==
    TypeOK /\ StoreConsistent /\ [Next]_storeVars => StoreConsistent'
<1> SUFFICES ASSUME TypeOK, StoreConsistent, [Next]_storeVars
             PROVE  StoreConsistent'
  OBVIOUS
<1>0. \A s \in Streams : /\ high_water[s] \in Nat
                          /\ groups[s] \in SUBSET Group
                          /\ objects[s] \in SUBSET Object
                          /\ envelopes[s] \in SUBSET Envelope
  BY DataAssumption DEF TypeOK
<1>1. ASSUME NEW s \in Streams, NEW d \in Descriptors, PutDescriptor(s, d)
      PROVE  StoreConsistent'
  BY <1>1 DEF PutDescriptor, ReplaceDescriptor, InsertDescriptor, StoreConsistent
<1>2. ASSUME NEW s \in Streams, NEW o \in Object, NEW now \in Times,
             StoreObject(s, o, now)
      PROVE  StoreConsistent'
  <2>1. Transaction(s, now)
    BY <1>2, FirstObjectTransaction, NextObjectTransaction DEF StoreObject
  <2>2. QED
    BY <2>1, CommitKeepsConsistent DEF Transaction, TransactionRows
<1>3. ASSUME NEW s \in Streams, NEW e \in Envelope, NEW now \in Times,
             StoreEnvelope(s, e, now)
      PROVE  StoreConsistent'
  <2>1. Transaction(s, now)
    BY <1>3, EnvelopeTransaction
  <2>2. QED
    BY <2>1, CommitKeepsConsistent DEF Transaction, TransactionRows
<1>5. ASSUME NEW now \in Times, EnforceRetentionAt(now)
      PROVE  StoreConsistent'
  <2>1. ASSUME NEW s \in Streams
        PROVE  Consistent(groups'[s], objects'[s], envelopes'[s],
                          high_water'[s], active'[s])
    <3>1. /\ groups'[s] = groups[s] \ Evicted(groups[s], now)
          /\ objects'[s] = Cascade(objects[s], Evicted(groups[s], now))
          /\ envelopes'[s] = Cascade(envelopes[s], Evicted(groups[s], now))
          /\ UNCHANGED <<high_water, active>>
      BY <1>5 DEF EnforceRetentionAt
    <3>2. Consistent(groups[s] \ Evicted(groups[s], now),
                     Cascade(objects[s], Evicted(groups[s], now)),
                     Cascade(envelopes[s], Evicted(groups[s], now)),
                     high_water[s], active[s])
      BY <1>0, RetentionKeepsConsistent DEF StoreConsistent
    <3>3. QED
      BY <3>1, <3>2
  <2>2. QED
    BY <2>1 DEF StoreConsistent
<1>6. ASSUME NEW s \in Streams, FinalizeStream(s)
      PROVE  StoreConsistent'
  <2>1. ASSUME NEW t \in Streams
        PROVE  Consistent(groups'[t], objects'[t], envelopes'[t],
                          high_water'[t], active'[t])
    <3>1. CASE t = s
      <4>1. Consistent(Completed(groups[s], active[s]), objects[s], envelopes[s],
                       high_water[s], None)
        BY <1>0, CompletionKeepsConsistent DEF StoreConsistent
      <4>2. /\ groups'[s] = Completed(groups[s], active[s]) /\ active'[s] = None
            /\ UNCHANGED <<high_water, objects, envelopes>>
        BY <1>6 DEF FinalizeStream, TypeOK
      <4>3. QED
        BY <3>1, <4>1, <4>2
    <3>2. CASE t # s
      <4>1. /\ groups'[t] = groups[t] /\ active'[t] = active[t]
            /\ UNCHANGED <<high_water, objects, envelopes>>
        BY <1>6, <3>2 DEF FinalizeStream, TypeOK
      <4>2. QED
        BY <4>1 DEF StoreConsistent
    <3>3. QED
      BY <3>1, <3>2
  <2>2. QED
    BY <2>1 DEF StoreConsistent
<1>7. CASE UNCHANGED storeVars
  BY <1>7 DEF storeVars, StoreConsistent
<1>8. QED
  BY <1>1, <1>2, <1>3, <1>5, <1>6, <1>7 DEF Next

\* The invariant behind the four properties below.
LEMMA StoreAlwaysConsistent == Spec => []StoreConsistent
<1>1. Init => StoreConsistent
  BY ConsistentInit
<1>2. TypeOK /\ StoreConsistent /\ [Next]_storeVars => StoreConsistent'
  BY ConsistentStep
<1>3. QED
  BY <1>1, <1>2, StoreTypeCorrect, PTL DEF Spec

\* Whatever is stored, evicted and finalized, in any order and at any clock
\* reading, what a replay of a stream reads has no gap.
THEOREM StoreGapless == Spec => []RetainedHistoryGapless
<1>1. StoreConsistent => RetainedHistoryGapless
  BY DEF StoreConsistent, Consistent, RetainedHistoryGapless
<1>2. QED
  BY <1>1, StoreAlwaysConsistent, PTL

\* Every retained group can be decoded from its first object.
THEOREM StoreDecodable == Spec => []GroupsDecodable
<1>1. StoreConsistent => GroupsDecodable
  BY DEF StoreConsistent, Consistent, GroupsDecodable
<1>2. QED
  BY <1>1, StoreAlwaysConsistent, PTL

\* The group being written is the newest, the only incomplete one, and kept.
THEOREM StoreActiveNewest == Spec => []ActiveGroupIsNewest
<1>1. StoreConsistent => ActiveGroupIsNewest
  BY DEF StoreConsistent, Consistent, ActiveGroupIsNewest
<1>2. QED
  BY <1>1, StoreAlwaysConsistent, PTL

\* One content key per retained group, and no envelope without its group.
THEOREM StoreKeysMatch == Spec => []KeysMatchGroups
<1>1. StoreConsistent => KeysMatchGroups
  BY DEF StoreConsistent, Consistent, KeysMatchGroups
<1>2. QED
  BY <1>1, StoreAlwaysConsistent, PTL

-----------------------------------------------------------------------------
(* Ownership and the action properties *)

\* A stream and everything in it stay with the identity that created it.
THEOREM StoreOwnerBinding == Spec => []OwnerBinding
<1>1. Init => OwnerBinding
  BY DEF Init, OwnerBinding
<1>2. TypeOK /\ OwnerBinding /\ [Next]_storeVars => OwnerBinding'
  <2> SUFFICES ASSUME TypeOK, OwnerBinding, [Next]_storeVars
               PROVE  OwnerBinding'
    OBVIOUS
  <2>1. ASSUME NEW s \in Streams, NEW d \in Descriptors, PutDescriptor(s, d)
        PROVE  OwnerBinding'
    <3>1. d # None /\ d.publisher # None
      BY DataAssumption DEF Descriptors
    <3>2. CASE ReplaceDescriptor(s, d)
      BY <3>1, <3>2 DEF ReplaceDescriptor, TypeOK, OwnerBinding
    <3>3. CASE InsertDescriptor(s, d)
      <4>1. objects[s] = {} /\ envelopes[s] = {}
        <5>1. publisher_id[s] = None
          BY <3>3 DEF InsertDescriptor
        <5>2. \A r \in objects[s] \cup envelopes[s] : r.publisher \in Publishers
          BY DEF TypeOK, Object, Envelope
        <5>3. QED
          BY <5>1, <5>2, DataAssumption DEF OwnerBinding
      <4>2. QED
        BY <3>1, <3>3, <4>1 DEF InsertDescriptor, TypeOK, OwnerBinding
    <3>4. QED
      BY <2>1, <3>2, <3>3 DEF PutDescriptor
  <2>2. ASSUME NEW s \in Streams, NEW gs, NEW os, NEW es, NEW now \in Times,
               CommitWithRetention(s, gs, os, es, now),
               UNCHANGED <<publisher_id, descriptor>>,
               \A r \in os \cup es : r.publisher = publisher_id[s]
        PROVE  OwnerBinding'
    BY <2>2 DEF CommitWithRetention, Cascade, TypeOK, OwnerBinding
  <2>3. ASSUME NEW s \in Streams, NEW o \in Object, NEW now \in Times,
               StoreObject(s, o, now)
        PROVE  OwnerBinding'
    <3>1. o.publisher = publisher_id[s] /\ UNCHANGED <<publisher_id, descriptor>>
      BY <2>3 DEF StoreObject, StoreFirstObject, StoreNextObject, InSequence,
                  Verified, OwnerBinding
    <3>2. \A r \in (objects[s] \cup {o}) \cup envelopes[s] :
              r.publisher = publisher_id[s]
      BY <3>1 DEF OwnerBinding
    <3>3. PICK gs : CommitWithRetention(s, gs, objects[s] \cup {o}, envelopes[s], now)
      BY <2>3 DEF StoreObject, StoreFirstObject, StoreNextObject
    <3>4. QED
      BY <2>2, <3>1, <3>2, <3>3
  <2>4. ASSUME NEW s \in Streams, NEW e \in Envelope, NEW now \in Times,
               StoreEnvelope(s, e, now)
        PROVE  OwnerBinding'
    <3>1. e.publisher = publisher_id[s] /\ UNCHANGED <<publisher_id, descriptor>>
      BY <2>4 DEF StoreEnvelope, Verified, OwnerBinding
    <3>2. \A r \in objects[s] \cup (envelopes[s] \cup {e}) :
              r.publisher = publisher_id[s]
      BY <3>1 DEF OwnerBinding
    <3>3. PICK gs : CommitWithRetention(s, gs, objects[s], envelopes[s] \cup {e}, now)
      BY <2>4 DEF StoreEnvelope
    <3>4. QED
      BY <2>2, <3>1, <3>2, <3>3
  <2>5. ASSUME NEW now \in Times, EnforceRetentionAt(now)
        PROVE  OwnerBinding'
    BY <2>5 DEF EnforceRetentionAt, Cascade, OwnerBinding
  <2>6. ASSUME NEW s \in Streams, FinalizeStream(s)
        PROVE  OwnerBinding'
    BY <2>6 DEF FinalizeStream, OwnerBinding
  <2>7. CASE UNCHANGED storeVars
    BY <2>7 DEF storeVars, OwnerBinding
  <2>8. QED
    BY <2>1, <2>3, <2>4, <2>5, <2>6, <2>7 DEF Next
<1>3. QED
  BY <1>1, <1>2, StoreTypeCorrect, PTL DEF Spec

\* No step rewrites a stored object or reuses a sequence number, whatever was
\* evicted in between.
THEOREM StoreImmutable == Spec => HistoryImmutable
<1>1. TypeOK /\ [Next]_storeVars => [NothingRewritten]_storeVars
  <2> SUFFICES ASSUME TypeOK, Next
               PROVE  NothingRewritten
    BY DEF storeVars
  <2>1. \A s \in Streams : high_water[s] \in Nat
    BY DataAssumption DEF TypeOK
  <2>2. ASSUME NEW s \in Streams, NEW o \in Object, NEW now \in Times,
               StoreObject(s, o, now)
        PROVE  NothingRewritten
    <3>1. /\ o.sequence = high_water[s] + 1
          /\ high_water' = [high_water EXCEPT ![s] = o.sequence]
          /\ \E gs : CommitWithRetention(s, gs, objects[s] \cup {o}, envelopes[s], now)
      BY <2>2 DEF StoreObject, StoreFirstObject, StoreNextObject, InSequence
    <3>2. objects' = [objects EXCEPT ![s] = objects'[s]]
            /\ objects'[s] \subseteq objects[s] \cup {o}
      BY <3>1 DEF CommitWithRetention, Cascade, TypeOK
    <3>3. QED
      BY <2>1, <3>1, <3>2 DEF TypeOK, NothingRewritten
  <2>3. ASSUME NEW s \in Streams, NEW e \in Envelope, NEW now \in Times,
               StoreEnvelope(s, e, now)
        PROVE  NothingRewritten
    <3>1. /\ high_water' = high_water
          /\ \E gs : CommitWithRetention(s, gs, objects[s], envelopes[s] \cup {e}, now)
      BY <2>3 DEF StoreEnvelope
    <3>2. \A t \in Streams : objects'[t] \subseteq objects[t]
      BY <3>1 DEF CommitWithRetention, Cascade, TypeOK
    <3>3. QED
      BY <2>1, <3>1, <3>2 DEF NothingRewritten
  <2>4. ASSUME NEW now \in Times, EnforceRetentionAt(now)
        PROVE  NothingRewritten
    BY <2>1, <2>4 DEF EnforceRetentionAt, Cascade, NothingRewritten
  <2>5. ASSUME NEW s \in Streams, FinalizeStream(s)
        PROVE  NothingRewritten
    BY <2>1, <2>5 DEF FinalizeStream, NothingRewritten
  <2>6. ASSUME NEW s \in Streams, NEW d \in Descriptors, PutDescriptor(s, d)
        PROVE  NothingRewritten
    BY <2>1, <2>6 DEF PutDescriptor, ReplaceDescriptor, InsertDescriptor, NothingRewritten
  <2>7. QED
    BY <2>2, <2>3, <2>4, <2>5, <2>6 DEF Next
<1>2. QED
  BY <1>1, StoreTypeCorrect, PTL DEF Spec, HistoryImmutable

\* A transaction takes groups away from the oldest end only.
LEMMA CommitEvictsOldest ==
    ASSUME TypeOK, NEW s \in Streams, NEW gs \in SUBSET Group,
           NEW os \in SUBSET Object, NEW es \in SUBSET Envelope, NEW now \in Times,
           TransactionRows(s, gs, os, es, now)
    PROVE  OldestGoFirst
<1> DEFINE ev == Evicted(gs, now)
<1>1. /\ groups'[s] = gs \ ev
      /\ objects'[s] = Cascade(os, ev) /\ envelopes'[s] = Cascade(es, ev)
  BY DEF TransactionRows, CommitWithRetention, TypeOK
<1>2. \A t \in Streams : t # s =>
        /\ groups'[t] = groups[t] /\ objects'[t] = objects[t]
        /\ envelopes'[t] = envelopes[t]
  BY DEF TransactionRows, CommitWithRetention, TypeOK
<1>3. \A g \in ev, k \in gs \ ev : g.last_sequence < k.first_sequence /\ g.id # k.id
  <2>1. \A g \in ev, k \in gs \ ev : g.last_sequence < k.first_sequence
    BY EvictedIsPrefix DEF TransactionRows, Consistent
  <2>2. \A g \in ev, k \in gs \ ev : g.id # k.id
    BY DEF Evicted, TransactionRows, Consistent, GroupsTile
  <2>3. QED
    BY <2>1, <2>2
<1>4. ASSUME NEW g \in groups[s], ~ Kept(s, g.id)', NEW k \in groups'[s]
      PROVE  g.last_sequence < k.first_sequence
  <2>1. PICK h \in gs : h.id = g.id /\ g.last_sequence <= h.last_sequence
    BY DEF TransactionRows
  <2>2. h \in ev
    BY <1>1, <1>4, <2>1 DEF Kept
  <2>3. h.last_sequence < k.first_sequence
    BY <1>1, <1>3, <2>2
  <2>4. /\ g.last_sequence \in Nat /\ h.last_sequence \in Nat
        /\ k.first_sequence \in Nat
    BY <1>1 DEF TypeOK, Group, SequenceNumbers
  <2>5. QED
    BY <2>1, <2>3, <2>4
<1>5. ASSUME NEW r, Kept(s, r.group)'
      PROVE  (r \in objects[s] => r \in objects'[s])
               /\ (r \in envelopes[s] => r \in envelopes'[s])
  <2>1. \A g \in ev : g.id # r.group
    BY <1>1, <1>3, <1>5 DEF Kept
  <2>2. QED
    BY <1>1, <2>1 DEF Cascade, TransactionRows
<1>6. QED
  <2> SUFFICES ASSUME NEW t \in Streams
               PROVE  /\ \A g \in groups[t] : ~ Kept(t, g.id)' =>
                            \A k \in groups'[t] : g.last_sequence < k.first_sequence
                      /\ \A r \in objects[t] : Kept(t, r.group)' => r \in objects'[t]
                      /\ \A r \in envelopes[t] :
                            Kept(t, r.group)' => r \in envelopes'[t]
    BY DEF OldestGoFirst
  <2>1. CASE t = s
    BY <1>4, <1>5, <2>1
  <2>2. CASE t # s
    BY <1>2, <2>2 DEF Kept
  <2>3. QED
    BY <2>1, <2>2

\* Every store transaction evicts whole groups, oldest first.
LEMMA OldestGoFirstStep ==
    TypeOK /\ StoreConsistent /\ [Next]_storeVars => [OldestGoFirst]_storeVars
<1> SUFFICES ASSUME TypeOK, StoreConsistent, Next
             PROVE  OldestGoFirst
  BY DEF storeVars
<1>1. ASSUME NEW s \in Streams, NEW now \in Times, Transaction(s, now)
      PROVE  OldestGoFirst
  BY <1>1, CommitEvictsOldest DEF Transaction
<1>2. ASSUME NEW s \in Streams, NEW o \in Object, NEW now \in Times,
             StoreObject(s, o, now)
      PROVE  OldestGoFirst
  BY <1>1, <1>2, FirstObjectTransaction, NextObjectTransaction DEF StoreObject
<1>3. ASSUME NEW s \in Streams, NEW e \in Envelope, NEW now \in Times,
             StoreEnvelope(s, e, now)
      PROVE  OldestGoFirst
  BY <1>1, <1>3, EnvelopeTransaction
<1>4. ASSUME NEW now \in Times, EnforceRetentionAt(now)
      PROVE  OldestGoFirst
  <2>1. ASSUME NEW s \in Streams
        PROVE  /\ \A g \in groups[s] : ~ Kept(s, g.id)' =>
                     \A k \in groups'[s] : g.last_sequence < k.first_sequence
               /\ \A r \in objects[s] : Kept(s, r.group)' => r \in objects'[s]
               /\ \A r \in envelopes[s] : Kept(s, r.group)' => r \in envelopes'[s]
    <3> DEFINE ev == Evicted(groups[s], now)
    <3>1. /\ groups'[s] = groups[s] \ ev
          /\ objects'[s] = Cascade(objects[s], ev)
          /\ envelopes'[s] = Cascade(envelopes[s], ev)
      BY <1>4 DEF EnforceRetentionAt
    <3>2. /\ GroupsTile(groups[s], high_water[s])
          /\ ActiveIsNewest(groups[s], high_water[s], active[s])
          /\ groups[s] \in SUBSET Group /\ high_water[s] \in Nat
      BY DataAssumption DEF StoreConsistent, Consistent, TypeOK
    <3>3. \A g \in ev, k \in groups[s] \ ev :
              g.last_sequence < k.first_sequence /\ g.id # k.id
      <4>1. \A g \in ev, k \in groups[s] \ ev : g.last_sequence < k.first_sequence
        BY <3>2, EvictedIsPrefix
      <4>2. \A g \in ev, k \in groups[s] \ ev : g.id # k.id
        BY <3>2 DEF Evicted, GroupsTile
      <4>3. QED
        BY <4>1, <4>2
    <3> HIDE DEF ev
    <3>4. QED
      BY <3>1, <3>3 DEF Kept, Cascade
  <2>2. QED
    BY <2>1 DEF OldestGoFirst
<1>5. ASSUME NEW s \in Streams, FinalizeStream(s)
      PROVE  OldestGoFirst
  <2>1. ASSUME NEW t \in Streams, NEW g \in groups[t]
        PROVE  Kept(t, g.id)'
    <3>1. CASE t = s
      <4>1. MarkComplete(g, active[s]) \in groups'[s]
        BY <1>5, <3>1 DEF FinalizeStream, TypeOK, Completed
      <4>2. MarkComplete(g, active[s]).id = g.id
        BY <3>1, MarkedRow DEF TypeOK
      <4>3. QED
        BY <3>1, <4>1, <4>2 DEF Kept
    <3>2. CASE t # s
      BY <1>5, <3>2 DEF FinalizeStream, TypeOK, Kept
    <3>3. QED
      BY <3>1, <3>2
  <2>2. UNCHANGED <<objects, envelopes>>
    BY <1>5 DEF FinalizeStream
  <2>3. QED
    BY <2>1, <2>2 DEF OldestGoFirst
<1>6. ASSUME NEW s \in Streams, NEW d \in Descriptors, PutDescriptor(s, d)
      PROVE  OldestGoFirst
  BY <1>6 DEF PutDescriptor, ReplaceDescriptor, InsertDescriptor, OldestGoFirst, Kept
<1>7. QED
  BY <1>2, <1>3, <1>4, <1>5, <1>6 DEF Next

\* Retention is the only way out of the store: whole groups leave it, oldest
\* first, each with all of its objects and envelopes.
THEOREM StoreEvictsOldest == Spec => EvictsOldestFirst
<1>1. TypeOK /\ StoreConsistent /\ [Next]_storeVars => [OldestGoFirst]_storeVars
  BY OldestGoFirstStep
<1>2. QED
  BY <1>1, StoreTypeCorrect, StoreAlwaysConsistent, PTL DEF Spec, EvictsOldestFirst
-----------------------------------------------------------------------------
(* Reads *)

\* A non-empty set of naturals has a least element (MIN(...) of a column).
LEMMA LeastSequence ==
    ASSUME NEW S, S \subseteq Nat, S # {}
    PROVE  Min(S) \in S /\ \A y \in S : Min(S) <= y
BY LeastNatural DEF Min

\* A non-empty set of sequences has a greatest element (MAX(...) of a column).
LEMMA GreatestSequence ==
    ASSUME NEW S, NEW b \in Nat, S \subseteq 0..b, S # {}
    PROVE  Max(S) \in S /\ \A y \in S : y <= Max(S)
<1> DEFINE T == {b - x : x \in S}
<1>1. T \subseteq Nat /\ T # {}
  OBVIOUS
<1>2. Min(T) \in T /\ \A y \in T : Min(T) <= y
  BY <1>1, LeastSequence
<1>3. PICK m \in S : Min(T) = b - m
  BY <1>2
<1>4. \A y \in S : m >= y
  <2> SUFFICES ASSUME NEW y \in S PROVE m >= y
    OBVIOUS
  <2>1. b - m <= b - y
    BY <1>2, <1>3
  <2>2. y \in Nat /\ m \in Nat
    OBVIOUS
  <2> QED
    BY <2>1, <2>2
<1>5. QED
  BY <1>4 DEF Max

\* The rows of one stream, with the numbers in them.
LEMMA StreamRows ==
    ASSUME TypeOK, NEW s \in Streams
    PROVE  /\ high_water[s] \in 0..MaxSequence /\ MaxSequence \in Nat
           /\ objects[s] \subseteq Object
           /\ \A o \in objects[s] : o.sequence \in 1..MaxSequence
           /\ \A g \in groups[s] : /\ g.first_sequence \in 1..MaxSequence
                                   /\ g.last_sequence \in 1..MaxSequence
<1>1. high_water[s] \in 0..MaxSequence /\ objects[s] \subseteq Object /\ groups[s] \subseteq Group
  BY DEF TypeOK
<1>2. MaxSequence \in Nat
  BY DataAssumption
<1>3. QED
  BY <1>1, <1>2 DEF Group, Object, SequenceNumbers

\* The greatest start of a set of retained groups is the start of one of them.
LEMMA GreatestStart ==
    ASSUME TypeOK, NEW s \in Streams, NEW S, S \subseteq Starts(groups[s]), S # {}
    PROVE  Max(S) \in S /\ \A f \in S : f <= Max(S)
<1>1. S \subseteq 0..MaxSequence /\ MaxSequence \in Nat
  BY StreamRows DEF Starts
<1>2. QED
  BY <1>1, GreatestSequence

\* Every subscription_anchor is a group's first sequence or the next live one.
LEMMA AnchorIsStart ==
    ASSUME TypeOK, NEW s \in Streams
    PROVE  /\ LiveAnchor(s) \in Starts(groups[s]) \cup {NextLive(s)}
           /\ OldestRetainedAnchor(s) \in Starts(groups[s]) \cup {NextLive(s)}
           /\ \A n \in Nat : SequenceAnchor(s, n) \in Starts(groups[s]) \cup {NextLive(s)}
           /\ \A ts \in Nat : TimestampAnchor(s, ts) \in Starts(groups[s]) \cup {NextLive(s)}
<1>1. LiveAnchor(s) \in Starts(groups[s]) \cup {NextLive(s)}
  <2>1. groups[s] # {} => Starts(groups[s]) # {}
    BY DEF Starts
  <2>2. QED
    BY <2>1, GreatestStart DEF LiveAnchor
<1>2. OldestRetainedAnchor(s) \in Starts(groups[s]) \cup {NextLive(s)}
  <2>1. CompleteGroups(s) # {} => Starts(CompleteGroups(s)) # {}
    BY DEF Starts
  <2>2. Starts(CompleteGroups(s)) \subseteq Starts(groups[s])
    BY DEF Starts, CompleteGroups
  <2>3. Starts(groups[s]) \subseteq Nat
    BY StreamRows DEF Starts
  <2>4. QED
    BY <2>1, <2>2, <2>3, LeastSequence DEF OldestRetainedAnchor
<1>3. ASSUME NEW n \in Nat
      PROVE  SequenceAnchor(s, n) \in Starts(groups[s]) \cup {NextLive(s)}
  BY GreatestStart DEF SequenceAnchor
<1>4. ASSUME NEW ts \in Nat
      PROVE  TimestampAnchor(s, ts) \in Starts(groups[s]) \cup {NextLive(s)}
  <2>1. Starts(TimestampGroups(s, ts)) \subseteq Starts(groups[s])
    BY DEF Starts, TimestampGroups
  <2>2. TimestampGroups(s, ts) # {} => Starts(TimestampGroups(s, ts)) # {}
    BY DEF Starts
  <2>3. QED
    BY <2>1, <2>2, GreatestStart DEF TimestampAnchor
<1>5. QED
  BY <1>1, <1>2, <1>3, <1>4

\* From a group's first sequence on, everything is there to be replayed.
LEMMA StartIsReplayable ==
    ASSUME TypeOK, StoreConsistent, NEW s \in Streams, NEW a \in Starts(groups[s])
    PROVE  /\ \E o \in objects[s] : o.sequence = a /\ o.shape.random_access
           /\ \A n \in a..high_water[s] : Stored(s, n)
<1>1. PICK g \in groups[s] : a = g.first_sequence
  BY DEF Starts
<1>2. /\ GroupsTile(groups[s], high_water[s]) /\ ObjectsFill(groups[s], objects[s])
      /\ GroupStartsDecodable(groups[s], objects[s])
  BY DEF StoreConsistent, Consistent
<1>3. \E o \in objects[s] : o.sequence = a /\ o.shape.random_access
  <2>1. g.first_sequence \in g.first_sequence..g.last_sequence
    BY <1>2, StreamRows DEF GroupsTile
  <2>2. PICK o \in objects[s] : o.sequence = g.first_sequence
    BY <1>2, <2>1 DEF ObjectsFill
  <2>3. QED
    BY <1>1, <1>2, <2>2 DEF GroupStartsDecodable
<1>4. ASSUME NEW n \in a..high_water[s]
      PROVE  Stored(s, n)
  <2>1. PICK h \in groups[s] : h.first_sequence <= n /\ n <= h.last_sequence
    BY <1>1, <1>2 DEF GroupsTile
  <2>2. n \in h.first_sequence..h.last_sequence
    BY <1>1, <2>1, StreamRows
  <2>3. QED
    BY <1>2, <2>2 DEF ObjectsFill, Stored
<1>5. QED
  BY <1>3, <1>4

\* subscription_anchor: wherever a viewer asks to start, and whatever was
\* evicted and finalized before, it is anchored where a decoder can start with
\* everything up to the mark behind it, or at the next live sequence.
THEOREM StoreAnchorsReplayable == Spec => []AnchorsReplayable
<1>1. TypeOK /\ StoreConsistent => AnchorsReplayable
  <2> SUFFICES ASSUME TypeOK, StoreConsistent, NEW s \in Streams,
                      NEW a \in {LiveAnchor(s), OldestRetainedAnchor(s)}
                            \cup {SequenceAnchor(s, n) : n \in 0..MaxSequence + 1}
                            \cup {TimestampAnchor(s, ts) : ts \in Timestamps}
               PROVE  \/ a = NextLive(s)
                      \/ /\ \E o \in objects[s] : o.sequence = a /\ o.shape.random_access
                         /\ \A n \in a..high_water[s] : Stored(s, n)
    BY DEF AnchorsReplayable
  <2>1. 0..MaxSequence + 1 \subseteq Nat /\ Timestamps \subseteq Nat
    BY DataAssumption
  <2>2. a \in Starts(groups[s]) \cup {NextLive(s)}
    BY <2>1, AnchorIsStart
  <2>3. QED
    BY <2>2, StartIsReplayable
<1>2. QED
  BY <1>1, StoreTypeCorrect, StoreAlwaysConsistent, PTL

\* retained_bounds and subscription_anchor agree: any sequence in the range the
\* catalog advertises is anchored at the group that holds it.
THEOREM StoreRangeSeekable == Spec => []AdvertisedRangeSeekable
<1>1. TypeOK /\ StoreConsistent => AdvertisedRangeSeekable
  <2> SUFFICES ASSUME TypeOK, StoreConsistent, NEW s \in Streams, CompleteGroups(s) # {}
               PROVE  /\ OldestRetainedAnchor(s) = RetainedBounds(s).oldest_sequence
                      /\ \A n \in RetainedBounds(s).oldest_sequence
                                    ..RetainedBounds(s).newest_sequence :
                            \E g \in groups[s] : /\ g.first_sequence = SequenceAnchor(s, n)
                                                 /\ n <= g.last_sequence
    BY DEF AdvertisedRangeSeekable
  <2> DEFINE lo == Min(Starts(CompleteGroups(s)))
             hi == Max({g.last_sequence : g \in CompleteGroups(s)})
  <2>1. RetainedBounds(s).oldest_sequence = lo /\ RetainedBounds(s).newest_sequence = hi
    BY DEF RetainedBounds
  <2>2. OldestRetainedAnchor(s) = lo
    BY DEF OldestRetainedAnchor
  <2>3. GroupsTile(groups[s], high_water[s])
    BY DEF StoreConsistent, Consistent
  <2>4. PICK c \in groups[s] : lo = c.first_sequence
    <3>1. Starts(CompleteGroups(s)) \subseteq Nat /\ Starts(CompleteGroups(s)) # {}
      BY StreamRows DEF Starts, CompleteGroups
    <3>2. lo \in Starts(CompleteGroups(s))
      BY <3>1, LeastSequence
    <3>3. QED
      BY <3>2 DEF Starts, CompleteGroups
  <2>5. hi \in Nat /\ hi <= high_water[s]
    <3> DEFINE L == {g.last_sequence : g \in CompleteGroups(s)}
    <3>1. L \subseteq 0..MaxSequence /\ L # {} /\ MaxSequence \in Nat
      BY StreamRows DEF CompleteGroups
    <3>2. hi \in L
      BY <3>1, GreatestSequence
    <3>3. QED
      BY <2>3, <3>1, <3>2 DEF GroupsTile, CompleteGroups
  <2> HIDE DEF lo, hi
  <2>6. ASSUME NEW n \in lo..hi
        PROVE  \E g \in groups[s] : g.first_sequence = SequenceAnchor(s, n) /\ n <= g.last_sequence
    <3>1. n \in c.first_sequence..high_water[s]
      BY <2>4, <2>5, StreamRows
    <3>2. PICK h \in groups[s] : h.first_sequence <= n /\ n <= h.last_sequence
      BY <2>3, <3>1 DEF GroupsTile
    <3> DEFINE before == {f \in Starts(groups[s]) : f <= n}
    <3>3. h.first_sequence \in before
      BY <3>2 DEF Starts
    <3>4. Max(before) \in before /\ \A f \in before : f <= Max(before)
      BY <3>3, GreatestStart
    <3>5. PICK k \in groups[s] : k.first_sequence = Max(before)
      BY <3>4 DEF Starts
    <3>6. SequenceAnchor(s, n) = Max(before)
      BY <3>3 DEF SequenceAnchor
    <3>7. k = h \/ k.last_sequence < h.first_sequence \/ h.last_sequence < k.first_sequence
      BY <2>3 DEF GroupsTile
    <3>8. h.first_sequence <= k.first_sequence /\ k.first_sequence <= n
      BY <3>3, <3>4, <3>5
    <3>9. k.first_sequence <= k.last_sequence
      BY <2>3 DEF GroupsTile
    <3>10. k = h
      BY <3>1, <3>2, <3>7, <3>8, <3>9, StreamRows
    <3> QED
      BY <3>2, <3>5, <3>6, <3>10
  <2>7. QED
    BY <2>1, <2>2, <2>6
<1>2. QED
  BY <1>1, StoreTypeCorrect, StoreAlwaysConsistent, PTL

-----------------------------------------------------------------------------
(* What enforce_retention leaves *)

\* A group that enforce_retention leaves while it takes all before it was not
\* exceeded at its turn, and what it leaves is what was there at that turn.
LEMMA OldestLeft ==
    ASSUME NEW gs \in SUBSET Group, NEW now, NEW g \in gs \ Evicted(gs, now), g.complete,
           \A h \in gs : h.first_sequence = g.first_sequence => h = g,
           \A h \in gs \ Evicted(gs, now) : h.complete => g.first_sequence <= h.first_sequence
    PROVE  /\ ~ Exceeded(gs, g, now)
           /\ gs \ Evicted(gs, now) =
                {h \in gs : h.complete => h.first_sequence >= g.first_sequence}
<1>0. \A h \in gs : h.first_sequence \in Nat /\ h.complete \in BOOLEAN
  BY DEF Group, SequenceNumbers
<1>1. PICK h \in gs : h.complete /\ h.first_sequence <= g.first_sequence /\ ~ Exceeded(gs, h, now)
  BY DEF Evicted
<1>2. h \notin Evicted(gs, now)
  BY <1>0, <1>1 DEF Evicted
<1>3. h = g
  BY <1>0, <1>1, <1>2
<1>4. \A k \in gs : k.complete /\ k.first_sequence >= g.first_sequence => k \notin Evicted(gs, now)
  BY <1>0, <1>1, <1>3 DEF Evicted
<1>5. \A k \in gs : ~ k.complete => k \notin Evicted(gs, now)
  BY DEF Evicted
<1>6. QED
  BY <1>0, <1>1, <1>3, <1>4, <1>5

\* The last group enforce_retention takes was exceeded at its turn, when what
\* it leaves and that group were there.
LEMMA NewestTaken ==
    ASSUME NEW gs \in SUBSET Group, NEW now, NEW g \in Evicted(gs, now),
           \A h \in gs : h.first_sequence = g.first_sequence => h = g,
           \A h \in Evicted(gs, now) : h.first_sequence <= g.first_sequence
    PROVE  /\ Exceeded(gs, g, now)
           /\ (gs \ Evicted(gs, now)) \cup {g} =
                {h \in gs : h.complete => h.first_sequence >= g.first_sequence}
<1>0. \A h \in gs : h.first_sequence \in Nat /\ h.complete \in BOOLEAN
  BY DEF Group, SequenceNumbers
<1>1. g \in gs /\ g.complete
  BY DEF Evicted
<1>2. Exceeded(gs, g, now)
  BY <1>0, <1>1 DEF Evicted
<1>3. ASSUME NEW k \in gs, k.complete, k \notin Evicted(gs, now)
      PROVE  k.first_sequence >= g.first_sequence
  <2>1. PICK h \in gs : h.complete /\ h.first_sequence <= k.first_sequence
                          /\ ~ Exceeded(gs, h, now)
    BY <1>3 DEF Evicted
  <2>2. ~ (h.first_sequence <= g.first_sequence)
    BY <2>1 DEF Evicted
  <2>3. QED
    BY <1>0, <1>1, <2>1, <2>2
<1>4. ASSUME NEW k \in Evicted(gs, now), k.first_sequence >= g.first_sequence
      PROVE  k = g
  <2>1. k \in gs
    BY DEF Evicted
  <2>2. k.first_sequence = g.first_sequence
    BY <1>0, <1>1, <1>4, <2>1
  <2>3. QED
    BY <2>1, <2>2
<1>5. \A k \in gs : ~ k.complete => k \notin Evicted(gs, now)
  BY DEF Evicted
<1>6. QED
  BY <1>0, <1>1, <1>2, <1>3, <1>4, <1>5

\* enforce_retention stops exactly where neither limit is exceeded any more: for
\* any limits, sizes and clock, out of order readings included.
THEOREM StoreRetentionIsExact == Spec => []RetentionIsExact
<1>1. TypeOK /\ StoreConsistent => RetentionIsExact
  <2> SUFFICES ASSUME TypeOK, StoreConsistent, NEW s \in Streams, NEW now \in Times
               PROVE  LET gone == Evicted(groups[s], now)
                          kept == groups[s] \ gone
                          Overdue(g) == RetentionAge # None
                                          /\ g.received_last_ms + RetentionAge < now
                          Heavy(gs) == RetentionBytes # None
                                          /\ RetainedBytes(gs) > RetentionBytes
                          old == {g \in kept : g.complete}
                      IN  /\ Heavy(kept) => old = {}
                          /\ \A g \in old : g.first_sequence = Min(Starts(old)) => ~ Overdue(g)
                          /\ \A g \in gone : g.first_sequence = Max(Starts(gone)) =>
                                  Overdue(g) \/ Heavy(kept \cup {g})
    BY DEF RetentionIsExact
  <2> DEFINE gs == groups[s]
             gone == Evicted(gs, now)
             kept == gs \ gone
             Overdue(g) == RetentionAge # None /\ g.received_last_ms + RetentionAge < now
             Heavy(hs) == RetentionBytes # None /\ RetainedBytes(hs) > RetentionBytes
             old == {g \in kept : g.complete}
             Rest(g) == {h \in gs : h.complete => h.first_sequence >= g.first_sequence}
  <2>1. /\ gs \in SUBSET Group /\ GroupsTile(gs, high_water[s])
        /\ gone \subseteq gs /\ kept \subseteq gs /\ old \subseteq gs
    BY DEF TypeOK, StoreConsistent, Consistent, Evicted
  <2>2. \A g \in gs : /\ g.first_sequence \in Nat /\ g.last_sequence \in Nat
                      /\ g.received_last_ms \in Int
    <3>1. \A g \in gs : g.received_last_ms \in Times
      BY <2>1 DEF Group
    <3>2. \A g \in gs : g.first_sequence \in Nat /\ g.last_sequence \in Nat
      BY <2>1 DEF Group, SequenceNumbers
    <3>3. Times \subseteq Int
      BY DataAssumption
    <3>4. QED
      BY <3>1, <3>2, <3>3
  <2>3. \A g, h \in gs : g.first_sequence = h.first_sequence => g = h
    BY <2>1, <2>2 DEF GroupsTile
  <2>4. now \in Int /\ (RetentionAge # None => RetentionAge \in Nat)
    BY DataAssumption, LimitAssumption
  <2>5. \A g \in gs : Exceeded(gs, g, now) <=> Heavy(Rest(g)) \/ Overdue(g)
    <3> SUFFICES ASSUME NEW g \in gs
                 PROVE  Exceeded(gs, g, now) <=> Heavy(Rest(g)) \/ Overdue(g)
      OBVIOUS
    <3>1. (RetentionAge # None /\ g.received_last_ms < now - RetentionAge) <=> Overdue(g)
      BY <2>2, <2>4
    <3>2. QED
      BY <3>1 DEF Exceeded
  <2>6. ASSUME NEW g \in old, \A h \in old : g.first_sequence <= h.first_sequence
        PROVE  ~ Heavy(kept) /\ ~ Overdue(g)
    <3>1. g \in gs /\ g \in gs \ Evicted(gs, now) /\ g.complete
      BY <2>1
    <3>2. ~ Exceeded(gs, g, now) /\ kept = Rest(g)
      BY <2>1, <2>3, <2>6, <3>1, OldestLeft
    <3> HIDE DEF Heavy, Overdue, Rest, kept
    <3>3. QED
      BY <2>5, <3>1, <3>2
  <2>7. old # {} => Min(Starts(old)) \in Starts(old) /\ \A f \in Starts(old) : Min(Starts(old)) <= f
    <3> HIDE DEF old
    <3>1. Starts(old) \subseteq Nat /\ (old # {} => Starts(old) # {})
      BY <2>1, <2>2 DEF Starts
    <3>2. QED
      BY <3>1, LeastSequence
  <2>8. Heavy(kept) => old = {}
    <3> SUFFICES ASSUME old # {} PROVE ~ Heavy(kept)
      OBVIOUS
    <3> HIDE DEF old, kept, Heavy
    <3>1. PICK g \in old : g.first_sequence = Min(Starts(old))
      BY <2>7 DEF Starts
    <3>2. \A h \in old : g.first_sequence <= h.first_sequence
      BY <2>7, <3>1 DEF Starts
    <3>3. QED
      BY <2>6, <3>2
  <2>9. ASSUME NEW g \in old, g.first_sequence = Min(Starts(old)) PROVE ~ Overdue(g)
    <3> HIDE DEF old, kept, Overdue
    <3>1. \A h \in old : g.first_sequence <= h.first_sequence
      BY <2>7, <2>9 DEF Starts
    <3>2. QED
      BY <2>6, <3>1
  <2>10. ASSUME NEW g \in gone, g.first_sequence = Max(Starts(gone))
         PROVE  Overdue(g) \/ Heavy(kept \cup {g})
    <3>1. Starts(gone) \subseteq Starts(gs) /\ Starts(gone) # {}
      BY <2>1 DEF Starts
    <3>2. \A f \in Starts(gone) : f <= Max(Starts(gone))
      BY <3>1, GreatestStart
    <3>3. \A h \in gone : h.first_sequence <= g.first_sequence
      BY <2>10, <3>2 DEF Starts
    <3>4. g \in gs
      BY <2>1
    <3>5. Exceeded(gs, g, now) /\ kept \cup {g} = Rest(g)
      BY <2>1, <2>3, <3>3, <3>4, NewestTaken
    <3> HIDE DEF Heavy, Overdue, Rest, kept
    <3>6. QED
      BY <2>5, <3>4, <3>5
  <2>11. QED
    BY <2>8, <2>9, <2>10
<1>2. QED
  BY <1>1, StoreTypeCorrect, StoreAlwaysConsistent, PTL

-----------------------------------------------------------------------------
(* Byte quotas *)

\* The rows of one table that belong to a group.
OfGroup(rows, g) == {r \in rows : r.group = g.id}

\* What the quotas rest on: a group's counter is the bytes of its rows.
Accounted(gs, os, es) ==
    /\ IsFiniteSet(gs) /\ HasBytes(os) /\ HasBytes(es)
    /\ \A g, h \in gs : g.id = h.id => g = h
    /\ \A g \in gs : g.retained_bytes = Bytes(OfGroup(os, g)) + Bytes(OfGroup(es, g))

StoreAccounted == \A s \in Streams : Accounted(groups[s], objects[s], envelopes[s])

\* SUM(retained_bytes) over group rows is a weight ...
LEMMA RetainedIsWeight ==
    ASSUME NEW gs, IsFiniteSet(gs), \A g \in gs : g.retained_bytes \in Nat
    PROVE  /\ Weighs([g \in gs |-> g.retained_bytes], gs)
           /\ RetainedBytes(gs) = Weight([g \in gs |-> g.retained_bytes], gs)
<1> DEFINE f == [g \in gs |-> g.retained_bytes]
           Step(fold) == [s \in SUBSET gs |->
                             IF s = {} THEN 0
                             ELSE (CHOOSE x \in s : TRUE).retained_bytes
                                  + fold[s \ {CHOOSE x \in s : TRUE}]]
           sum == CHOOSE fold : fold = Step(fold)
<1>1. Weighs(f, gs)
  BY DEF Weighs
<1>2. RetainedBytes(gs) = sum[gs]
  BY DEF RetainedBytes, MapThenSumSet, MapThenFoldSet
<1>3. ASSUME NEW fold PROVE IsSumFold(fold, f, gs) <=> fold = Step(fold)
  <2>1. \A s \in SUBSET gs : s # {} =>
            f[CHOOSE x \in s : TRUE] = (CHOOSE x \in s : TRUE).retained_bytes
    OBVIOUS
  <2>2. QED
    BY <2>1 DEF IsSumFold
<1>4. (\E w : w = Step(w)) => sum = Step(sum)
  <2> HIDE DEF Step
  <2>1. QED
    BY Zenon
<1> HIDE DEF sum, Step, f
<1>5. sum[gs] = Weight(f, gs)
  BY <1>1, <1>3, <1>4, SumIsWeight
<1>6. QED
  BY <1>1, <1>2, <1>5 DEF f

\* ... so is its sum over the streams ...
LEMMA StreamsIsWeight ==
    ASSUME NEW S, IsFiniteSet(S), \A s \in S : RetainedBytes(groups[s]) \in Nat
    PROVE  StreamsBytes(S) = Weight([s \in S |-> RetainedBytes(groups[s])], S)
<1> DEFINE f == [s \in S |-> RetainedBytes(groups[s])]
           Step(fold) == [s \in SUBSET S |->
                             IF s = {} THEN 0
                             ELSE RetainedBytes(groups[CHOOSE x \in s : TRUE])
                                  + fold[s \ {CHOOSE x \in s : TRUE}]]
           sum == CHOOSE fold : fold = Step(fold)
<1>1. Weighs(f, S)
  BY DEF Weighs
<1>2. StreamsBytes(S) = sum[S]
  BY DEF StreamsBytes, MapThenSumSet, MapThenFoldSet
<1>3. ASSUME NEW fold PROVE IsSumFold(fold, f, S) <=> fold = Step(fold)
  <2>1. \A s \in SUBSET S : s # {} =>
            f[CHOOSE x \in s : TRUE] = RetainedBytes(groups[CHOOSE x \in s : TRUE])
    OBVIOUS
  <2>2. QED
    BY <2>1 DEF IsSumFold
<1>4. (\E w : w = Step(w)) => sum = Step(sum)
  <2> HIDE DEF Step
  <2>1. QED
    BY Zenon
<1> HIDE DEF sum, Step, f
<1>5. sum[S] = Weight(f, S)
  BY <1>1, <1>3, <1>4, SumIsWeight
<1>6. QED
  BY <1>2, <1>5 DEF f

\* The bytes of the rows os[s] and es[s] of the streams s of a set.
RowBytes(os, es, S) == MapThenSumSet(LAMBDA s : MapThenSumSet(LAMBDA o : o.bytes, os[s])
                                              + MapThenSumSet(LAMBDA e : e.bytes, es[s]), S)

\* ... and so are the bytes really held.
LEMMA RowsAreWeight ==
    ASSUME NEW os, NEW es, NEW S, IsFiniteSet(S),
           \A s \in S : Bytes(os[s]) + Bytes(es[s]) \in Nat
    PROVE  RowBytes(os, es, S) = Weight([s \in S |-> Bytes(os[s]) + Bytes(es[s])], S)
<1> DEFINE f == [s \in S |-> Bytes(os[s]) + Bytes(es[s])]
           Step(fold) == [s \in SUBSET S |->
                             IF s = {} THEN 0
                             ELSE Bytes(os[CHOOSE x \in s : TRUE])
                                    + Bytes(es[CHOOSE x \in s : TRUE])
                                  + fold[s \ {CHOOSE x \in s : TRUE}]]
           sum == CHOOSE fold : fold = Step(fold)
<1>1. Weighs(f, S)
  BY DEF Weighs
<1>2. RowBytes(os, es, S) = sum[S]
  BY DEF RowBytes, Bytes, MapThenSumSet, MapThenFoldSet
<1>3. ASSUME NEW fold PROVE IsSumFold(fold, f, S) <=> fold = Step(fold)
  <2>1. \A s \in SUBSET S : s # {} =>
            f[CHOOSE x \in s : TRUE] = Bytes(os[CHOOSE x \in s : TRUE])
                                         + Bytes(es[CHOOSE x \in s : TRUE])
    OBVIOUS
  <2>2. QED
    BY <2>1 DEF IsSumFold
<1>4. (\E w : w = Step(w)) => sum = Step(sum)
  <2> HIDE DEF Step
  <2>1. QED
    BY Zenon
<1> HIDE DEF sum, Step, f
<1>5. sum[S] = Weight(f, S)
  BY <1>1, <1>3, <1>4, SumIsWeight
<1>6. QED
  BY <1>2, <1>5 DEF f

\* The quotas, in terms of the rows.
WithinQuota(os, es, owner) ==
    /\ RowBytes(os, es, Streams) <= MaxTotalBytes
    /\ \A p \in Publishers :
            RowBytes(os, es, {s \in Streams : owner[s] = p}) <= MaxPublisherBytes

Quota == WithinQuota(objects, envelopes, publisher_id)

\* They are the property's.
LEMMA QuotaIsOfRows == Quota <=> StoredBytesWithinQuota
BY DEF StoredBytesWithinQuota, StoredBytes, PublisherStreams, Quota, WithinQuota, RowBytes

\* A group's counters add up to what its stream holds.
LEMMA RetainedIsRows ==
    ASSUME NEW gs, NEW os, NEW es, Accounted(gs, os, es),
           \A r \in os \cup es : \E g \in gs : g.id = r.group
    PROVE  RetainedBytes(gs) = Bytes(os) + Bytes(es)
<1> DEFINE f == [g \in gs |-> g.retained_bytes]
           h == [o \in os |-> o.bytes]
           k == [e \in es |-> e.bytes]
           part == [g \in gs |-> OfGroup(os, g)]
           share == [g \in gs |-> OfGroup(es, g)]
<1>1. IsFiniteSet(gs) /\ HasBytes(os) /\ HasBytes(es)
  BY DEF Accounted
<1>2. /\ Weighs(h, os) /\ Bytes(os) = Weight(h, os)
      /\ Weighs(k, es) /\ Bytes(es) = Weight(k, es)
  BY <1>1, ByteSum
<1>3. Splits(part, gs, os) /\ Splits(share, gs, es)
  BY DEF Splits, OfGroup, Accounted
<1>4. \A g \in gs : part[g] \in SUBSET os /\ share[g] \in SUBSET es
  BY DEF OfGroup
<1>6. \A g \in gs : /\ Bytes(part[g]) \in Nat /\ Bytes(part[g]) = Weight(h, part[g])
                    /\ Bytes(share[g]) \in Nat /\ Bytes(share[g]) = Weight(k, share[g])
  BY <1>1, <1>4, BytesSubset
<1>7. \A g \in gs : g.retained_bytes = Bytes(part[g]) + Bytes(share[g])
  BY DEF Accounted
<1>8. Weighs(f, gs) /\ RetainedBytes(gs) = Weight(f, gs)
  <2>1. ASSUME NEW g \in gs PROVE g.retained_bytes \in Nat
    <3> HIDE DEF part, share
    <3>1. Bytes(part[g]) \in Nat /\ Bytes(share[g]) \in Nat
      BY <1>6
    <3>2. g.retained_bytes = Bytes(part[g]) + Bytes(share[g])
      BY <1>7
    <3>3. QED
      BY <3>1, <3>2
  <2>2. QED
    BY <1>1, <2>1, RetainedIsWeight
<1>9. \A g \in gs : f[g] = Weight(h, part[g]) + Weight(k, share[g])
  <2> HIDE DEF part, share, h, k
  <2>1. QED
    BY <1>6, <1>7
<1> HIDE DEF f, h, k, part, share
<1>10. Weight(f, gs) = Weight(h, os) + Weight(k, es)
  BY <1>1, <1>2, <1>3, <1>9, WeightParts
<1>11. QED
  BY <1>2, <1>8, <1>10

\* Deleting groups with their rows keeps the counters of the others right.
LEMMA RetentionKeepsAccounts ==
    ASSUME NEW gs, NEW os, NEW es, Accounted(gs, os, es), NEW gone \in SUBSET gs
    PROVE  /\ Accounted(gs \ gone, Cascade(os, gone), Cascade(es, gone))
           /\ Bytes(Cascade(os, gone)) + Bytes(Cascade(es, gone)) <= Bytes(os) + Bytes(es)
           /\ Bytes(Cascade(os, gone)) + Bytes(Cascade(es, gone)) \in Nat
           /\ Bytes(os) + Bytes(es) \in Nat
<1>1. IsFiniteSet(gs) /\ HasBytes(os) /\ HasBytes(es)
  BY DEF Accounted
<1>2. Cascade(os, gone) \in SUBSET os /\ Cascade(es, gone) \in SUBSET es
  BY DEF Cascade
<1>3. /\ HasBytes(Cascade(os, gone)) /\ Bytes(Cascade(os, gone)) <= Bytes(os)
      /\ Bytes(Cascade(os, gone)) \in Nat /\ Bytes(os) \in Nat
      /\ HasBytes(Cascade(es, gone)) /\ Bytes(Cascade(es, gone)) <= Bytes(es)
      /\ Bytes(Cascade(es, gone)) \in Nat /\ Bytes(es) \in Nat
  BY <1>1, <1>2, BytesSubset
<1>4. IsFiniteSet(gs \ gone)
  BY <1>1, FS_Subset
<1>5. \A g \in gs \ gone : /\ OfGroup(Cascade(os, gone), g) = OfGroup(os, g)
                           /\ OfGroup(Cascade(es, gone), g) = OfGroup(es, g)
  BY DEF OfGroup, Cascade, Accounted
<1>6. QED
  BY <1>3, <1>4, <1>5 DEF Accounted

\* Marking groups complete keeps their counters and their rows.
LEMMA CompletionKeepsAccounts ==
    ASSUME NEW gs \in SUBSET Group, NEW os, NEW es, Accounted(gs, os, es), NEW id
    PROVE  Accounted(Completed(gs, id), os, es)
<1> DEFINE mark == [g \in gs |-> MarkComplete(g, id)]
<1>1. mark \in Surjection(gs, Completed(gs, id))
  BY DEF Surjection, Completed
<1>2. IsFiniteSet(Completed(gs, id))
  BY <1>1, FS_Surjection DEF Accounted
<1>3. \A g \in gs : /\ MarkComplete(g, id).id = g.id
                    /\ MarkComplete(g, id).retained_bytes = g.retained_bytes
  BY MarkedRow
<1>4. \A c \in Completed(gs, id) :
          \E g \in gs : c = MarkComplete(g, id) /\ c.id = g.id /\ c.retained_bytes = g.retained_bytes
  BY <1>3 DEF Completed
<1>5. \A c, d \in Completed(gs, id) : c.id = d.id => c = d
  BY <1>4 DEF Accounted
<1>6. \A c \in Completed(gs, id) :
          c.retained_bytes = Bytes(OfGroup(os, c)) + Bytes(OfGroup(es, c))
  <2> SUFFICES ASSUME NEW c \in Completed(gs, id)
               PROVE  c.retained_bytes = Bytes(OfGroup(os, c)) + Bytes(OfGroup(es, c))
    OBVIOUS
  <2>1. PICK g \in gs : c.id = g.id /\ c.retained_bytes = g.retained_bytes
    BY <1>4
  <2>2. OfGroup(os, c) = OfGroup(os, g) /\ OfGroup(es, c) = OfGroup(es, g)
    BY <2>1 DEF OfGroup
  <2>3. QED
    BY <2>1, <2>2 DEF Accounted
<1>7. QED
  BY <1>2, <1>5, <1>6 DEF Accounted

\* The row g is that of a group which object o opens.
OpensGroup(g, o, gs, os, es) ==
    /\ g.id = o.group /\ g.retained_bytes = o.bytes /\ o.bytes \in Nat
    /\ \A h \in gs : h.id # o.group
    /\ \A r \in os \cup es : r.group # o.group

\* The first object of a group is all its counter counts.
LEMMA OpeningKeepsAccounts ==
    ASSUME NEW gs, NEW os, NEW es, Accounted(gs, os, es),
           NEW o, NEW g, OpensGroup(g, o, gs, os, es)
    PROVE  Accounted(gs \cup {g}, os \cup {o}, es)
<1>1. IsFiniteSet(gs) /\ HasBytes(os) /\ HasBytes(es)
  BY DEF Accounted
<1>2. HasBytes(os \cup {o})
  <2>1. o \notin os /\ o.bytes \in Nat
    BY DEF OpensGroup
  <2>2. QED
    BY <1>1, <2>1, BytesAdd
<1>4. \A h \in gs : OfGroup(os \cup {o}, h) = OfGroup(os, h)
  BY DEF OfGroup, OpensGroup
<1>5. OfGroup(os \cup {o}, g) = {} \cup {o} /\ OfGroup(es, g) = {}
  BY DEF OfGroup, OpensGroup
<1>6. Bytes({} \cup {o}) = o.bytes + 0 /\ Bytes({}) = 0
  <2>1. Bytes({} \cup {o}) = Bytes({}) + o.bytes
    BY BytesNone, BytesAdd DEF OpensGroup
  <2>2. QED
    BY <2>1, BytesNone DEF OpensGroup
<1>7. g.retained_bytes = Bytes(OfGroup(os \cup {o}, g)) + Bytes(OfGroup(es, g))
  <2>1. Bytes(OfGroup(os \cup {o}, g)) = o.bytes + 0 /\ Bytes(OfGroup(es, g)) = 0
    BY <1>5, <1>6
  <2>2. QED
    BY <2>1 DEF OpensGroup
<1>8. IsFiniteSet(gs \cup {g})
  BY <1>1, FS_AddElement
<1>9. \A a, b \in gs \cup {g} : a.id = b.id => a = b
  BY DEF Accounted, OpensGroup
<1>10. \A h \in gs \cup {g} :
          h.retained_bytes = Bytes(OfGroup(os \cup {o}, h)) + Bytes(OfGroup(es, h))
  BY <1>4, <1>7 DEF Accounted
<1>11. QED
  BY <1>1, <1>2, <1>8, <1>9, <1>10 DEF Accounted

\* The row x is that of group g with the row o added.
Grows(g, x, o) ==
    /\ g.id = o.group /\ x.id = g.id
    /\ x.retained_bytes = g.retained_bytes + o.bytes /\ o.bytes \in Nat

\* A row added to a group is added to its counter.
LEMMA GrowthKeepsAccounts ==
    ASSUME NEW gs, NEW os, NEW es, Accounted(gs, os, es),
           NEW o, o \notin os, NEW g \in gs, NEW x, Grows(g, x, o)
    PROVE  Accounted((gs \ {g}) \cup {x}, os \cup {o}, es)
<1>0. /\ g.id = o.group /\ x.id = g.id
      /\ x.retained_bytes = g.retained_bytes + o.bytes /\ o.bytes \in Nat
  BY DEF Grows
<1> DEFINE new == (gs \ {g}) \cup {x}
<1>1. IsFiniteSet(gs) /\ HasBytes(os) /\ HasBytes(es)
  BY DEF Accounted
<1>2. HasBytes(os \cup {o})
  BY <1>0, <1>1, BytesAdd
<1>4. ASSUME NEW h \in gs \ {g}
      PROVE  OfGroup(os \cup {o}, h) = OfGroup(os, h)
  BY <1>0 DEF OfGroup, Accounted
<1>5. OfGroup(os \cup {o}, x) = OfGroup(os, g) \cup {o} /\ OfGroup(es, x) = OfGroup(es, g)
  BY <1>0 DEF OfGroup
<1>6. /\ HasBytes(OfGroup(os, g)) /\ Bytes(OfGroup(os, g)) \in Nat
      /\ Bytes(OfGroup(es, g)) \in Nat
  <2>1. OfGroup(os, g) \in SUBSET os /\ OfGroup(es, g) \in SUBSET es
    BY DEF OfGroup
  <2>2. QED
    BY <1>1, <2>1, BytesSubset
<1>7. Bytes(OfGroup(os, g) \cup {o}) = Bytes(OfGroup(os, g)) + o.bytes
  <2>1. o \notin OfGroup(os, g)
    BY DEF OfGroup
  <2>2. QED
    BY <1>0, <1>6, <2>1, BytesAdd
<1>8. x.retained_bytes = Bytes(OfGroup(os \cup {o}, x)) + Bytes(OfGroup(es, x))
  <2>1. g.retained_bytes = Bytes(OfGroup(os, g)) + Bytes(OfGroup(es, g))
    BY DEF Accounted
  <2>2. QED
    BY <1>0, <1>5, <1>6, <1>7, <2>1
<1>9. IsFiniteSet(new)
  <2>1. IsFiniteSet(gs \ {g})
    BY <1>1, FS_RemoveElement
  <2>2. QED
    BY <2>1, FS_AddElement
<1>10. \A a, b \in new : a.id = b.id => a = b
  BY <1>0 DEF Accounted
<1>11. \A h \in new :
          h.retained_bytes = Bytes(OfGroup(os \cup {o}, h)) + Bytes(OfGroup(es, h))
  BY <1>4, <1>8 DEF Accounted
<1>12. QED
  BY <1>1, <1>2, <1>9, <1>10, <1>11 DEF Accounted

\* The two tables play the same part.
LEMMA AccountsOfEitherTable ==
    ASSUME NEW gs, NEW os, NEW es, Accounted(gs, os, es)
    PROVE  Accounted(gs, es, os) /\ Bytes(os) \in Nat /\ Bytes(es) \in Nat
<1>1. HasBytes(os) /\ HasBytes(es)
  BY DEF Accounted
<1>2. \A g \in gs : Bytes(OfGroup(os, g)) \in Nat /\ Bytes(OfGroup(es, g)) \in Nat
  <2>1. \A g \in gs : OfGroup(os, g) \in SUBSET os /\ OfGroup(es, g) \in SUBSET es
    BY DEF OfGroup
  <2>2. QED
    BY <1>1, <2>1, BytesSubset
<1>3. \A g \in gs : g.retained_bytes = Bytes(OfGroup(es, g)) + Bytes(OfGroup(os, g))
  BY <1>2 DEF Accounted
<1>4. Bytes(os) \in Nat /\ Bytes(es) \in Nat
  BY <1>1, BytesSubset
<1>5. QED
  BY <1>1, <1>3, <1>4 DEF Accounted
\* The function f gives the bytes of each stream's rows.
ByteCounts(f, os, es) ==
    \A s \in Streams : f[s] = Bytes(os[s]) + Bytes(es[s]) /\ f[s] \in Nat

\* What the streams of a set hold, from the per-stream numbers.
LEMMA RowsOfStreams ==
    ASSUME NEW os, NEW es, NEW f, NEW S \in SUBSET Streams, ByteCounts(f, os, es)
    PROVE  Weighs(f, S) /\ RowBytes(os, es, S) = Weight(f, S)
<1> DEFINE g == [s \in S |-> Bytes(os[s]) + Bytes(es[s])]
<1>1. IsFiniteSet(S)
  BY StreamsAssumption, FS_Subset
<1>2. \A s \in S : Bytes(os[s]) + Bytes(es[s]) \in Nat /\ g[s] = f[s] /\ f[s] \in Nat
  BY DEF ByteCounts
<1>3. RowBytes(os, es, S) = Weight(g, S)
  BY <1>1, <1>2, RowsAreWeight
<1>4. Weighs(f, S)
  BY <1>1, <1>2 DEF Weighs
<1> HIDE DEF g
<1>5. Weight(g, S) = Weight(f, S)
  BY <1>2, <1>4, WeightSame
<1>6. QED
  BY <1>3, <1>4, <1>5

\* The bytes of each stream's rows, as a function.
StreamBytes(os, es) == [s \in Streams |-> Bytes(os[s]) + Bytes(es[s])]

\* A step that lets one stream's rows grow by n, and no other's, keeps the
\* quotas if it kept them by that much.
LEMMA QuotaGrowth ==
    ASSUME NEW os, NEW es, NEW xs, NEW ys, NEW owner,
           WithinQuota(os, es, owner),
           \A t \in Streams : StreamBytes(os, es)[t] \in Nat /\ StreamBytes(xs, ys)[t] \in Nat,
           NEW s \in Streams, NEW n \in Nat, NEW p,
           \A t \in Streams \ {s} : StreamBytes(xs, ys)[t] <= StreamBytes(os, es)[t],
           StreamBytes(xs, ys)[s] <= StreamBytes(os, es)[s] + n,
           owner[s] = p,
           RowBytes(os, es, Streams) + n <= MaxTotalBytes,
           RowBytes(os, es, {t \in Streams : owner[t] = p}) + n <= MaxPublisherBytes
    PROVE  WithinQuota(xs, ys, owner)
<1> DEFINE f == StreamBytes(os, es)
           g == StreamBytes(xs, ys)
           Of(q) == {t \in Streams : owner[t] = q}
<1>0. /\ ByteCounts(f, os, es) /\ ByteCounts(g, xs, ys)
      /\ MaxTotalBytes \in Nat /\ MaxPublisherBytes \in Nat
  BY LimitAssumption DEF StreamBytes, ByteCounts
<1> HIDE DEF f, g
<1>1. ASSUME NEW S \in SUBSET Streams
      PROVE  /\ Weighs(f, S) /\ RowBytes(os, es, S) = Weight(f, S)
             /\ Weighs(g, S) /\ RowBytes(xs, ys, S) = Weight(g, S)
             /\ Weight(f, S) \in Nat /\ Weight(g, S) \in Nat
  <2>1. Weighs(f, S) /\ RowBytes(os, es, S) = Weight(f, S)
    BY <1>0, RowsOfStreams
  <2>2. Weighs(g, S) /\ RowBytes(xs, ys, S) = Weight(g, S)
    BY <1>0, RowsOfStreams
  <2>3. QED
    BY <2>1, <2>2, TokensFinite
<1>2. \A t \in Streams \ {s} : g[t] <= f[t]
  BY DEF f, g
<1>3. g[s] <= f[s] + n
  BY DEF f, g
<1>4. ASSUME NEW S \in SUBSET Streams
      PROVE  RowBytes(xs, ys, S) <= RowBytes(os, es, S) + n
  <2>1. Weight(g, S) <= Weight(f, S) + n
    BY <1>1, <1>2, <1>3, WeightGrows
  <2>2. QED
    BY <1>1, <2>1
<1>5. ASSUME NEW S \in SUBSET Streams, s \notin S
      PROVE  RowBytes(xs, ys, S) <= RowBytes(os, es, S)
  <2>1. Weight(g, S) <= Weight(f, S)
    BY <1>1, <1>2, <1>5, WeightMonotone
  <2>2. QED
    BY <1>1, <2>1
<1>6. \A S \in SUBSET Streams : RowBytes(xs, ys, S) \in Nat /\ RowBytes(os, es, S) \in Nat
  BY <1>1
<1>7. RowBytes(xs, ys, Streams) <= MaxTotalBytes
  <2>1. Streams \in SUBSET Streams
    OBVIOUS
  <2>2. RowBytes(xs, ys, Streams) <= RowBytes(os, es, Streams) + n
    BY <1>4, <2>1
  <2>3. RowBytes(xs, ys, Streams) \in Nat /\ RowBytes(os, es, Streams) \in Nat
    BY <1>6, <2>1
  <2>4. QED
    BY <1>0, <2>2, <2>3
<1>8. ASSUME NEW q \in Publishers PROVE RowBytes(xs, ys, Of(q)) <= MaxPublisherBytes
  <2>1. Of(q) \in SUBSET Streams
    OBVIOUS
  <2>2. RowBytes(xs, ys, Of(q)) \in Nat /\ RowBytes(os, es, Of(q)) \in Nat
    BY <1>6, <2>1
  <2>3. CASE q = p
    <3>1. RowBytes(os, es, Of(q)) + n <= MaxPublisherBytes
      BY <2>3
    <3>2. RowBytes(xs, ys, Of(q)) <= RowBytes(os, es, Of(q)) + n
      BY <1>4, <2>1
    <3>3. QED
      BY <1>0, <2>2, <3>1, <3>2
  <2>4. CASE q # p
    <3>1. s \notin Of(q)
      BY <2>4
    <3>2. RowBytes(xs, ys, Of(q)) <= RowBytes(os, es, Of(q))
      BY <1>5, <2>1, <3>1
    <3>3. RowBytes(os, es, Of(q)) <= MaxPublisherBytes
      BY DEF WithinQuota
    <3>4. QED
      BY <1>0, <2>2, <3>2, <3>3
  <2>5. QED
    BY <2>3, <2>4
<1>9. QED
  BY <1>7, <1>8 DEF WithinQuota

\* The counters the code adds up before it lets a group grow are the bytes
\* that are really there.
LEMMA CountersAreRows ==
    ASSUME StoreConsistent, StoreAccounted, NEW S \in SUBSET Streams
    PROVE  StreamsBytes(S) = RowBytes(objects, envelopes, S)
<1> DEFINE f == StreamBytes(objects, envelopes)
           g == [s \in S |-> RetainedBytes(groups[s])]
<1>1. ASSUME NEW s \in Streams
      PROVE  /\ RetainedBytes(groups[s]) = Bytes(objects[s]) + Bytes(envelopes[s])
             /\ Bytes(objects[s]) + Bytes(envelopes[s]) \in Nat
  <2>1. Accounted(groups[s], objects[s], envelopes[s])
    BY DEF StoreAccounted
  <2>2. \A r \in objects[s] \cup envelopes[s] : \E h \in groups[s] : h.id = r.group
    BY DEF StoreConsistent, Consistent, ObjectsFill, KeysAgree
  <2>3. Bytes(objects[s]) \in Nat /\ Bytes(envelopes[s]) \in Nat
    BY <2>1, AccountsOfEitherTable
  <2>4. QED
    BY <2>1, <2>2, <2>3, RetainedIsRows
<1>2. ByteCounts(f, objects, envelopes)
  BY <1>1 DEF StreamBytes, ByteCounts
<1>3. \A s \in S : g[s] = f[s] /\ RetainedBytes(groups[s]) \in Nat
  BY <1>1, <1>2 DEF ByteCounts
<1>4. IsFiniteSet(S)
  BY StreamsAssumption, FS_Subset
<1>5. StreamsBytes(S) = Weight(g, S)
  BY <1>3, <1>4, StreamsIsWeight
<1> HIDE DEF f, g
<1>6. Weighs(f, S) /\ RowBytes(objects, envelopes, S) = Weight(f, S)
  BY <1>2, RowsOfStreams
<1>7. Weight(g, S) = Weight(f, S)
  BY <1>3, <1>6, WeightSame
<1>8. QED
  BY <1>5, <1>6, <1>7

\* A transaction that passed check_group_growth, added n bytes of rows, counted
\* them and ran enforce_retention stays within the quotas.
LEMMA CommitKeepsQuota ==
    ASSUME TypeOK, StoreConsistent, OwnerBinding, StoreAccounted, Quota,
           NEW s \in Streams, NEW gs, NEW os, NEW es, NEW now, NEW n \in Nat,
           CommitWithRetention(s, gs, os, es, now), UNCHANGED publisher_id,
           Accounted(gs, os, es),
           Bytes(os) + Bytes(es) = Bytes(objects[s]) + Bytes(envelopes[s]) + n,
           descriptor[s] # None,
           StreamsBytes(Streams) + n <= MaxTotalBytes,
           StreamsBytes(PublisherStreams(descriptor[s].publisher)) + n <= MaxPublisherBytes
    PROVE  StoreAccounted' /\ Quota'
<1> DEFINE gone == Evicted(gs, now)
           before == StreamBytes(objects, envelopes)
           after == StreamBytes(objects', envelopes')
<1>1. /\ groups'[s] = gs \ gone /\ objects'[s] = Cascade(os, gone)
      /\ envelopes'[s] = Cascade(es, gone)
      /\ \A t \in Streams \ {s} : /\ groups'[t] = groups[t] /\ objects'[t] = objects[t]
                                   /\ envelopes'[t] = envelopes[t]
  BY DEF CommitWithRetention, TypeOK
<1>2. gone \in SUBSET gs
  BY DEF Evicted
<1> HIDE DEF gone
<1>3. /\ Accounted(gs \ gone, Cascade(os, gone), Cascade(es, gone))
      /\ Bytes(Cascade(os, gone)) + Bytes(Cascade(es, gone)) <= Bytes(os) + Bytes(es)
      /\ Bytes(Cascade(os, gone)) + Bytes(Cascade(es, gone)) \in Nat
  BY <1>2, RetentionKeepsAccounts
<1>4. ASSUME NEW t \in Streams PROVE Accounted(groups'[t], objects'[t], envelopes'[t])
  <2>1. CASE t = s
    BY <1>1, <1>3, <2>1
  <2>2. CASE t # s
    BY <1>1, <2>2 DEF StoreAccounted
  <2>3. QED
    BY <2>1, <2>2
<1>5. \A t \in Streams : before[t] \in Nat /\ after[t] \in Nat
  <2> SUFFICES ASSUME NEW t \in Streams PROVE before[t] \in Nat /\ after[t] \in Nat
    OBVIOUS
  <2>1. Accounted(groups[t], objects[t], envelopes[t])
    BY DEF StoreAccounted
  <2>2. Bytes(objects[t]) \in Nat /\ Bytes(envelopes[t]) \in Nat
    BY <2>1, AccountsOfEitherTable
  <2>3. Bytes(objects'[t]) \in Nat /\ Bytes(envelopes'[t]) \in Nat
    BY <1>4, AccountsOfEitherTable
  <2>4. QED
    BY <2>2, <2>3 DEF StreamBytes
<1>6. \A t \in Streams \ {s} : after[t] <= before[t]
  <2>1. \A t \in Streams \ {s} : after[t] = before[t]
    BY <1>1 DEF StreamBytes
  <2> HIDE DEF after, before
  <2>2. QED
    BY <1>5, <2>1
<1>7. after[s] <= before[s] + n
  BY <1>1, <1>3 DEF StreamBytes
<1>8. publisher_id[s] = descriptor[s].publisher
  BY DEF OwnerBinding
<1>9. /\ StreamsBytes(Streams) = RowBytes(objects, envelopes, Streams)
      /\ StreamsBytes(PublisherStreams(descriptor[s].publisher)) =
            RowBytes(objects, envelopes, {t \in Streams : publisher_id[t] = descriptor[s].publisher})
  BY CountersAreRows DEF PublisherStreams
<1>10. WithinQuota(objects, envelopes, publisher_id)
  BY DEF Quota
<1> HIDE DEF before, after
<1>11. WithinQuota(objects', envelopes', publisher_id)
  BY <1>5, <1>6, <1>7, <1>8, <1>9, <1>10, QuotaGrowth DEF before, after
<1>12. StoreAccounted'
  BY <1>4 DEF StoreAccounted
<1>13. QED
  BY <1>11, <1>12 DEF Quota

\* A row more in one table.
LEMMA OneMoreRow ==
    ASSUME NEW gs, NEW os, NEW es, Accounted(gs, os, es), NEW o, o \notin os, o.bytes \in Nat
    PROVE  Bytes(os \cup {o}) + Bytes(es) = Bytes(os) + Bytes(es) + o.bytes
<1>1. HasBytes(os) /\ Bytes(os) \in Nat /\ Bytes(es) \in Nat
  BY AccountsOfEitherTable DEF Accounted
<1>2. Bytes(os \cup {o}) = Bytes(os) + o.bytes
  BY <1>1, BytesAdd
<1>3. QED
  BY <1>1, <1>2

\* An object that opens a group.
LEMMA QuotaFirstObject ==
    ASSUME TypeOK, StoreConsistent, OwnerBinding, StoreAccounted, Quota,
           NEW s \in Streams, NEW o \in Object, NEW now \in Times, StoreFirstObject(s, o, now)
    PROVE  StoreAccounted' /\ Quota'
<1> DEFINE cs == Completed(groups[s], active[s])
           g == NewGroup(o, now)
<1>1. /\ Verified(s, o) /\ \A h \in groups[s] : h.id # o.group
      /\ CommitWithRetention(s, cs \cup {g}, objects[s] \cup {o}, envelopes[s], now)
      /\ UNCHANGED publisher_id
      /\ StreamsBytes(Streams) + o.bytes <= MaxTotalBytes
      /\ StreamsBytes(PublisherStreams(descriptor[s].publisher)) + o.bytes <= MaxPublisherBytes
  BY DEF StoreFirstObject, InSequence, ValidateGroupProgression, CheckGroupGrowth
<1>2. o.bytes \in Nat
  BY DataAssumption DEF Object
<1>3. descriptor[s] # None
  BY <1>1 DEF Verified
<1>4. g.id = o.group /\ g.retained_bytes = o.bytes
  BY DEF NewGroup
<1>5. groups[s] \in SUBSET Group
  BY DEF TypeOK
<1>6. \A c \in cs : c.id # o.group
  BY <1>1, <1>5, MarkedRow DEF Completed
<1>7. \A r \in objects[s] \cup envelopes[s] : r.group # o.group
  BY <1>1 DEF StoreConsistent, Consistent, ObjectsFill, KeysAgree
<1>8. Accounted(cs, objects[s], envelopes[s])
  BY <1>5, CompletionKeepsAccounts DEF StoreAccounted
<1> HIDE DEF cs, g
<1>9. Accounted(cs \cup {g}, objects[s] \cup {o}, envelopes[s])
  <2>1. OpensGroup(g, o, cs, objects[s], envelopes[s])
    BY <1>2, <1>4, <1>6, <1>7 DEF OpensGroup
  <2>2. QED
    BY <1>8, <2>1, OpeningKeepsAccounts
<1>10. Bytes(objects[s] \cup {o}) + Bytes(envelopes[s])
         = Bytes(objects[s]) + Bytes(envelopes[s]) + o.bytes
  <2>1. o \notin objects[s]
    BY <1>7
  <2>2. QED
    BY <1>2, <1>8, <2>1, OneMoreRow
<1>11. QED
  BY <1>1, <1>2, <1>3, <1>9, <1>10, CommitKeepsQuota

\* An object of the active group.
LEMMA QuotaNextObject ==
    ASSUME TypeOK, StoreConsistent, OwnerBinding, StoreAccounted, Quota,
           NEW s \in Streams, NEW o \in Object, NEW now \in Times, StoreNextObject(s, o, now)
    PROVE  StoreAccounted' /\ Quota'
<1>1. PICK g \in groups[s] :
        /\ g.id = o.group
        /\ CheckGroupGrowth(s, g, objects[s], MaxObjectsPerGroup, o.bytes)
        /\ CommitWithRetention(s, (groups[s] \ {g}) \cup {Extended(g, o, now)},
                               objects[s] \cup {o}, envelopes[s], now)
  BY DEF StoreNextObject
<1>2. /\ StreamsBytes(Streams) + o.bytes <= MaxTotalBytes
      /\ StreamsBytes(PublisherStreams(descriptor[s].publisher)) + o.bytes <= MaxPublisherBytes
  BY <1>1 DEF CheckGroupGrowth
<1>3. o \notin objects[s] /\ descriptor[s] # None /\ UNCHANGED publisher_id
  BY DEF StoreNextObject, InSequence, Stored, Verified
<1>4. o.bytes \in Nat
  BY DataAssumption DEF Object
<1>5. /\ Extended(g, o, now).id = g.id
      /\ Extended(g, o, now).retained_bytes = g.retained_bytes + o.bytes
  <2>1. g \in Group
    BY DEF TypeOK
  <2>2. QED
    BY <2>1, ExtendedFields
<1>6. Accounted(groups[s], objects[s], envelopes[s])
  BY DEF StoreAccounted
<1>7. Accounted((groups[s] \ {g}) \cup {Extended(g, o, now)}, objects[s] \cup {o}, envelopes[s])
  <2>1. Grows(g, Extended(g, o, now), o)
    BY <1>1, <1>4, <1>5 DEF Grows
  <2>2. QED
    BY <1>3, <1>6, <2>1, GrowthKeepsAccounts
<1>8. Bytes(objects[s] \cup {o}) + Bytes(envelopes[s])
        = Bytes(objects[s]) + Bytes(envelopes[s]) + o.bytes
  BY <1>3, <1>4, <1>6, OneMoreRow
<1>9. QED
  BY <1>1, <1>2, <1>3, <1>4, <1>7, <1>8, CommitKeepsQuota

\* An envelope of a retained group.
LEMMA QuotaEnvelope ==
    ASSUME TypeOK, StoreConsistent, OwnerBinding, StoreAccounted, Quota,
           NEW s \in Streams, NEW e \in Envelope, NEW now \in Times, StoreEnvelope(s, e, now)
    PROVE  StoreAccounted' /\ Quota'
<1>1. PICK g \in groups[s] :
        /\ g.id = e.group
        /\ CheckGroupGrowth(s, g, envelopes[s], MaxEnvelopesPerGroup, e.bytes)
        /\ CommitWithRetention(s, (groups[s] \ {g}) \cup {Charged(g, e.bytes)},
                               objects[s], envelopes[s] \cup {e}, now)
  BY DEF StoreEnvelope
<1> DEFINE new == (groups[s] \ {g}) \cup {Charged(g, e.bytes)}
<1>2. /\ StreamsBytes(Streams) + e.bytes <= MaxTotalBytes
      /\ StreamsBytes(PublisherStreams(descriptor[s].publisher)) + e.bytes <= MaxPublisherBytes
  BY <1>1 DEF CheckGroupGrowth
<1>3. e \notin envelopes[s] /\ descriptor[s] # None /\ UNCHANGED publisher_id
  BY DEF StoreEnvelope, HasEnvelope, Verified
<1>4. e.bytes \in Nat /\ e.bytes \in Sizes
  BY DataAssumption DEF Envelope
<1>5. /\ Charged(g, e.bytes).id = g.id
      /\ Charged(g, e.bytes).retained_bytes = g.retained_bytes + e.bytes
  <2>1. g \in Group
    BY DEF TypeOK
  <2>2. QED
    BY <1>4, <2>1, ChargedFields
<1>6. /\ Accounted(groups[s], envelopes[s], objects[s])
      /\ Bytes(objects[s]) \in Nat /\ Bytes(envelopes[s]) \in Nat
  BY AccountsOfEitherTable DEF StoreAccounted
<1>7. Accounted(new, envelopes[s] \cup {e}, objects[s])
  <2>1. Grows(g, Charged(g, e.bytes), e)
    BY <1>1, <1>4, <1>5 DEF Grows
  <2>2. QED
    BY <1>3, <1>6, <2>1, GrowthKeepsAccounts
<1> HIDE DEF new
<1>8. Accounted(new, objects[s], envelopes[s] \cup {e}) /\ Bytes(envelopes[s] \cup {e}) \in Nat
  BY <1>7, AccountsOfEitherTable
<1>9. Bytes(objects[s]) + Bytes(envelopes[s] \cup {e})
        = Bytes(objects[s]) + Bytes(envelopes[s]) + e.bytes
  <2>1. Bytes(envelopes[s] \cup {e}) + Bytes(objects[s])
          = Bytes(envelopes[s]) + Bytes(objects[s]) + e.bytes
    BY <1>3, <1>4, <1>6, OneMoreRow
  <2>2. QED
    BY <1>4, <1>6, <1>8, <2>1
<1>10. QED
  BY <1>1, <1>2, <1>3, <1>4, <1>8, <1>9, CommitKeepsQuota DEF new
\* A step that lets no stream's rows grow, and gives streams away only while
\* they hold nothing, keeps the quotas.
LEMMA QuotaShrinks ==
    ASSUME NEW os, NEW es, NEW xs, NEW ys, NEW owner, NEW heir,
           WithinQuota(os, es, owner),
           \A t \in Streams : StreamBytes(os, es)[t] \in Nat /\ StreamBytes(xs, ys)[t] \in Nat,
           \A t \in Streams : StreamBytes(xs, ys)[t] <= StreamBytes(os, es)[t],
           \A t \in Streams : heir[t] = owner[t] \/ StreamBytes(xs, ys)[t] = 0
    PROVE  WithinQuota(xs, ys, heir)
<1> DEFINE f == StreamBytes(os, es)
           g == StreamBytes(xs, ys)
<1>0. /\ ByteCounts(f, os, es) /\ ByteCounts(g, xs, ys)
      /\ MaxTotalBytes \in Nat /\ MaxPublisherBytes \in Nat
  BY LimitAssumption DEF StreamBytes, ByteCounts
<1>1. \A t \in Streams : g[t] <= f[t] /\ (heir[t] = owner[t] \/ g[t] = 0)
  OBVIOUS
<1> HIDE DEF f, g
<1>2. ASSUME NEW S \in SUBSET Streams
      PROVE  Weighs(f, S) /\ RowBytes(os, es, S) = Weight(f, S)
  BY <1>0, RowsOfStreams
<1>3. ASSUME NEW S \in SUBSET Streams, NEW T \in SUBSET Streams,
             \A t \in S : g[t] = 0 \/ t \in T, NEW n \in Nat, RowBytes(os, es, T) <= n
      PROVE  RowBytes(xs, ys, S) <= n
  <2>1. Weighs(f, T) /\ RowBytes(os, es, T) = Weight(f, T)
    BY <1>2
  <2>2. Weighs(g, S) /\ RowBytes(xs, ys, S) = Weight(g, S)
    BY <1>0, RowsOfStreams
  <2>3. \A t \in S : g[t] = 0 \/ (t \in T /\ g[t] <= f[t])
    BY <1>1, <1>3
  <2>4. Weight(g, S) <= Weight(f, T)
    BY <2>1, <2>2, <2>3, WeightBounded
  <2>5. Weight(g, S) \in Nat /\ Weight(f, T) \in Nat
    BY <2>1, <2>2, TokensFinite
  <2>6. QED
    BY <1>3, <2>1, <2>2, <2>4, <2>5
<1>4. RowBytes(xs, ys, Streams) <= MaxTotalBytes
  <2>1. RowBytes(os, es, Streams) <= MaxTotalBytes /\ Streams \in SUBSET Streams
    BY DEF WithinQuota
  <2>2. QED
    BY <1>0, <1>3, <2>1
<1>5. ASSUME NEW p \in Publishers
      PROVE  RowBytes(xs, ys, {t \in Streams : heir[t] = p}) <= MaxPublisherBytes
  <2> DEFINE S == {t \in Streams : heir[t] = p}
             T == {t \in Streams : owner[t] = p}
  <2>1. RowBytes(os, es, T) <= MaxPublisherBytes
    BY DEF WithinQuota
  <2>2. \A t \in S : g[t] = 0 \/ t \in T
    BY <1>1
  <2>3. S \in SUBSET Streams /\ T \in SUBSET Streams
    OBVIOUS
  <2> HIDE DEF S, T
  <2>4. RowBytes(xs, ys, S) <= MaxPublisherBytes
    BY <1>0, <1>3, <2>1, <2>2, <2>3
  <2>5. QED
    BY <2>4 DEF S
<1>6. QED
  BY <1>4, <1>5 DEF WithinQuota

\* The bytes of every stream's rows are a number.
LEMMA StreamBytesTyped ==
    ASSUME NEW gs, NEW os, NEW es, \A s \in Streams : Accounted(gs[s], os[s], es[s])
    PROVE  ByteCounts(StreamBytes(os, es), os, es)
<1> SUFFICES ASSUME NEW s \in Streams
             PROVE  /\ StreamBytes(os, es)[s] = Bytes(os[s]) + Bytes(es[s])
                    /\ StreamBytes(os, es)[s] \in Nat
  BY DEF ByteCounts
<1>1. Bytes(os[s]) \in Nat /\ Bytes(es[s]) \in Nat
  BY AccountsOfEitherTable
<1>2. QED
  BY <1>1 DEF StreamBytes

\* The periodic retention pass deletes from every stream.
LEMMA QuotaRetention ==
    ASSUME StoreAccounted, Quota, NEW now \in Times, EnforceRetentionAt(now)
    PROVE  StoreAccounted' /\ Quota'
<1>1. ASSUME NEW s \in Streams
      PROVE  /\ Accounted(groups'[s], objects'[s], envelopes'[s])
             /\ Bytes(objects'[s]) + Bytes(envelopes'[s]) <= Bytes(objects[s]) + Bytes(envelopes[s])
  <2> DEFINE gone == Evicted(groups[s], now)
  <2>1. /\ groups'[s] = groups[s] \ gone /\ objects'[s] = Cascade(objects[s], gone)
        /\ envelopes'[s] = Cascade(envelopes[s], gone)
    BY DEF EnforceRetentionAt
  <2>2. gone \in SUBSET groups[s] /\ Accounted(groups[s], objects[s], envelopes[s])
    BY DEF Evicted, StoreAccounted
  <2> HIDE DEF gone
  <2>3. /\ Accounted(groups[s] \ gone, Cascade(objects[s], gone), Cascade(envelopes[s], gone))
        /\ Bytes(Cascade(objects[s], gone)) + Bytes(Cascade(envelopes[s], gone))
              <= Bytes(objects[s]) + Bytes(envelopes[s])
    BY <2>2, RetentionKeepsAccounts
  <2>4. QED
    BY <2>1, <2>3
<1>2. \A s \in Streams : /\ StreamBytes(objects, envelopes)[s] = Bytes(objects[s]) + Bytes(envelopes[s])
                         /\ StreamBytes(objects, envelopes)[s] \in Nat
  BY StreamBytesTyped DEF StoreAccounted, ByteCounts
<1>3. \A s \in Streams : /\ StreamBytes(objects', envelopes')[s] = Bytes(objects'[s]) + Bytes(envelopes'[s])
                         /\ StreamBytes(objects', envelopes')[s] \in Nat
  BY <1>1, StreamBytesTyped DEF ByteCounts
<1>4. \A s \in Streams : StreamBytes(objects', envelopes')[s] <= StreamBytes(objects, envelopes)[s]
  BY <1>1, <1>2, <1>3
<1>5. WithinQuota(objects', envelopes', publisher_id)
  BY <1>2, <1>3, <1>4, QuotaShrinks DEF Quota
<1>6. publisher_id' = publisher_id
  BY DEF EnforceRetentionAt
<1>7. QED
  BY <1>1, <1>5, <1>6 DEF Quota, StoreAccounted

\* A stream without rows has no bytes.
LEMMA NoRowsNoBytes ==
    ASSUME NEW os, NEW es, NEW s \in Streams, os[s] = {}, es[s] = {}
    PROVE  StreamBytes(os, es)[s] = 0
<1>1. Bytes(os[s]) = 0 /\ Bytes(es[s]) = 0
  BY BytesNone, Zenon
<1>2. QED
  BY <1>1 DEF StreamBytes

\* A stream that is given an owner holds nothing yet.
LEMMA QuotaDescriptor ==
    ASSUME TypeOK, OwnerBinding, StoreAccounted, Quota,
           NEW s \in Streams, NEW d \in Descriptors, PutDescriptor(s, d)
    PROVE  StoreAccounted' /\ Quota'
<1>1. UNCHANGED <<groups, objects, envelopes>>
  BY DEF PutDescriptor, ReplaceDescriptor, InsertDescriptor
<1>2. \A t \in Streams : /\ StreamBytes(objects, envelopes)[t] = Bytes(objects[t]) + Bytes(envelopes[t])
                         /\ StreamBytes(objects, envelopes)[t] \in Nat
  BY StreamBytesTyped DEF StoreAccounted, ByteCounts
<1>3. ASSUME NEW t \in Streams
      PROVE  publisher_id'[t] = publisher_id[t] \/ StreamBytes(objects, envelopes)[t] = 0
  <2>1. CASE publisher_id[t] # None \/ t # s
    BY <2>1 DEF PutDescriptor, ReplaceDescriptor, InsertDescriptor, TypeOK
  <2>2. CASE publisher_id[t] = None
    <3>1. objects[t] \in SUBSET Object /\ envelopes[t] \in SUBSET Envelope
      BY DEF TypeOK
    <3>2. \A r \in objects[t] \cup envelopes[t] : r.publisher \in Publishers /\ r.publisher = None
      BY <2>2, <3>1 DEF OwnerBinding, Object, Envelope
    <3>3. objects[t] = {} /\ envelopes[t] = {}
      BY <3>2, DataAssumption
    <3>4. QED
      BY <3>3, NoRowsNoBytes
  <2>3. QED
    BY <2>1, <2>2
<1>4. \A t \in Streams :
          StreamBytes(objects, envelopes)[t] <= StreamBytes(objects, envelopes)[t]
  BY <1>2
<1>5. WithinQuota(objects, envelopes, publisher_id')
  BY <1>2, <1>3, <1>4, QuotaShrinks DEF Quota
<1>6. QED
  BY <1>1, <1>5 DEF Quota, StoreAccounted

\* Completing the active group touches no row of the other tables.
LEMMA QuotaFinalize ==
    ASSUME TypeOK, StoreAccounted, Quota, NEW s \in Streams, FinalizeStream(s)
    PROVE  StoreAccounted' /\ Quota'
<1>1. UNCHANGED <<publisher_id, objects, envelopes>>
  BY DEF FinalizeStream
<1>2. ASSUME NEW t \in Streams PROVE Accounted(groups'[t], objects[t], envelopes[t])
  <2>1. /\ Accounted(groups[t], objects[t], envelopes[t])
        /\ groups[t] \in SUBSET Group
    BY DEF StoreAccounted, TypeOK
  <2>2. Accounted(Completed(groups[t], active[t]), objects[t], envelopes[t])
    BY <2>1, CompletionKeepsAccounts
  <2>3. groups'[t] = groups[t] \/ groups'[t] = Completed(groups[t], active[t])
    BY DEF FinalizeStream, TypeOK
  <2>4. QED
    BY <2>1, <2>2, <2>3
<1>3. QED
  BY <1>1, <1>2 DEF Quota, StoreAccounted

\* An empty store holds nothing.
LEMMA QuotaInit == Init => StoreAccounted /\ Quota
<1> SUFFICES ASSUME Init PROVE StoreAccounted /\ Quota
  OBVIOUS
<1>1. \A s \in Streams : groups[s] = {} /\ objects[s] = {} /\ envelopes[s] = {}
  BY DEF Init
<1>2. Accounted({}, {}, {})
  BY BytesNone, FS_EmptySet DEF Accounted
<1>3. StoreAccounted
  BY <1>1, <1>2 DEF StoreAccounted
<1> DEFINE f == StreamBytes(objects, envelopes)
<1>4. ByteCounts(f, objects, envelopes)
  BY <1>3, StreamBytesTyped DEF StoreAccounted
<1>5. \A s \in Streams : f[s] = 0
  BY <1>1, NoRowsNoBytes
<1> HIDE DEF f
<1>6. ASSUME NEW S \in SUBSET Streams PROVE RowBytes(objects, envelopes, S) <= 0
  <2>1. Weighs(f, S) /\ RowBytes(objects, envelopes, S) = Weight(f, S)
    BY <1>4, RowsOfStreams
  <2>2. Weighs(f, {}) /\ Weight(f, {}) = 0
    BY FS_EmptySet, WeightEmpty DEF Weighs
  <2>3. \A s \in S : f[s] = 0
    BY <1>5
  <2>4. Weight(f, S) <= Weight(f, {})
    BY <2>1, <2>2, <2>3, WeightBounded
  <2>5. QED
    BY <2>1, <2>2, <2>4
<1>7. ASSUME NEW S \in SUBSET Streams
      PROVE  /\ RowBytes(objects, envelopes, S) <= MaxTotalBytes
             /\ RowBytes(objects, envelopes, S) <= MaxPublisherBytes
  <2>1. RowBytes(objects, envelopes, S) \in Nat
    BY <1>4, RowsOfStreams, TokensFinite
  <2>2. QED
    BY <1>6, <2>1, LimitAssumption
<1>8. Streams \in SUBSET Streams /\ \A p : {t \in Streams : publisher_id[t] = p} \in SUBSET Streams
  OBVIOUS
<1>9. QED
  BY <1>3, <1>7, <1>8 DEF Quota, WithinQuota

\* The counters stay those of the rows, and the rows within the quotas.
LEMMA QuotaStep ==
    ASSUME TypeOK, StoreConsistent, OwnerBinding, StoreAccounted, Quota, [Next]_storeVars
    PROVE  StoreAccounted' /\ Quota'
<1>1. ASSUME NEW s \in Streams, NEW o \in Object, NEW now \in Times, StoreObject(s, o, now)
      PROVE  StoreAccounted' /\ Quota'
  BY <1>1, QuotaFirstObject, QuotaNextObject DEF StoreObject
<1>2. CASE UNCHANGED storeVars
  BY <1>2 DEF storeVars, StoreAccounted, Quota
<1>3. QED
  BY <1>1, <1>2, QuotaDescriptor, QuotaEnvelope, QuotaRetention, QuotaFinalize DEF Next

\* The bytes really stored never exceed the relay's quota or a publisher's:
\* check_group_growth compares sums of per-group counters, taken before the
\* transaction's own eviction, and still the rows of both tables stay within.
THEOREM StoreWithinQuota == Spec => []StoredBytesWithinQuota
<1>1. Init => StoreAccounted /\ Quota
  BY QuotaInit
<1>2. TypeOK /\ StoreConsistent /\ OwnerBinding /\ StoreAccounted /\ Quota /\ [Next]_storeVars
        => StoreAccounted' /\ Quota'
  BY QuotaStep
<1>3. Quota => StoredBytesWithinQuota
  BY QuotaIsOfRows
<1>4. QED
  BY <1>1, <1>2, <1>3, StoreTypeCorrect, StoreAlwaysConsistent, StoreOwnerBinding, PTL DEF Spec

=============================================================================
