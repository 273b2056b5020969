-------------------------- MODULE RelayFeedProofs --------------------------
(***************************************************************************)
(* Proofs about the viewer subscriptions of RelayService, for every number *)
(* of sessions, viewers and streams, every channel capacity and page size. *)
(*                                                                         *)
(* The service only touches the store through its operations, so all that  *)
(* is proved of the store holds of it; and the sessions are exclusive      *)
(* (RelayServiceProofs).  On top of that, the invariant of one             *)
(* subscription says what the page in hand, the receiver's queue and the   *)
(* items between their commit and their broadcast hold between them.       *)
(***************************************************************************)
EXTENDS RelayServiceProofs, NativeStoreProofs, FunctionTheorems, FiniteSetTheorems

-----------------------------------------------------------------------------
(* The service is a client of the store *)

\* Whatever a task does between two awaits is one store operation or none.
LEMMA ServiceStoreStep == ASSUME ServiceNext PROVE [Next]_storeVars
<1>1. ASSUME NEW c \in Sessions, SessionRequest(c)
      PROVE  [Next]_storeVars
  <2>1. ASSUME NEW s \in Streams, NEW d \in Descriptors, PublishDescriptor(c, s, d)
        PROVE  [Next]_storeVars
    BY <2>1 DEF PublishDescriptor, Next
  <2>2. ASSUME NEW s \in Streams, NEW o \in Object, NEW now \in Times,
               PublishObject(c, s, o, now)
        PROVE  [Next]_storeVars
    BY <2>2 DEF PublishObject, Next
  <2>3. ASSUME NEW s \in Streams, NEW e \in Envelope, NEW now \in Times,
               PublishEnvelope(c, s, e, now)
        PROVE  [Next]_storeVars
    BY <2>3 DEF PublishEnvelope, Next
  <2>4. QED
    BY <1>1, <2>1, <2>2, <2>3 DEF SessionRequest, Admit, ResumeValidate, ClaimForPublish, Fail
<1>2. ASSUME NEW c \in Sessions, SessionStep(c)
      PROVE  [Next]_storeVars
  <2>1. ASSUME NEW s \in Streams, Finalize(c, s)
        PROVE  [Next]_storeVars
    BY <2>1 DEF Finalize, Next
  <2>2. QED
    BY <1>2, <2>1 DEF SessionStep, ResumeClaim, ResumeRead, Broadcast, Retire
<1>3. ASSUME NEW v \in Recipients,
             \/ ViewerStep(v) \/ Disconnect(v)
             \/ \E s \in Streams, start \in StartRequests : Subscribe(v, s, start)
      PROVE  [Next]_storeVars
  BY <1>3 DEF ViewerStep, Disconnect, Subscribe, ReadAnchor, ReadHighWater,
       SendStartEnvelope, ReadPage, SendReplayed, EndReplay, EndUnavailable,
       EndGap, RecvEnvelope, RecvObject, Reanchor, Ends, Becomes
<1>4. ASSUME NEW now \in Times, Retention(now)
      PROVE  [Next]_storeVars
  BY <1>4 DEF Retention, Next
<1>5. QED
  BY <1>1, <1>2, <1>3, <1>4 DEF ServiceNext, Restart

\* The relay's tasks use the store as its specification allows: every step of
\* the service is a step of NativeStore or leaves the store alone.  So all that
\* is proved of the store holds under any interleaving of sessions,
\* subscriptions, retention and restarts.
THEOREM ServiceImplementsStore == ServiceSpec => Spec
<1>1. ServiceInit => Init
  BY DEF ServiceInit
<1>2. [ServiceNext]_vars => [Next]_storeVars
  BY ServiceStoreStep DEF vars
<1>3. QED
  BY <1>1, <1>2, PTL DEF ServiceSpec, Spec

\* The store under the service is consistent, and the sessions exclusive.
ServiceBase == TypeOK /\ StoreConsistent /\ SessionInv

\* Every reachable state of the service has that.
LEMMA ServiceBaseInvariant == ServiceSpec => []ServiceBase
<1>1. ServiceBase <=> TypeOK /\ StoreConsistent /\ SessionInv
  BY DEF ServiceBase
<1>2. QED
  BY <1>1, ServiceImplementsStore, StoreTypeCorrect, StoreAlwaysConsistent, SessionInvariant, PTL

\* A subscription never sees the store's ownership change hands: put_descriptor
\* through any number of sessions keeps a stream with its publisher.
THEOREM ServiceOwnerBinding == ServiceSpec => []OwnerBinding
<1>1. QED
  BY ServiceImplementsStore, StoreOwnerBinding, PTL

\* Sessions that publish at the same time cannot together push the bytes stored
\* beyond the relay's quota or their publisher's.
THEOREM ServiceWithinQuota == ServiceSpec => []StoredBytesWithinQuota
<1>1. QED
  BY ServiceImplementsStore, StoreWithinQuota, PTL

-----------------------------------------------------------------------------
(* What a receiver's queue holds *)

\* The sequences of the objects in a queue, and its envelopes.
ObjectsIn(q) == {q[i].item.sequence : i \in {j \in DOMAIN q : q[j].kind = "Object"}}

EnvelopesIn(q) == {q[i].item : i \in {j \in DOMAIN q : q[j].kind = "Envelope"}}

\* Objects come in order.
InOrder(q) ==
    \A i, j \in DOMAIN q : i < j /\ q[i].kind = "Object" /\ q[j].kind = "Object" =>
        q[i].item.sequence < q[j].item.sequence

\* Items are objects or envelopes.
LEMMA ItemTypes ==
    ASSUME NEW x \in LiveItem
    PROVE  /\ x.stream \in Streams
           /\ x.kind = "Object" => x.item \in Object
           /\ x.kind = "Envelope" => x.item \in Envelope
           /\ x.kind = "Object" \/ x.kind = "Envelope"
BY DEF LiveItem

\* What Append adds to a queue.
LEMMA AppendItems ==
    ASSUME NEW q \in Seq(LiveItem), NEW x \in LiveItem
    PROVE  /\ Append(q, x) \in Seq(LiveItem) /\ Len(Append(q, x)) = Len(q) + 1
           /\ \A n \in ObjectsIn(Append(q, x)) :
                n \in ObjectsIn(q) \/ (x.kind = "Object" /\ n = x.item.sequence)
           /\ ObjectsIn(q) \subseteq ObjectsIn(Append(q, x))
           /\ x.kind = "Object" => x.item.sequence \in ObjectsIn(Append(q, x))
           /\ EnvelopesIn(q) \subseteq EnvelopesIn(Append(q, x))
           /\ x.kind = "Envelope" => x.item \in EnvelopesIn(Append(q, x))
           /\ InOrder(q) /\ (x.kind = "Object" => \A n \in ObjectsIn(q) : n < x.item.sequence)
                => InOrder(Append(q, x))
<1> DEFINE p == Append(q, x)
<1>1. p \in Seq(LiveItem) /\ Len(p) = Len(q) + 1 /\ DOMAIN p = 1..Len(q) + 1
      /\ DOMAIN q = 1..Len(q) /\ Len(q) \in Nat
  OBVIOUS
<1>2. p[Len(q) + 1] = x /\ \A i \in 1..Len(q) : p[i] = q[i]
  OBVIOUS
<1> HIDE DEF p
<1>3. \A i \in DOMAIN p : (i \in DOMAIN q /\ p[i] = q[i]) \/ (i = Len(q) + 1 /\ p[i] = x)
  BY <1>1, <1>2
<1>4. \A i \in DOMAIN q : i \in DOMAIN p /\ p[i] = q[i]
  BY <1>1, <1>2
<1>5. Len(q) + 1 \in DOMAIN p
  BY <1>1
<1>6. \A n \in ObjectsIn(p) : n \in ObjectsIn(q) \/ (x.kind = "Object" /\ n = x.item.sequence)
  BY <1>3 DEF ObjectsIn
<1>7. ObjectsIn(q) \subseteq ObjectsIn(p) /\ EnvelopesIn(q) \subseteq EnvelopesIn(p)
  BY <1>4 DEF ObjectsIn, EnvelopesIn
<1>8. /\ x.kind = "Object" => x.item.sequence \in ObjectsIn(p)
      /\ x.kind = "Envelope" => x.item \in EnvelopesIn(p)
  BY <1>2, <1>5 DEF ObjectsIn, EnvelopesIn
<1>9. ASSUME InOrder(q), x.kind = "Object" => \A n \in ObjectsIn(q) : n < x.item.sequence
      PROVE  InOrder(p)
  <2> SUFFICES ASSUME NEW i \in DOMAIN p, NEW j \in DOMAIN p, i < j,
                      p[i].kind = "Object", p[j].kind = "Object"
               PROVE  p[i].item.sequence < p[j].item.sequence
    BY DEF InOrder
  <2>1. i \in DOMAIN q /\ p[i] = q[i]
    BY <1>1, <1>3
  <2>2. CASE j \in DOMAIN q
    BY <1>4, <1>9, <2>1, <2>2 DEF InOrder
  <2>3. CASE j = Len(q) + 1
    <3>1. q[i].item.sequence \in ObjectsIn(q)
      BY <2>1 DEF ObjectsIn
    <3>2. p[j] = x
      BY <1>2, <2>3
    <3>3. QED
      BY <1>9, <2>1, <3>1, <3>2
  <2>4. QED
    BY <1>3, <2>2, <2>3
<1>10. QED
  BY <1>1, <1>6, <1>7, <1>8, <1>9 DEF p

\* What taking the head leaves.
LEMMA TailItems ==
    ASSUME NEW q \in Seq(LiveItem), q # <<>>
    PROVE  /\ Head(q) \in LiveItem /\ Tail(q) \in Seq(LiveItem) /\ Len(Tail(q)) = Len(q) - 1
           /\ ObjectsIn(Tail(q)) \subseteq ObjectsIn(q)
           /\ \A n \in ObjectsIn(q) :
                n \in ObjectsIn(Tail(q)) \/ (Head(q).kind = "Object" /\ n = Head(q).item.sequence)
           /\ \A e \in EnvelopesIn(q) :
                e \in EnvelopesIn(Tail(q)) \/ (Head(q).kind = "Envelope" /\ e = Head(q).item)
           /\ InOrder(q) => InOrder(Tail(q))
           /\ Head(q).kind = "Object" => Head(q).item.sequence \in ObjectsIn(q)
<1> DEFINE p == Tail(q)
<1>1. p \in Seq(LiveItem) /\ Len(p) = Len(q) - 1 /\ DOMAIN p = 1..Len(q) - 1
      /\ DOMAIN q = 1..Len(q) /\ Len(q) \in Nat /\ Len(q) # 0 /\ Head(q) \in LiveItem
  OBVIOUS
<1>2. Head(q) = q[1] /\ \A i \in 1..Len(q) - 1 : p[i] = q[i + 1]
  OBVIOUS
<1> HIDE DEF p
<1>3. \A i \in DOMAIN p : i \in Nat /\ i + 1 \in DOMAIN q /\ p[i] = q[i + 1]
  BY <1>1, <1>2
<1>4. \A i \in DOMAIN q : (i = 1 /\ q[i] = Head(q)) \/ (i - 1 \in DOMAIN p /\ p[i - 1] = q[i])
  BY <1>1, <1>2
<1>5. ObjectsIn(p) \subseteq ObjectsIn(q)
  BY <1>3 DEF ObjectsIn
<1>6. ASSUME NEW n \in ObjectsIn(q)
      PROVE  n \in ObjectsIn(p) \/ (Head(q).kind = "Object" /\ n = Head(q).item.sequence)
  <2>1. PICK i \in DOMAIN q : q[i].kind = "Object" /\ n = q[i].item.sequence
    BY DEF ObjectsIn
  <2>2. CASE i = 1 /\ q[i] = Head(q)
    BY <2>1, <2>2
  <2>3. CASE i - 1 \in DOMAIN p /\ p[i - 1] = q[i]
    BY <2>1, <2>3 DEF ObjectsIn
  <2>4. QED
    BY <1>4, <2>2, <2>3
<1>7. ASSUME NEW e \in EnvelopesIn(q)
      PROVE  e \in EnvelopesIn(p) \/ (Head(q).kind = "Envelope" /\ e = Head(q).item)
  <2>1. PICK i \in DOMAIN q : q[i].kind = "Envelope" /\ e = q[i].item
    BY DEF EnvelopesIn
  <2>2. CASE i = 1 /\ q[i] = Head(q)
    BY <2>1, <2>2
  <2>3. CASE i - 1 \in DOMAIN p /\ p[i - 1] = q[i]
    BY <2>1, <2>3 DEF EnvelopesIn
  <2>4. QED
    BY <1>4, <2>2, <2>3
<1>8. ASSUME InOrder(q)
      PROVE  InOrder(p)
  <2> SUFFICES ASSUME NEW i \in DOMAIN p, NEW j \in DOMAIN p, i < j,
                      p[i].kind = "Object", p[j].kind = "Object"
               PROVE  p[i].item.sequence < p[j].item.sequence
    BY DEF InOrder
  <2>1. i + 1 < j + 1
    BY <1>3
  <2>2. QED
    BY <1>3, <1>8, <2>1 DEF InOrder
<1>9. Head(q).kind = "Object" => Head(q).item.sequence \in ObjectsIn(q)
  <2>1. 1 \in DOMAIN q
    BY <1>1
  <2>2. QED
    BY <1>2, <2>1 DEF ObjectsIn
<1>10. QED
  BY <1>1, <1>5, <1>6, <1>7, <1>8, <1>9 DEF p

\* A send: nothing is lost unless the receiver is marked as lagged.
LEMMA PushItems ==
    ASSUME NEW q \in Seq(LiveItem), Len(q) <= Capacity, NEW x \in LiveItem
    PROVE  /\ Push(q, x) \in Seq(LiveItem) /\ Len(Push(q, x)) <= Capacity
           /\ \A n \in ObjectsIn(Push(q, x)) :
                n \in ObjectsIn(q) \/ (x.kind = "Object" /\ n = x.item.sequence)
           /\ InOrder(q) /\ (x.kind = "Object" => \A n \in ObjectsIn(q) : n < x.item.sequence)
                => InOrder(Push(q, x))
           /\ Len(q) # Capacity =>
                /\ ObjectsIn(q) \subseteq ObjectsIn(Push(q, x))
                /\ x.kind = "Object" => x.item.sequence \in ObjectsIn(Push(q, x))
                /\ EnvelopesIn(q) \subseteq EnvelopesIn(Push(q, x))
                /\ x.kind = "Envelope" => x.item \in EnvelopesIn(Push(q, x))
<1>1. Capacity \in Nat \ {0} /\ Len(q) \in Nat
  BY ServiceAssumption
<1>2. CASE Len(q) # Capacity
  <2>1. Push(q, x) = Append(q, x)
    BY <1>2 DEF Push
  <2>2. Len(q) + 1 <= Capacity
    BY <1>1, <1>2
  <2>3. QED
    BY <1>2, <2>1, <2>2, AppendItems
<1>3. CASE Len(q) = Capacity
  <2>1. Push(q, x) = Append(Tail(q), x)
    BY <1>3 DEF Push
  <2>2. q # <<>>
    BY <1>1, <1>3
  <2>3. Tail(q) \in Seq(LiveItem) /\ Len(Tail(q)) = Len(q) - 1
        /\ ObjectsIn(Tail(q)) \subseteq ObjectsIn(q) /\ (InOrder(q) => InOrder(Tail(q)))
    BY <2>2, TailItems
  <2>4. Len(Append(Tail(q), x)) <= Capacity /\ Append(Tail(q), x) \in Seq(LiveItem)
    BY <1>1, <1>3, <2>3, AppendItems
  <2>5. \A n \in ObjectsIn(Append(Tail(q), x)) :
            n \in ObjectsIn(q) \/ (x.kind = "Object" /\ n = x.item.sequence)
    BY <2>3, AppendItems
  <2>6. InOrder(q) /\ (x.kind = "Object" => \A n \in ObjectsIn(q) : n < x.item.sequence)
            => InOrder(Append(Tail(q), x))
    BY <2>3, AppendItems
  <2>7. QED
    BY <1>3, <2>1, <2>4, <2>5, <2>6
<1>4. QED
  BY <1>2, <1>3

\* A fresh or dropped receiver.
LEMMA EmptyQueue ==
    /\ <<>> \in Seq(LiveItem) /\ Len(<<>>) = 0
    /\ ObjectsIn(<<>>) = {} /\ EnvelopesIn(<<>>) = {} /\ InOrder(<<>>)
BY DEF ObjectsIn, EnvelopesIn, InOrder

-----------------------------------------------------------------------------
(* Pages *)

\* Before(L, o): the objects of L that come before o.
Before(L, o) == {p \in L : p.sequence < o.sequence}

\* A stream holds finitely many objects: one for each sequence at most.
LEMMA ObjectsFinite ==
    ASSUME TypeOK, StoreConsistent, NEW s \in Streams
    PROVE  IsFiniteSet(objects[s])
<1> DEFINE f == [o \in objects[s] |-> o.sequence]
<1>1. f \in [objects[s] -> 1..MaxSequence] /\ MaxSequence \in Nat
  BY StreamRows
<1>2. \A o, p \in objects[s] : o.sequence = p.sequence => o = p
  BY DEF StoreConsistent, Consistent, ObjectsFill
<1>3. \A o, p \in objects[s] : f[o] = f[p] => o = p
  BY <1>2
<1> HIDE DEF f
<1>4. f \in Injection(objects[s], 1..MaxSequence)
  BY <1>1, <1>3, Fun_IsInj
<1>5. IsFiniteSet(1..MaxSequence)
  BY <1>1, FS_Interval
<1>6. QED
  BY <1>4, <1>5, FS_Injection

\* The first Page objects of a finite set, as LIMIT Page gives them: they are
\* the oldest, and all of them when there are fewer than Page.
LEMMA FirstOfPage ==
    ASSUME NEW L \in SUBSET Object, IsFiniteSet(L),
           \A o, p \in L : o.sequence = p.sequence => o = p
    PROVE  LET P == {o \in L : Cardinality(Before(L, o)) < Page}
           IN  /\ \A p \in P, x \in L : x.sequence <= p.sequence => x \in P
               /\ Cardinality(P) # Page => P = L
<1> DEFINE P == {o \in L : Cardinality(Before(L, o)) < Page}
<1>0. \A o \in L : o.sequence \in Nat
  BY DEF Object, SequenceNumbers
<1>1. \A o \in L : /\ Before(L, o) \in SUBSET L /\ IsFiniteSet(Before(L, o))
                   /\ Cardinality(Before(L, o)) \in Nat
  BY FS_Subset, FS_CardinalityType DEF Before
<1>2. Page \in Nat \ {0}
  BY ServiceAssumption
<1>3. ASSUME NEW p \in P, NEW x \in L, x.sequence <= p.sequence
      PROVE  x \in P
  <2>1. Before(L, x) \in SUBSET Before(L, p)
    BY <1>0, <1>3 DEF Before
  <2>2. Cardinality(Before(L, x)) <= Cardinality(Before(L, p))
    BY <1>1, <2>1, FS_Subset
  <2>3. QED
    BY <1>1, <1>2, <2>2
<1>4. ASSUME P # L
      PROVE  Cardinality(P) = Page
  <2> DEFINE R == {o.sequence : o \in L \ P}
  <2>1. R \subseteq Nat /\ R # {}
    BY <1>0, <1>4
  <2>2. Min(R) \in R /\ \A y \in R : Min(R) <= y
    BY <2>1, LeastSequence
  <2>3. PICK x \in L \ P : \A y \in L \ P : x.sequence <= y.sequence
    <3>1. PICK x \in L \ P : x.sequence = Min(R)
      BY <2>2
    <3>2. \A y \in L \ P : y.sequence \in R
      OBVIOUS
    <3> HIDE DEF R, P
    <3>3. QED
      BY <2>2, <3>1, <3>2
  <2> HIDE DEF R
  <2>4. Before(L, x) = P
    <3>1. \A y \in Before(L, x) : y \in P
      BY <1>0, <2>3 DEF Before
    <3>2. \A y \in P : y \in L /\ y.sequence < x.sequence
      BY <1>0, <1>3, <2>3
    <3>3. \A y \in P : y \in Before(L, x)
      BY <3>2 DEF Before
    <3> HIDE DEF P
    <3>4. QED
      BY <3>1, <3>3
  <2>5. Cardinality(P) >= Page /\ Cardinality(P) \in Nat /\ IsFiniteSet(P)
    BY <1>1, <1>2, <2>3, <2>4
  <2>6. P # {}
    BY <1>2, <2>5, FS_EmptySet
  <2> DEFINE Q == {o.sequence : o \in P}
  <2>7. Q \subseteq 0..x.sequence /\ Q # {} /\ x.sequence \in Nat
    <3>1. \A y \in P : y.sequence \in Nat /\ y.sequence < x.sequence
      BY <1>0, <2>4 DEF Before
    <3>2. x.sequence \in Nat
      BY <1>0
    <3> HIDE DEF P
    <3>3. QED
      BY <2>6, <3>1, <3>2
  <2>8. Max(Q) \in Q /\ \A y \in Q : y <= Max(Q)
    BY <2>7, GreatestSequence
  <2>9. PICK m \in P : \A y \in P : y.sequence <= m.sequence
    BY <2>8
  <2> HIDE DEF Q
  <2>10. P = Before(L, m) \cup {m}
    <3>1. \A y \in P : y \in Before(L, m) \cup {m}
      BY <1>0, <2>9 DEF Before
    <3>2. \A y \in Before(L, m) : y \in P
      BY <1>0, <1>3, <2>9 DEF Before
    <3>3. m \in P
      BY <2>9
    <3> HIDE DEF P
    <3>4. QED
      BY <3>1, <3>2, <3>3
  <2>11. m \notin Before(L, m) /\ m \in L /\ Cardinality(Before(L, m)) < Page
    BY <1>0, <2>9 DEF Before
  <2>12. Cardinality(P) = Cardinality(Before(L, m)) + 1
    BY <1>1, <2>10, <2>11, FS_AddElement
  <2> HIDE DEF P
  <2>13. QED
    BY <1>1, <1>2, <2>5, <2>11, <2>12
<1>5. QED
  BY <1>3, <1>4

\* list_objects: a page is an unbroken piece of what is retained past "after",
\* and a page that is not full is all of it.
LEMMA PageFacts ==
    ASSUME TypeOK, StoreConsistent, NEW s \in Streams, NEW after \in Nat
    PROVE  /\ ListObjects(s, after) \subseteq objects[s]
           /\ \A p \in ListObjects(s, after) : p.sequence > after
           /\ \A p \in ListObjects(s, after), x \in objects[s] :
                x.sequence > after /\ x.sequence <= p.sequence => x \in ListObjects(s, after)
           /\ Cardinality(ListObjects(s, after)) # Page =>
                \A x \in objects[s] : x.sequence > after => x \in ListObjects(s, after)
           /\ ListObjects(s, after) = {} => \A x \in objects[s] : ~(x.sequence > after)
<1> DEFINE L == {o \in objects[s] : o.sequence > after}
           P == {o \in L : Cardinality(Before(L, o)) < Page}
<1>1. ListObjects(s, after) = P
  BY DEF ListObjects, Before
<1>2. L \in SUBSET Object /\ L \in SUBSET objects[s]
  BY StreamRows
<1>3. IsFiniteSet(L)
  BY <1>2, ObjectsFinite, FS_Subset
<1>4. \A o, p \in L : o.sequence = p.sequence => o = p
  BY DEF StoreConsistent, Consistent, ObjectsFill
<1> HIDE DEF L
<1>5. /\ \A p \in P, x \in L : x.sequence <= p.sequence => x \in P
      /\ Cardinality(P) # Page => P = L
  BY <1>2, <1>3, <1>4, FirstOfPage
<1>6. P = {} => P = L
  BY <1>5, FS_EmptySet, ServiceAssumption
<1>7. P \subseteq L
  OBVIOUS
<1> HIDE DEF P
<1>8. QED
  BY <1>1, <1>5, <1>6, <1>7 DEF L

-----------------------------------------------------------------------------
(* What the publishers, retention and a broadcast do to one stream *)

\* The items of stream s between their commit and their broadcast.
Transit(s) == {pending[c] : c \in {d \in Sessions : conn[d] = "stored" /\ pending[d].stream = s}}

\* The stream loses rows, or nothing happens to it.
Quiet(s) ==
    /\ objects'[s] \subseteq objects[s] /\ envelopes'[s] \subseteq envelopes[s]
    /\ high_water'[s] = high_water[s] /\ active'[s] \in {active[s], None}
    /\ Transit(s)' = Transit(s)

\* An object is committed and waits for its broadcast.
ObjectArrives(s, o) ==
    /\ o.sequence = high_water[s] + 1 /\ high_water'[s] = o.sequence
    /\ objects'[s] \subseteq objects[s] \cup {o} /\ envelopes'[s] \subseteq envelopes[s]
    /\ active'[s] = o.group
    /\ active[s] = o.group \/ \A e \in envelopes[s] : e.group # o.group
    /\ Transit(s)' = Transit(s) \cup {[stream |-> s, kind |-> "Object", item |-> o]}

\* An envelope is committed and waits for its broadcast.
EnvelopeArrives(s, e) ==
    /\ objects'[s] \subseteq objects[s] /\ envelopes'[s] \subseteq envelopes[s] \cup {e}
    /\ high_water'[s] = high_water[s] /\ active'[s] = active[s]
    /\ Transit(s)' = Transit(s) \cup {[stream |-> s, kind |-> "Envelope", item |-> e]}

StreamMoves(s) ==
    \/ Quiet(s)
    \/ \E o \in Object : ObjectArrives(s, o)
    \/ \E e \in Envelope : EnvelopeArrives(s, e)

\* Items wait as long as their sessions do.
LEMMA TransitKept ==
    ASSUME NEW s,
           \A d \in Sessions : /\ conn'[d] = "stored" <=> conn[d] = "stored"
                               /\ conn[d] = "stored" => pending'[d] = pending[d]
    PROVE  Transit(s)' = Transit(s)
<1>1. \A d \in Sessions : (conn'[d] = "stored" /\ pending'[d].stream = s)
                            <=> (conn[d] = "stored" /\ pending[d].stream = s)
  OBVIOUS
<1>2. QED
  BY <1>1 DEF Transit

\* A session that has committed an item is one more that waits.
LEMMA TransitGrows ==
    ASSUME SessionInv, NEW c \in Sessions, NEW x \in LiveItem, NEW s,
           conn[c] # "stored", conn' = [conn EXCEPT ![c] = "stored"],
           pending' = [pending EXCEPT ![c] = x]
    PROVE  /\ x.stream = s => Transit(s)' = Transit(s) \cup {x}
           /\ x.stream # s => Transit(s)' = Transit(s)
<1>1. \A d \in Sessions \ {c} : conn'[d] = conn[d] /\ pending'[d] = pending[d]
  BY DEF SessionInv, HeldTypes
<1>2. conn'[c] = "stored" /\ pending'[c] = x
  BY DEF SessionInv, HeldTypes
<1>3. CASE x.stream = s
  <2>1. \A y : y \in Transit(s)' <=> y \in Transit(s) \cup {x}
    <3>1. \A y \in Transit(s)' : y \in Transit(s) \cup {x}
      BY <1>1, <1>2 DEF Transit
    <3>2. \A y \in Transit(s) : y \in Transit(s)'
      BY <1>1 DEF Transit
    <3>3. x \in Transit(s)'
      BY <1>2, <1>3 DEF Transit
    <3>4. QED
      BY <3>1, <3>2, <3>3
  <2>2. QED
    BY <1>3, <2>1
<1>4. CASE x.stream # s
  <2>1. \A y \in Transit(s)' : y \in Transit(s)
    BY <1>1, <1>2, <1>4 DEF Transit
  <2>2. \A y \in Transit(s) : y \in Transit(s)'
    BY <1>1 DEF Transit
  <2>3. QED
    BY <1>4, <2>1, <2>2
<1>5. QED
  BY <1>3, <1>4

\* What waits are live items of the stream, and an object among them is the
\* newest of its stream.
LEMMA TransitItems ==
    ASSUME SessionInv, NEW s, NEW x \in Transit(s)
    PROVE  /\ x \in LiveItem /\ x.stream = s /\ s \in Streams
           /\ x.kind = "Object" => x.item.sequence = high_water[s]
<1>1. PICK c \in Sessions : conn[c] = "stored" /\ pending[c].stream = s /\ x = pending[c]
  BY DEF Transit
<1>2. x \in LiveItem /\ x.stream = s
  BY <1>1 DEF SessionInv, WorkIsHeld
<1>3. QED
  BY <1>1, <1>2, ItemTypes DEF SessionInv, WorkIsHeld

\* store_object on its own stream and on the others.
LEMMA StoreObjectRows ==
    ASSUME ServiceBase, NEW s \in Streams, NEW o \in Object, NEW now \in Times,
           StoreObject(s, o, now), NEW t \in Streams
    PROVE  /\ t = s => /\ o.sequence = high_water[s] + 1 /\ high_water'[s] = o.sequence
                       /\ objects'[s] \subseteq objects[s] \cup {o}
                       /\ envelopes'[s] \subseteq envelopes[s]
                       /\ active'[s] = o.group
                       /\ active[s] = o.group \/ \A e \in envelopes[s] : e.group # o.group
           /\ t # s => /\ objects'[t] = objects[t] /\ envelopes'[t] = envelopes[t]
                       /\ high_water'[t] = high_water[t] /\ active'[t] = active[t]
<1>1. TypeOK /\ KeysAgree(groups[s], objects[s], envelopes[s])
  BY DEF ServiceBase, StoreConsistent, Consistent
<1>2. CASE StoreFirstObject(s, o, now)
  <2>1. \A g \in groups[s] : g.id # o.group
    BY <1>2 DEF StoreFirstObject, ValidateGroupProgression
  <2>2. \A e \in envelopes[s] : e.group # o.group
    BY <1>1, <2>1 DEF KeysAgree
  <2>3. QED
    BY <1>1, <1>2, <2>2 DEF StoreFirstObject, InSequence, CommitWithRetention, Cascade, TypeOK
<1>3. CASE StoreNextObject(s, o, now)
  BY <1>1, <1>3 DEF StoreNextObject, InSequence, CommitWithRetention, Cascade, TypeOK
<1>4. QED
  BY <1>2, <1>3 DEF StoreObject

\* Everything but a broadcast, a restart and the viewers' own steps moves a
\* stream in one of three ways and no viewer.
LEMMA PublishersMove ==
    ASSUME ServiceBase, NEW s \in Streams,
           \/ \E c \in Sessions : SessionRequest(c) \/ (SessionStep(c) /\ ~Broadcast(c))
           \/ \E now \in Times : Retention(now)
    PROVE  UNCHANGED viewerVars /\ StreamMoves(s)
<1> USE DEF ServiceBase
<1>1. ASSUME NEW c \in Sessions, NEW t \in Streams, NEW o \in Object, NEW now \in Times,
             PublishObject(c, t, o, now)
      PROVE  UNCHANGED viewerVars /\ StreamMoves(s)
  <2> DEFINE x == [stream |-> t, kind |-> "Object", item |-> o]
  <2>1. /\ StoreObject(t, o, now) /\ conn[c] # "stored" /\ UNCHANGED viewerVars
        /\ conn' = [conn EXCEPT ![c] = "stored"] /\ pending' = [pending EXCEPT ![c] = x]
    BY <1>1 DEF PublishObject
  <2>2. x \in LiveItem /\ x.stream = t
    BY DEF LiveItem
  <2>3. /\ t = s => Transit(s)' = Transit(s) \cup {x}
        /\ t # s => Transit(s)' = Transit(s)
    BY <2>1, <2>2, TransitGrows
  <2>4. CASE t = s
    <3>1. ObjectArrives(s, o)
      BY <2>1, <2>3, <2>4, StoreObjectRows DEF ObjectArrives
    <3>2. QED
      BY <2>1, <3>1 DEF StreamMoves
  <2>5. CASE t # s
    <3>1. Quiet(s)
      BY <2>1, <2>3, <2>5, StoreObjectRows DEF Quiet
    <3>2. QED
      BY <2>1, <3>1 DEF StreamMoves
  <2>6. QED
    BY <2>4, <2>5
<1>2. ASSUME NEW c \in Sessions, NEW t \in Streams, NEW e \in Envelope, NEW now \in Times,
             PublishEnvelope(c, t, e, now)
      PROVE  UNCHANGED viewerVars /\ StreamMoves(s)
  <2> DEFINE x == [stream |-> t, kind |-> "Envelope", item |-> e]
  <2>1. /\ StoreEnvelope(t, e, now) /\ conn[c] # "stored" /\ UNCHANGED viewerVars
        /\ conn' = [conn EXCEPT ![c] = "stored"] /\ pending' = [pending EXCEPT ![c] = x]
    BY <1>2 DEF PublishEnvelope
  <2>2. x \in LiveItem /\ x.stream = t
    BY DEF LiveItem
  <2>3. /\ t = s => Transit(s)' = Transit(s) \cup {x}
        /\ t # s => Transit(s)' = Transit(s)
    BY <2>1, <2>2, TransitGrows
  <2>4. high_water' = high_water /\ active' = active
    BY <2>1 DEF StoreEnvelope
  <2>5. CASE t = s
    <3>1. objects'[s] \subseteq objects[s] /\ envelopes'[s] \subseteq envelopes[s] \cup {e}
      BY <2>1, <2>5 DEF StoreEnvelope, CommitWithRetention, Cascade, TypeOK
    <3>2. EnvelopeArrives(s, e)
      BY <2>3, <2>4, <2>5, <3>1 DEF EnvelopeArrives
    <3>3. QED
      BY <2>1, <3>2 DEF StreamMoves
  <2>6. CASE t # s
    <3>1. objects'[s] = objects[s] /\ envelopes'[s] = envelopes[s]
      BY <2>1, <2>6 DEF StoreEnvelope, CommitWithRetention, TypeOK
    <3>2. Quiet(s)
      BY <2>3, <2>4, <2>6, <3>1 DEF Quiet
    <3>3. QED
      BY <2>1, <3>2 DEF StreamMoves
  <2>7. QED
    BY <2>5, <2>6
<1>3. ASSUME UNCHANGED viewerVars, Transit(s)' = Transit(s),
             UNCHANGED <<objects, envelopes, high_water, active>>
      PROVE  UNCHANGED viewerVars /\ StreamMoves(s)
  BY <1>3 DEF StreamMoves, Quiet
<1>4. ASSUME NEW c \in Sessions, NEW t \in Streams, Finalize(c, t)
      PROVE  UNCHANGED viewerVars /\ StreamMoves(s)
  <2>1. Transit(s)' = Transit(s)
    BY <1>4, TransitKept DEF Finalize
  <2>2. /\ UNCHANGED <<objects, envelopes, high_water>> /\ active'[s] \in {active[s], None}
    BY <1>4 DEF Finalize, FinalizeStream, storeVars, TypeOK
  <2>3. QED
    BY <1>4, <2>1, <2>2 DEF StreamMoves, Quiet, Finalize
<1>5. ASSUME NEW now \in Times, Retention(now)
      PROVE  UNCHANGED viewerVars /\ StreamMoves(s)
  <2>1. Transit(s)' = Transit(s)
    BY <1>5, TransitKept DEF Retention, sessionVars
  <2>2. /\ objects'[s] \subseteq objects[s] /\ envelopes'[s] \subseteq envelopes[s]
        /\ UNCHANGED <<high_water, active>>
    BY <1>5 DEF Retention, EnforceRetentionAt, Cascade
  <2>3. QED
    BY <1>5, <2>1, <2>2 DEF StreamMoves, Quiet, Retention
<1>6. ASSUME NEW c \in Sessions,
             \/ \E p \in Publishers : Admit(c, p)
             \/ \E t \in Streams : ResumeValidate(c, t) \/ ClaimForPublish(c, t)
             \/ \E t \in Streams, d \in Descriptors : PublishDescriptor(c, t, d)
             \/ Fail(c) \/ ResumeClaim(c) \/ ResumeRead(c) \/ Retire(c)
      PROVE  UNCHANGED viewerVars /\ StreamMoves(s)
  <2>1. UNCHANGED <<objects, envelopes, high_water, active>> /\ UNCHANGED viewerVars
    BY <1>6 DEF Admit, ResumeValidate, ClaimForPublish, PublishDescriptor, PutDescriptor,
       ReplaceDescriptor, InsertDescriptor, Fail, ResumeClaim, ResumeRead, Retire, storeVars
  <2>2. \A d \in Sessions : /\ conn'[d] = "stored" <=> conn[d] = "stored"
                            /\ conn[d] = "stored" => pending'[d] = pending[d]
    BY <1>6 DEF Admit, ResumeValidate, ClaimForPublish, PublishDescriptor, Fail, ResumeClaim,
       ResumeRead, Retire, sessionVars, SessionInv, HeldTypes
  <2>3. QED
    BY <1>3, <2>1, <2>2, TransitKept
<1>7. QED
  BY <1>1, <1>2, <1>4, <1>5, <1>6 DEF SessionRequest, SessionStep
-----------------------------------------------------------------------------
(* The invariant of one subscription *)

\* It relates a subscription r, its receiver (the queue q, and lag when the
\* receiver is marked as lagged) and the stream it is on: the objects O, the
\* envelopes E, the mark h, the active group a and the items T in transit.

\* What the argument needs of the store and the sessions: objects lie at or
\* below the mark, the active group holds the newest one, and an object in
\* transit is the newest.
StreamFits(O, E, h, a, T) ==
    /\ h \in 0..MaxSequence
    /\ \A o \in O : o \in Object /\ o.sequence <= h
    /\ \A o, p \in O : o.sequence = p.sequence => o = p
    /\ \A e \in E : e \in Envelope
    /\ a # None => \E o \in O : o.group = a /\ o.sequence = h
    /\ \A x \in T : x \in LiveItem /\ (x.kind = "Object" => x.item.sequence = h)

\* Which fields mean something in which phase.
Stands(r, q, lag, h) ==
    /\ r.stream \in Streams
    /\ r.phase # "off"
    /\ r.phase \in Ended => q = <<>> /\ lag = FALSE
    /\ r.phase = "subscribed" => r.first = 0 /\ r.start \in StartRequests
    /\ r.phase \notin {"subscribed", "closed"} => r.first >= 1
    /\ r.first >= 1 => r.last >= r.first - 1 /\ r.last <= h
    /\ r.phase \in {"anchored", "keying"} => r.last = r.first - 1
    /\ r.phase = "sending" <=> r.page # {}
    /\ r.phase \in {"subscribed", "anchored", "replay", "live"} => r.sealed = None

\* The page in hand is what is retained between the last object sent and the
\* end of the page, and it was all committed.
PageSound(r, O, h) ==
    /\ \A p \in r.page : p.sequence > r.last /\ p.sequence <= h
    /\ \A p1, p2 \in r.page : p1.sequence = p2.sequence => p1 = p2
    /\ \A p \in r.page, x \in O : x.sequence > r.last /\ x.sequence <= p.sequence => x \in r.page

\* The receiver holds committed objects in order, all older than the one that
\* waits for its broadcast.
QueueSound(q, h, T) ==
    /\ InOrder(q)
    /\ \A n \in ObjectsIn(q) : n \in Nat /\ n <= h
    /\ \A n \in ObjectsIn(q), x \in T : x.kind = "Object" => n < x.item.sequence

\* The task reads no further page: it sends a page that was not full, or lives
\* on its receiver.
OnReceiver(r) == r.phase = "live" \/ (r.phase = "sending" /\ ~ r.full)

InTransit(T, n) == \E x \in T : x.kind = "Object" /\ x.item.sequence = n

\* Then every retained object past the last one sent is in the page, in the
\* receiver or about to be broadcast.
TailHeld(r, q, lag, O, T) ==
    OnReceiver(r) /\ ~ lag =>
        \A x \in O : x.sequence > r.last =>
            x \in r.page \/ x.sequence \in ObjectsIn(q) \/ InTransit(T, x.sequence)

\* The viewer has the envelope, or will get it from its receiver.
Known(r, q, T, e) ==
    \/ e.group \in r.keys
    \/ e \in EnvelopesIn(q)
    \/ [stream |-> r.stream, kind |-> "Envelope", item |-> e] \in T

\* The group g of an envelope the viewer does not have: no object of it was
\* sent, it is not the group whose envelopes the page has sent, it is not being
\* written when the subscription starts past the mark, and once the task reads
\* no further page it is still in the page or wholly before the subscription.
Withheld(r, g, O, h, a) ==
    /\ r.phase \in {"replay", "sending", "live"} =>
            \A o \in O : o.group = g => o.sequence < r.first \/ o.sequence > r.last
    /\ r.phase = "sending" => g # r.sealed
    /\ r.phase \in {"replay", "sending"} /\ h < r.first => a # g
    /\ OnReceiver(r) =>
            \/ \E p \in r.page : p.group = g
            \/ a # g /\ \A o \in O : o.group = g => o.sequence < r.first

KeysHeld(v, r, q, lag, O, E, h, a, T) ==
    /\ r.phase = "keying" /\ h < r.first => a \in {None, r.sealed}
    /\ ~ lag /\ ~ r.lapsed =>
            \A e \in E : e.recipient = v /\ ~ Known(r, q, T, e) => Withheld(r, e.group, O, h, a)

GapHonest(r, O, h) ==
    r.phase = "gap" => r.last + 1 <= h /\ \A x \in O : x.sequence # r.last + 1

HandTypes(r, q, lag) ==
    /\ r \in Subscription /\ lag \in BOOLEAN
    /\ q \in Seq(LiveItem) /\ Len(q) <= Capacity

Sound(v, r, q, lag, O, E, h, a, T) ==
    /\ HandTypes(r, q, lag) /\ Stands(r, q, lag, h) /\ PageSound(r, O, h)
    /\ QueueSound(q, h, T) /\ TailHeld(r, q, lag, O, T)
    /\ KeysHeld(v, r, q, lag, O, E, h, a, T) /\ GapHonest(r, O, h)

\* A viewer that has not subscribed.
Idle(v) ==
    /\ HandTypes(sub[v], queue[v], lagged[v]) /\ sub[v].first = 0 /\ sub[v].page = {}
    /\ sub[v].sealed = None /\ queue[v] = <<>> /\ lagged[v] = FALSE

SubInv(v) ==
    /\ sub[v].phase = "off" => Idle(v)
    /\ sub[v].phase # "off" => sub[v].stream \in Streams
    /\ \A s \in Streams : sub[v].phase # "off" /\ s = sub[v].stream =>
            Sound(v, sub[v], queue[v], lagged[v],
                  objects[s], envelopes[s], high_water[s], active[s], Transit(s))

ViewerFunctions ==
    /\ sub = [v \in Recipients |-> sub[v]] /\ queue = [v \in Recipients |-> queue[v]]
    /\ lagged = [v \in Recipients |-> lagged[v]]

FeedInv == ViewerFunctions /\ \A v \in Recipients : SubInv(v)

\* A relay that has just started has no subscription.
LEMMA FeedInit == ServiceInit => FeedInv
<1> SUFFICES ASSUME ServiceInit PROVE FeedInv
  OBVIOUS
<1>1. ViewerFunctions
  BY DEF ServiceInit, ViewerFunctions
<1>2. ASSUME NEW v \in Recipients
      PROVE  SubInv(v)
  <2>1. sub[v] = Unsubscribed /\ queue[v] = <<>> /\ lagged[v] = FALSE
    BY DEF ServiceInit
  <2>2. Unsubscribed \in Subscription
    BY DataAssumption DEF Unsubscribed, Subscription
  <2>3. queue[v] \in Seq(LiveItem) /\ Len(queue[v]) <= Capacity
    BY <2>1, EmptyQueue, ServiceAssumption
  <2>4. HandTypes(sub[v], queue[v], lagged[v])
    BY <2>1, <2>2, <2>3 DEF HandTypes
  <2>5. QED
    BY <2>1, <2>4 DEF SubInv, Idle, Unsubscribed
<1>3. QED
  BY <1>1, <1>2 DEF FeedInv

\* The store and the sessions give the streams the shape the argument needs.
LEMMA StreamsFit ==
    ASSUME ServiceBase, NEW s \in Streams
    PROVE  StreamFits(objects[s], envelopes[s], high_water[s], active[s], Transit(s))
<1>1. /\ TypeOK /\ GroupsTile(groups[s], high_water[s]) /\ ObjectsFill(groups[s], objects[s])
      /\ ActiveIsNewest(groups[s], high_water[s], active[s]) /\ SessionInv
  BY DEF ServiceBase, StoreConsistent, Consistent
<1>2. /\ high_water[s] \in 0..MaxSequence /\ MaxSequence \in Nat /\ objects[s] \subseteq Object
      /\ \A o \in objects[s] : o.sequence \in Nat
      /\ \A g \in groups[s] : g.last_sequence \in Nat /\ g.first_sequence \in Nat
  BY <1>1, StreamRows
<1>3. \A o \in objects[s] : o.sequence <= high_water[s]
  BY <1>1, <1>2 DEF GroupsTile, ObjectsFill
<1>4. \A e \in envelopes[s] : e \in Envelope
  BY <1>1 DEF TypeOK
<1>5. ASSUME active[s] # None
      PROVE  \E o \in objects[s] : o.group = active[s] /\ o.sequence = high_water[s]
  <2>1. PICK g \in groups[s] : g.id = active[s] /\ g.last_sequence = high_water[s]
    BY <1>1, <1>5 DEF ActiveIsNewest
  <2>2. high_water[s] \in g.first_sequence..g.last_sequence
    BY <1>1, <1>2, <2>1 DEF GroupsTile
  <2>3. QED
    BY <1>1, <2>1, <2>2 DEF ObjectsFill
<1>6. \A x \in Transit(s) : x \in LiveItem /\ (x.kind = "Object" => x.item.sequence = high_water[s])
  BY <1>1, TransitItems
<1>7. \A o, p \in objects[s] : o.sequence = p.sequence => o = p
  BY <1>1 DEF ObjectsFill
<1>8. QED
  BY <1>2, <1>3, <1>4, <1>5, <1>6, <1>7 DEF StreamFits
-----------------------------------------------------------------------------
(* The publishers, retention and broadcasts keep it *)

\* The numbers the argument compares.
LEMMA Numbers ==
    ASSUME NEW r, NEW q, NEW lag, HandTypes(r, q, lag),
           NEW O, NEW E, NEW h, NEW a, NEW T, StreamFits(O, E, h, a, T)
    PROVE  /\ h \in Nat /\ r.first \in Nat /\ r.last \in Nat
           /\ \A p \in r.page : p.sequence \in Nat
           /\ \A o \in O : o.sequence \in Nat /\ o.sequence <= h
           /\ \A e \in E : e.group # None
           /\ r.lapsed \in BOOLEAN /\ r.full \in BOOLEAN
<1>1. MaxSequence \in Nat
  BY DataAssumption
<1>2. /\ r.first \in Nat /\ r.last \in Nat /\ r.page \in SUBSET Object
      /\ r.lapsed \in BOOLEAN /\ r.full \in BOOLEAN
  BY <1>1 DEF HandTypes, Subscription
<1>3. \A o \in Object : o.sequence \in Nat
  BY <1>1 DEF Object, SequenceNumbers
<1>4. \A e \in E : e.group # None
  BY DataAssumption DEF StreamFits, Envelope, GroupIds
<1>5. QED
  BY <1>1, <1>2, <1>3, <1>4 DEF StreamFits

\* Rows leave: nothing that was held or known is lost.
LEMMA QuietKeeps ==
    ASSUME NEW v, NEW r, NEW q, NEW lag, NEW O, NEW E, NEW h, NEW a, NEW T,
           StreamFits(O, E, h, a, T), Sound(v, r, q, lag, O, E, h, a, T),
           NEW O2 \in SUBSET O, NEW E2 \in SUBSET E, NEW a2 \in {a, None}
    PROVE  Sound(v, r, q, lag, O2, E2, h, a2, T)
<1>1. /\ HandTypes(r, q, lag) /\ Stands(r, q, lag, h) /\ PageSound(r, O, h)
      /\ QueueSound(q, h, T) /\ TailHeld(r, q, lag, O, T)
      /\ KeysHeld(v, r, q, lag, O, E, h, a, T) /\ GapHonest(r, O, h)
  BY DEF Sound
<1>2. PageSound(r, O2, h)
  BY <1>1 DEF PageSound
<1>3. TailHeld(r, q, lag, O2, T)
  BY <1>1 DEF TailHeld
<1>4. GapHonest(r, O2, h)
  BY <1>1 DEF GapHonest
<1>5. KeysHeld(v, r, q, lag, O2, E2, h, a2, T)
  <2>1. r.phase = "keying" /\ h < r.first => a2 \in {None, r.sealed}
    BY <1>1 DEF KeysHeld
  <2>2. ASSUME NEW g, g # None, Withheld(r, g, O, h, a)
        PROVE  Withheld(r, g, O2, h, a2)
    BY <2>2 DEF Withheld
  <2>3. \A e \in E2 : e.group # None
    BY <1>1, Numbers
  <2>4. QED
    BY <1>1, <2>1, <2>2, <2>3 DEF KeysHeld
<1>6. QED
  BY <1>1, <1>2, <1>3, <1>4, <1>5 DEF Sound

\* An object is committed: it is above everything sent and queued, it waits for
\* its broadcast, and its group is new or was active already.
LEMMA ObjectKeeps ==
    ASSUME NEW v, NEW r, NEW q, NEW lag, NEW O, NEW E, NEW h, NEW a, NEW T,
           StreamFits(O, E, h, a, T), Sound(v, r, q, lag, O, E, h, a, T),
           NEW h2, h2 = h + 1, NEW a2, a = a2 \/ \A e \in E : e.group # a2,
           NEW O2, \A x \in O2 : x \in O \/ (x.sequence = h2 /\ x.group = a2),
           NEW E2 \in SUBSET E, NEW T2, T \subseteq T2, InTransit(T2, h2),
           \A x \in T2 : x \in T \/ (x.kind = "Object" => x.item.sequence = h2)
    PROVE  Sound(v, r, q, lag, O2, E2, h2, a2, T2)
<1>1. /\ HandTypes(r, q, lag) /\ Stands(r, q, lag, h) /\ PageSound(r, O, h)
      /\ QueueSound(q, h, T) /\ TailHeld(r, q, lag, O, T)
      /\ KeysHeld(v, r, q, lag, O, E, h, a, T) /\ GapHonest(r, O, h)
  BY DEF Sound
<1>2. /\ h \in Nat /\ r.first \in Nat /\ r.last \in Nat
      /\ \A p \in r.page : p.sequence \in Nat
      /\ \A y \in O : y.sequence \in Nat /\ y.sequence <= h
      /\ r.first >= 1 => r.last <= h
  BY <1>1, Numbers DEF Stands
<1>3. Stands(r, q, lag, h2)
  BY <1>1, <1>2 DEF Stands
<1>4. PageSound(r, O2, h2)
  BY <1>1, <1>2 DEF PageSound
<1>5. QueueSound(q, h2, T2)
  BY <1>1, <1>2 DEF QueueSound
<1>6. TailHeld(r, q, lag, O2, T2)
  <2>1. \A n : InTransit(T, n) => InTransit(T2, n)
    BY DEF InTransit
  <2>2. QED
    BY <1>1, <2>1 DEF TailHeld
<1>7. GapHonest(r, O2, h2)
  BY <1>1, <1>2 DEF GapHonest
<1>8. KeysHeld(v, r, q, lag, O2, E2, h2, a2, T2)
  <2>1. r.phase \in {"keying", "replay", "sending"} => ~(h2 < r.first)
    BY <1>1, <1>2 DEF Stands
  <2>2. ASSUME NEW e \in E, Withheld(r, e.group, O, h, a)
        PROVE  Withheld(r, e.group, O2, h2, a2)
    <3>1. PICK g : g = e.group
      OBVIOUS
    <3>2. Withheld(r, g, O, h, a) /\ (a2 = g => a = g)
      BY <2>2, <3>1
    <3>3. r.phase \in {"replay", "sending", "live"} =>
            \A y \in O2 : y.group = g => y.sequence < r.first \/ y.sequence > r.last
      <4>1. r.phase \in {"replay", "sending", "live"} => h2 > r.last
        BY <1>1, <1>2 DEF Stands
      <4>2. QED
        BY <3>2, <4>1 DEF Withheld
    <3>4. OnReceiver(r) =>
            \/ \E p \in r.page : p.group = g
            \/ a2 # g /\ \A y \in O2 : y.group = g => y.sequence < r.first
      BY <3>2 DEF Withheld
    <3>5. Withheld(r, g, O2, h2, a2)
      BY <2>1, <3>2, <3>3, <3>4 DEF Withheld
    <3>6. QED
      BY <3>1, <3>5
  <2>3. \A e : Known(r, q, T, e) => Known(r, q, T2, e)
    BY DEF Known
  <2>4. QED
    BY <1>1, <2>1, <2>2, <2>3 DEF KeysHeld
<1>9. QED
  BY <1>1, <1>3, <1>4, <1>5, <1>6, <1>7, <1>8 DEF Sound

\* An envelope is committed: the receiver will get it.
LEMMA EnvelopeKeeps ==
    ASSUME NEW v, NEW r, NEW q, NEW lag, NEW O, NEW E, NEW h, NEW a, NEW T,
           StreamFits(O, E, h, a, T), Sound(v, r, q, lag, O, E, h, a, T),
           NEW O2 \in SUBSET O, NEW T2, T \subseteq T2, \A x \in T2 : x \in T \/ x.kind = "Envelope",
           NEW E2, \A f \in E2 :
                f \in E \/ [stream |-> r.stream, kind |-> "Envelope", item |-> f] \in T2
    PROVE  Sound(v, r, q, lag, O2, E2, h, a, T2)
<1>1. /\ HandTypes(r, q, lag) /\ Stands(r, q, lag, h) /\ PageSound(r, O, h)
      /\ QueueSound(q, h, T) /\ TailHeld(r, q, lag, O, T)
      /\ KeysHeld(v, r, q, lag, O, E, h, a, T) /\ GapHonest(r, O, h)
  BY DEF Sound
<1>2. PageSound(r, O2, h)
  BY <1>1 DEF PageSound
<1>3. QueueSound(q, h, T2)
  BY <1>1 DEF QueueSound
<1>4. TailHeld(r, q, lag, O2, T2)
  <2>1. \A n : InTransit(T, n) => InTransit(T2, n)
    BY DEF InTransit
  <2>2. QED
    BY <1>1, <2>1 DEF TailHeld
<1>5. GapHonest(r, O2, h)
  BY <1>1 DEF GapHonest
<1>6. KeysHeld(v, r, q, lag, O2, E2, h, a, T2)
  <2>1. \A e : Known(r, q, T, e) => Known(r, q, T2, e)
    BY DEF Known
  <2>2. \A f \in E2 : f \in E \/ Known(r, q, T2, f)
    BY DEF Known
  <2>3. ASSUME NEW g, Withheld(r, g, O, h, a)
        PROVE  Withheld(r, g, O2, h, a)
    BY <2>3 DEF Withheld
  <2>4. QED
    BY <1>1, <2>1, <2>2, <2>3 DEF KeysHeld
<1>7. QED
  BY <1>1, <1>2, <1>3, <1>4, <1>5, <1>6 DEF Sound

\* A broadcast to a receiver of the stream: the item moves from transit to the
\* queue, or the receiver is marked as lagged.
LEMMA SendKeeps ==
    ASSUME NEW v, NEW r, NEW q, NEW lag, NEW O, NEW E, NEW h, NEW a, NEW T,
           StreamFits(O, E, h, a, T), Sound(v, r, q, lag, O, E, h, a, T),
           r.phase \notin Ended,
           NEW x \in T, NEW T2 \in SUBSET T, T \subseteq T2 \cup {x},
           x.kind = "Object" => \A y \in T2 : y.kind # "Object",
           x.stream = r.stream,
           NEW lag2 \in BOOLEAN, ~ lag2 <=> ~ lag /\ Len(q) # Capacity
    PROVE  Sound(v, r, Push(q, x), lag2, O, E, h, a, T2)
<1>1. /\ HandTypes(r, q, lag) /\ Stands(r, q, lag, h) /\ PageSound(r, O, h)
      /\ QueueSound(q, h, T) /\ TailHeld(r, q, lag, O, T)
      /\ KeysHeld(v, r, q, lag, O, E, h, a, T) /\ GapHonest(r, O, h)
  BY DEF Sound
<1>2. x \in LiveItem /\ (x.kind = "Object" => x.item.sequence = h) /\ h \in Nat
  BY <1>1, Numbers DEF StreamFits
<1>3. q \in Seq(LiveItem) /\ Len(q) <= Capacity
  BY <1>1 DEF HandTypes
<1>0. PICK p : p = Push(q, x)
  OBVIOUS
<1>4. /\ p \in Seq(LiveItem) /\ Len(p) <= Capacity
      /\ \A n \in ObjectsIn(p) : n \in ObjectsIn(q) \/ (x.kind = "Object" /\ n = x.item.sequence)
      /\ InOrder(q) /\ (x.kind = "Object" => \A n \in ObjectsIn(q) : n < x.item.sequence)
            => InOrder(p)
  BY <1>0, <1>2, <1>3, PushItems
<1>5. ~ lag2 => /\ ~ lag /\ ObjectsIn(q) \subseteq ObjectsIn(p)
                /\ x.kind = "Object" => x.item.sequence \in ObjectsIn(p)
                /\ EnvelopesIn(q) \subseteq EnvelopesIn(p)
                /\ x.kind = "Envelope" => x.item \in EnvelopesIn(p)
  BY <1>0, <1>2, <1>3, PushItems
<1>6. HandTypes(r, p, lag2)
  BY <1>1, <1>4 DEF HandTypes
<1>7. Stands(r, p, lag2, h)
  BY <1>1 DEF Stands
<1>8. QueueSound(p, h, T2)
  <2>1. InOrder(p)
    BY <1>1, <1>4 DEF QueueSound
  <2>2. \A n \in ObjectsIn(p) : n \in Nat /\ n <= h
    BY <1>1, <1>2, <1>4 DEF QueueSound
  <2>3. ASSUME NEW n \in ObjectsIn(p), NEW y \in T2, y.kind = "Object"
        PROVE  n < y.item.sequence
    BY <1>1, <1>4, <2>3 DEF QueueSound
  <2>4. QED
    BY <2>1, <2>2, <2>3 DEF QueueSound
<1>9. TailHeld(r, p, lag2, O, T2)
  <2> SUFFICES ASSUME OnReceiver(r), ~ lag2, NEW y \in O, y.sequence > r.last
               PROVE  y \in r.page \/ y.sequence \in ObjectsIn(p) \/ InTransit(T2, y.sequence)
    BY DEF TailHeld
  <2>1. y \in r.page \/ y.sequence \in ObjectsIn(q) \/ InTransit(T, y.sequence)
    BY <1>1, <1>5 DEF TailHeld
  <2>2. InTransit(T, y.sequence) => y.sequence \in ObjectsIn(p) \/ InTransit(T2, y.sequence)
    BY <1>5 DEF InTransit
  <2>3. QED
    BY <1>5, <2>1, <2>2
<1>10. KeysHeld(v, r, p, lag2, O, E, h, a, T2)
  <2>1. ASSUME NEW e, ~ lag2, Known(r, q, T, e)
        PROVE  Known(r, p, T2, e)
    <3>1. CASE e.group \in r.keys \/ e \in EnvelopesIn(q)
      BY <1>5, <2>1, <3>1 DEF Known
    <3>2. CASE [stream |-> r.stream, kind |-> "Envelope", item |-> e] \in T2
      BY <3>2 DEF Known
    <3>3. CASE [stream |-> r.stream, kind |-> "Envelope", item |-> e] = x
      <4>1. x.kind = "Envelope" /\ x.item = e
        BY <3>3
      <4>2. QED
        BY <1>5, <2>1, <4>1 DEF Known
    <3>4. QED
      BY <2>1, <3>1, <3>2, <3>3 DEF Known
  <2>2. QED
    BY <1>1, <1>5, <2>1 DEF KeysHeld
<1>11. Sound(v, r, p, lag2, O, E, h, a, T2)
  BY <1>1, <1>6, <1>7, <1>8, <1>9, <1>10 DEF Sound
<1>12. QED
  BY <1>0, <1>11

\* A broadcast to others, or a restart: items leave transit that no open
\* subscription of the stream needs.
LEMMA ClosedKeeps ==
    ASSUME NEW v, NEW r, NEW q, NEW lag, NEW O, NEW E, NEW h, NEW a, NEW T,
           StreamFits(O, E, h, a, T), Sound(v, r, q, lag, O, E, h, a, T),
           r.phase \in Ended, NEW T2 \in SUBSET T
    PROVE  Sound(v, r, q, lag, O, E, h, a, T2)
<1>1. /\ HandTypes(r, q, lag) /\ Stands(r, q, lag, h) /\ PageSound(r, O, h)
      /\ QueueSound(q, h, T) /\ GapHonest(r, O, h)
  BY DEF Sound
<1>2. QueueSound(q, h, T2)
  BY <1>1 DEF QueueSound
<1>3. TailHeld(r, q, lag, O, T2)
  BY DEF TailHeld, OnReceiver, Ended
<1>4. KeysHeld(v, r, q, lag, O, E, h, a, T2)
  BY DEF KeysHeld, Withheld, OnReceiver, Ended
<1>5. QED
  BY <1>1, <1>2, <1>3, <1>4 DEF Sound

\* The task ends: its receiver and its page are dropped.
LEMMA EndKeeps ==
    ASSUME NEW v, NEW r, NEW q, NEW lag, NEW O, NEW E, NEW h, NEW a, NEW T,
           StreamFits(O, E, h, a, T), Sound(v, r, q, lag, O, E, h, a, T), NEW T2 \in SUBSET T,
           NEW r2 \in Subscription, r2.phase \in Ended, r2.stream = r.stream, r2.page = {},
           r2.first = r.first, r2.last = r.last,
           r.phase \notin Ended, r.phase # "subscribed" \/ r2.phase = "closed",
           r2.phase = "gap" => r.last + 1 <= h /\ \A x \in O : x.sequence # r.last + 1
    PROVE  Sound(v, r2, <<>>, FALSE, O, E, h, a, T2)
<1>1. /\ HandTypes(r, q, lag) /\ Stands(r, q, lag, h)
  BY DEF Sound
<1>2. r2.phase \in {"closed", "gap", "unavailable"}
  BY DEF Ended
<1>3. HandTypes(r2, <<>>, FALSE)
  BY <1>2, EmptyQueue, ServiceAssumption DEF HandTypes
<1>4. Stands(r2, <<>>, FALSE, h)
  BY <1>1, <1>2 DEF Stands, Ended
<1>5. PageSound(r2, O, h)
  BY <1>2 DEF PageSound
<1>6. QueueSound(<<>>, h, T2)
  BY EmptyQueue DEF QueueSound
<1>7. TailHeld(r2, <<>>, FALSE, O, T2)
  BY <1>2 DEF TailHeld, OnReceiver
<1>8. KeysHeld(v, r2, <<>>, FALSE, O, E, h, a, T2)
  BY <1>2 DEF KeysHeld, Withheld, OnReceiver
<1>9. GapHonest(r2, O, h)
  BY <1>2 DEF GapHonest
<1>10. QED
  BY <1>3, <1>4, <1>5, <1>6, <1>7, <1>8, <1>9 DEF Sound

\* The publishers and retention keep every subscription's invariant.
LEMMA PublishersKeepFeed ==
    ASSUME ServiceBase, NEW v \in Recipients, SubInv(v), UNCHANGED viewerVars,
           \A s \in Streams : StreamMoves(s)
    PROVE  SubInv(v)'
<1>0. sub'[v] = sub[v] /\ queue'[v] = queue[v] /\ lagged'[v] = lagged[v]
  BY DEF viewerVars
<1>1. CASE sub[v].phase = "off"
  BY <1>0, <1>1 DEF SubInv, Idle
<1>2. CASE sub[v].phase # "off"
  <2>1. PICK s \in Streams : s = sub[v].stream
    BY <1>2 DEF SubInv
  <2> DEFINE r == sub[v]
             q == queue[v]
             lag == lagged[v]
  <2>2. /\ StreamFits(objects[s], envelopes[s], high_water[s], active[s], Transit(s))
        /\ Sound(v, r, q, lag, objects[s], envelopes[s], high_water[s], active[s], Transit(s))
        /\ s = r.stream
    BY <1>2, <2>1, StreamsFit DEF SubInv
  <2> HIDE DEF r, q, lag
  <2>3. Sound(v, r, q, lag, objects'[s], envelopes'[s], high_water'[s], active'[s], Transit(s)')
    <3>1. CASE Quiet(s)
      <4>1. /\ objects'[s] \in SUBSET objects[s] /\ envelopes'[s] \in SUBSET envelopes[s]
            /\ active'[s] \in {active[s], None}
            /\ high_water'[s] = high_water[s] /\ Transit(s)' = Transit(s)
        BY <3>1 DEF Quiet
      <4>2. Sound(v, r, q, lag, objects'[s], envelopes'[s], high_water[s], active'[s], Transit(s))
        BY <2>2, <4>1, QuietKeeps
      <4>3. QED
        BY <4>1, <4>2
    <3>2. ASSUME NEW o \in Object, ObjectArrives(s, o)
          PROVE  <2>3!:
      <4>1. /\ objects'[s] \subseteq objects[s] \cup {o} /\ envelopes'[s] \in SUBSET envelopes[s]
            /\ o.sequence = high_water[s] + 1 /\ high_water'[s] = high_water[s] + 1
            /\ active'[s] = o.group
            /\ active[s] = active'[s] \/ \A e \in envelopes[s] : e.group # active'[s]
            /\ \A x \in objects'[s] :
                  x \in objects[s] \/ (x.sequence = high_water'[s] /\ x.group = active'[s])
        BY <3>2 DEF ObjectArrives
      <4>2. /\ Transit(s) \subseteq Transit(s)' /\ InTransit(Transit(s)', high_water'[s])
            /\ \A x \in Transit(s)' :
                  x \in Transit(s) \/ (x.kind = "Object" => x.item.sequence = high_water'[s])
        <5> DEFINE x == [stream |-> s, kind |-> "Object", item |-> o]
        <5>1. x.kind = "Object" /\ x.item.sequence = high_water'[s]
          BY <4>1
        <5>2. Transit(s)' = Transit(s) \cup {x}
          BY <3>2 DEF ObjectArrives
        <5> HIDE DEF x
        <5>3. QED
          BY <5>1, <5>2 DEF InTransit
      <4>3. Sound(v, r, q, lag, objects'[s], envelopes'[s], high_water'[s], active'[s], Transit(s)')
        BY <2>2, <4>1, <4>2, ObjectKeeps
      <4>4. QED
        BY <4>1, <4>3
    <3>3. ASSUME NEW e \in Envelope, EnvelopeArrives(s, e)
          PROVE  <2>3!:
      <4>1. /\ objects'[s] \in SUBSET objects[s] /\ envelopes'[s] \subseteq envelopes[s] \cup {e}
            /\ high_water'[s] = high_water[s] /\ active'[s] = active[s]
            /\ Transit(s)' = Transit(s) \cup {[stream |-> r.stream, kind |-> "Envelope", item |-> e]}
        BY <2>2, <3>3 DEF EnvelopeArrives
      <4>2. /\ Transit(s) \subseteq Transit(s)'
            /\ \A x \in Transit(s)' : x \in Transit(s) \/ x.kind = "Envelope"
            /\ \A f \in envelopes'[s] : \/ f \in envelopes[s]
                  \/ [stream |-> r.stream, kind |-> "Envelope", item |-> f] \in Transit(s)'
        BY <4>1
      <4>3. Sound(v, r, q, lag, objects'[s], envelopes'[s], high_water[s], active[s], Transit(s)')
        BY <2>2, <4>1, <4>2, EnvelopeKeeps
      <4>4. QED
        BY <4>1, <4>3
    <3>4. QED
      BY <3>1, <3>2, <3>3 DEF StreamMoves
  <2>4. QED
    BY <1>0, <1>2, <2>1, <2>3 DEF SubInv, r, q, lag
<1>3. QED
  BY <1>1, <1>2

\* A broadcast takes its item out of transit; no second object of the stream
\* was there, since one session holds the stream.
LEMMA TransitTaken ==
    ASSUME SessionInv, NEW c \in Sessions, conn[c] = "stored",
           conn' = [conn EXCEPT ![c] = "serving"], pending' = [pending EXCEPT ![c] = None],
           NEW s \in Streams
    PROVE  /\ Transit(s)' \in SUBSET Transit(s)
           /\ pending[c].stream # s => Transit(s)' = Transit(s)
           /\ pending[c].stream = s =>
                /\ pending[c] \in Transit(s) /\ Transit(s) \subseteq Transit(s)' \cup {pending[c]}
                /\ pending[c].kind = "Object" => \A y \in Transit(s)' : y.kind # "Object"
<1>1. conn'[c] = "serving" /\ \A d \in Sessions \ {c} : conn'[d] = conn[d] /\ pending'[d] = pending[d]
  BY DEF SessionInv, HeldTypes
<1>2. \A y \in Transit(s)' : \E d \in Sessions \ {c} :
            conn[d] = "stored" /\ pending[d].stream = s /\ y = pending[d]
  BY <1>1 DEF Transit
<1>3. Transit(s)' \in SUBSET Transit(s)
  BY <1>2 DEF Transit
<1>4. \A y \in Transit(s) : y \in Transit(s)' \/ (y = pending[c] /\ pending[c].stream = s)
  BY <1>1 DEF Transit
<1>5. ASSUME pending[c].stream = s, pending[c].kind = "Object"
      PROVE  \A y \in Transit(s)' : y.kind # "Object"
  <2> SUFFICES ASSUME NEW d \in Sessions \ {c}, conn[d] = "stored", pending[d].stream = s,
                      pending[d].kind = "Object"
               PROVE  FALSE
    BY <1>2
  <2>1. s \in touched[c] /\ s \in touched[d]
    BY <1>5 DEF SessionInv, WorkIsHeld
  <2>2. QED
    BY <2>1 DEF SessionInv, ClaimsExclusive
<1>6. pending[c].stream = s => pending[c] \in Transit(s)
  BY DEF Transit
<1>7. QED
  BY <1>3, <1>4, <1>5, <1>6

\* A broadcast keeps every subscription's invariant.
LEMMA BroadcastKeepsFeed ==
    ASSUME ServiceBase, NEW c \in Sessions, Broadcast(c), NEW v \in Recipients, SubInv(v)
    PROVE  SubInv(v)'
<1> DEFINE x == pending[c]
           To == Receives(v, x.stream)
<1>0. /\ SessionInv /\ conn[c] = "stored" /\ conn' = [conn EXCEPT ![c] = "serving"]
      /\ pending' = [pending EXCEPT ![c] = None]
      /\ UNCHANGED <<objects, envelopes, high_water, active, sub>>
  BY DEF Broadcast, ServiceBase, storeVars
<1>1. /\ queue'[v] = IF To THEN Push(queue[v], x) ELSE queue[v]
      /\ lagged'[v] = (lagged[v] \/ (To /\ Len(queue[v]) = Capacity))
  BY DEF Broadcast
<1>2. CASE sub[v].phase = "off"
  <2>1. ~ To
    BY <1>2 DEF Receives
  <2>2. queue'[v] = queue[v] /\ lagged'[v] = FALSE
    BY <1>1, <1>2, <2>1 DEF SubInv, Idle
  <2>3. QED
    BY <1>0, <1>2, <2>2 DEF SubInv, Idle
<1>3. CASE sub[v].phase # "off"
  <2>1. PICK s \in Streams : s = sub[v].stream
    BY <1>3 DEF SubInv
  <2> DEFINE r == sub[v]
             q == queue[v]
             lag == lagged[v]
  <2>2. /\ StreamFits(objects[s], envelopes[s], high_water[s], active[s], Transit(s))
        /\ Sound(v, r, q, lag, objects[s], envelopes[s], high_water[s], active[s], Transit(s))
        /\ s = r.stream
    BY <1>3, <2>1, StreamsFit DEF SubInv
  <2>3. lag \in BOOLEAN
    BY <2>2 DEF Sound, HandTypes
  <2>4. /\ Transit(s)' \in SUBSET Transit(s)
        /\ x.stream # s => Transit(s)' = Transit(s)
        /\ x.stream = s =>
             /\ x \in Transit(s) /\ Transit(s) \subseteq Transit(s)' \cup {x}
             /\ x.kind = "Object" => \A y \in Transit(s)' : y.kind # "Object"
    BY <1>0, TransitTaken
  <2>5. To <=> r.phase \notin Ended /\ x.stream = s
    BY <1>3, <2>2 DEF Receives
  <2> HIDE DEF r, q, lag, x, To
  <2>6. CASE ~ To
    <3>1. queue'[v] = q /\ lagged'[v] = lag
      BY <1>1, <2>3, <2>6 DEF q, lag
    <3>2. Sound(v, r, q, lag, objects[s], envelopes[s], high_water[s], active[s], Transit(s)')
      <4>1. CASE x.stream # s
        BY <2>2, <2>4, <4>1
      <4>2. CASE r.phase \in Ended
        BY <2>2, <2>4, <4>2, ClosedKeeps
      <4>3. QED
        BY <2>5, <2>6, <4>1, <4>2
    <3>3. QED
      BY <1>0, <1>3, <2>1, <3>1, <3>2 DEF SubInv, r, q, lag
  <2>7. CASE To
    <3>1. queue'[v] = Push(q, x) /\ lagged'[v] \in BOOLEAN
          /\ (~ lagged'[v] <=> ~ lag /\ Len(q) # Capacity)
      BY <1>1, <2>3, <2>7 DEF q, lag
    <3>2. r.phase \notin Ended /\ x.stream = r.stream /\ x \in Transit(s)
          /\ Transit(s) \subseteq Transit(s)' \cup {x}
          /\ (x.kind = "Object" => \A y \in Transit(s)' : y.kind # "Object")
      BY <2>2, <2>4, <2>5, <2>7
    <3>3. Sound(v, r, Push(q, x), lagged'[v], objects[s], envelopes[s], high_water[s], active[s],
                Transit(s)')
      BY <2>2, <2>4, <3>1, <3>2, SendKeeps
    <3>4. QED
      BY <1>0, <1>3, <2>1, <3>1, <3>3 DEF SubInv, r, q, lag
  <2>8. QED
    BY <2>6, <2>7
<1>4. QED
  BY <1>2, <1>3

\* A restart closes every open subscription.
LEMMA RestartKeepsFeed ==
    ASSUME ServiceBase, Restart, NEW v \in Recipients, SubInv(v)
    PROVE  SubInv(v)'
<1>0. UNCHANGED <<objects, envelopes, high_water, active>> /\ SessionInv
  BY DEF Restart, ServiceBase, storeVars
<1>1. \A s : Transit(s)' = {}
  BY DEF Restart, Transit
<1>2. queue'[v] = <<>> /\ lagged'[v] = FALSE
  BY DEF Restart
<1>3. CASE sub[v].phase = "off"
  <2>1. sub'[v] = sub[v]
    BY <1>3 DEF Restart
  <2>2. QED
    BY <1>2, <1>3, <2>1 DEF SubInv, Idle
<1>4. CASE sub[v].phase # "off"
  <2>1. PICK s \in Streams : s = sub[v].stream
    BY <1>4 DEF SubInv
  <2>2. /\ StreamFits(objects[s], envelopes[s], high_water[s], active[s], Transit(s))
        /\ Sound(v, sub[v], queue[v], lagged[v],
                 objects[s], envelopes[s], high_water[s], active[s], Transit(s))
    BY <1>4, <2>1, StreamsFit DEF SubInv
  <2>3. Transit(s)' \in SUBSET Transit(s)
    BY <1>1
  <2>4. CASE sub[v].phase \in Ended
    <3>1. sub'[v] = sub[v]
      BY <2>4 DEF Restart
    <3>2. queue[v] = <<>> /\ lagged[v] = FALSE
      BY <2>2, <2>4 DEF Sound, Stands
    <3>3. Sound(v, sub[v], queue[v], lagged[v],
                objects[s], envelopes[s], high_water[s], active[s], Transit(s)')
      BY <2>2, <2>3, <2>4, ClosedKeeps
    <3>4. QED
      BY <1>0, <1>2, <1>4, <2>1, <3>1, <3>2, <3>3 DEF SubInv
  <2>5. CASE sub[v].phase \notin Ended
    <3>1. sub'[v] = [sub[v] EXCEPT !.phase = "closed", !.page = {}, !.full = FALSE, !.sealed = None]
      BY <1>4, <2>5 DEF Restart
    <3>2. "closed" \in Ended /\ "closed" # "gap"
      BY DEF Ended
    <3>3. /\ sub'[v] \in Subscription /\ sub'[v].phase = "closed"
          /\ sub'[v].stream = sub[v].stream /\ sub'[v].page = {}
          /\ sub'[v].first = sub[v].first /\ sub'[v].last = sub[v].last
      BY <2>2, <3>1 DEF Sound, HandTypes, Subscription, Ended
    <3>4. Sound(v, sub'[v], <<>>, FALSE,
                objects[s], envelopes[s], high_water[s], active[s], Transit(s)')
      BY <2>2, <2>3, <2>5, <3>2, <3>3, EndKeeps
    <3>5. QED
      BY <1>0, <1>2, <2>1, <3>3, <3>4 DEF SubInv
  <2>6. QED
    BY <2>4, <2>5
<1>5. QED
  BY <1>3, <1>4

-----------------------------------------------------------------------------
(* The steps of a subscription keep it *)

\* subscription: the receiver exists and nothing was read.
LEMMA SubscribeKeeps ==
    ASSUME NEW v, NEW r, HandTypes(r, <<>>, FALSE), r.first = 0, r.page = {}, r.sealed = None,
           NEW s \in Streams, NEW start \in StartRequests, NEW r2,
           r2 = [r EXCEPT !.phase = "subscribed", !.stream = s, !.start = start],
           NEW O, NEW E, NEW h, NEW a, NEW T
    PROVE  Sound(v, r2, <<>>, FALSE, O, E, h, a, T)
<1>1. /\ r2 \in Subscription /\ r2.phase = "subscribed" /\ r2.stream = s /\ r2.start = start
      /\ r2.first = 0 /\ r2.page = {} /\ r2.sealed = None
  BY ZenonT(30) DEF HandTypes, Subscription
<1>2. HandTypes(r2, <<>>, FALSE)
  BY <1>1 DEF HandTypes
<1>3. Stands(r2, <<>>, FALSE, h)
  BY <1>1 DEF Stands, Ended
<1>4. PageSound(r2, O, h) /\ QueueSound(<<>>, h, T) /\ TailHeld(r2, <<>>, FALSE, O, T)
  BY <1>1, EmptyQueue DEF PageSound, QueueSound, TailHeld, OnReceiver
<1>5. KeysHeld(v, r2, <<>>, FALSE, O, E, h, a, T) /\ GapHonest(r2, O, h)
  BY <1>1 DEF KeysHeld, Withheld, OnReceiver, GapHonest
<1>6. QED
  BY <1>2, <1>3, <1>4, <1>5 DEF Sound

\* The anchor is a position of the stream.
LEMMA AnchorKeeps ==
    ASSUME NEW v, NEW r, NEW q, NEW lag, NEW O, NEW E, NEW h, NEW a, NEW T,
           StreamFits(O, E, h, a, T), Sound(v, r, q, lag, O, E, h, a, T),
           r.phase = "subscribed", NEW n \in 1..h + 1, NEW r2,
           r2 = [r EXCEPT !.phase = "anchored", !.first = n, !.last = n - 1]
    PROVE  Sound(v, r2, q, lag, O, E, h, a, T)
<1>1. /\ HandTypes(r, q, lag) /\ Stands(r, q, lag, h) /\ QueueSound(q, h, T)
  BY DEF Sound
<1>2. h \in 0..MaxSequence /\ MaxSequence \in Nat
  BY DataAssumption DEF StreamFits
<1>3. n \in 0..MaxSequence + 1 /\ n - 1 \in 0..MaxSequence /\ n >= 1 /\ n - 1 <= h /\ n - 1 >= n - 1
  BY <1>2
<1>4. /\ r2 \in Subscription /\ r2.phase = "anchored" /\ r2.stream = r.stream /\ r2.page = r.page
      /\ r2.first = n /\ r2.last = n - 1 /\ r2.sealed = r.sealed
  BY <1>1, <1>3 DEF HandTypes, Subscription
<1>5. r2.page = {}
  BY <1>1, <1>4 DEF Stands
<1>6. HandTypes(r2, q, lag)
  BY <1>1, <1>4 DEF HandTypes
<1>7. Stands(r2, q, lag, h)
  BY <1>1, <1>3, <1>4, <1>5 DEF Stands, Ended
<1>8. PageSound(r2, O, h) /\ TailHeld(r2, q, lag, O, T)
  BY <1>4, <1>5 DEF PageSound, TailHeld, OnReceiver
<1>9. KeysHeld(v, r2, q, lag, O, E, h, a, T) /\ GapHonest(r2, O, h)
  BY <1>4 DEF KeysHeld, Withheld, OnReceiver, GapHonest
<1>10. QED
  BY <1>1, <1>6, <1>7, <1>8, <1>9 DEF Sound

\* A start past the mark, whose object is retained: only the group of that
\* object can be the active one.
LEMMA KeyingKeeps ==
    ASSUME NEW v, NEW r, NEW q, NEW lag, NEW O, NEW E, NEW h, NEW a, NEW T,
           StreamFits(O, E, h, a, T), Sound(v, r, q, lag, O, E, h, a, T),
           r.phase = "anchored", NEW o \in O, o.sequence = h, NEW r2,
           r2 = [r EXCEPT !.phase = "keying", !.sealed = o.group]
    PROVE  Sound(v, r2, q, lag, O, E, h, a, T)
<1>1. /\ HandTypes(r, q, lag) /\ Stands(r, q, lag, h) /\ QueueSound(q, h, T)
  BY DEF Sound
<1>2. o.group \in GroupIds /\ a \in {None, o.group}
  BY DEF StreamFits, Object
<1>3. /\ r2 \in Subscription /\ r2.phase = "keying" /\ r2.stream = r.stream /\ r2.page = r.page
      /\ r2.first = r.first /\ r2.last = r.last /\ r2.sealed = o.group
  BY <1>1, <1>2 DEF HandTypes, Subscription
<1>4. r2.page = {}
  BY <1>1, <1>3 DEF Stands
<1>5. HandTypes(r2, q, lag)
  BY <1>1, <1>3 DEF HandTypes
<1>6. Stands(r2, q, lag, h)
  BY <1>1, <1>3, <1>4 DEF Stands, Ended
<1>7. PageSound(r2, O, h) /\ TailHeld(r2, q, lag, O, T)
  BY <1>3, <1>4 DEF PageSound, TailHeld, OnReceiver
<1>8. KeysHeld(v, r2, q, lag, O, E, h, a, T) /\ GapHonest(r2, O, h)
  BY <1>2, <1>3 DEF KeysHeld, Withheld, OnReceiver, GapHonest
<1>9. QED
  BY <1>1, <1>5, <1>6, <1>7, <1>8 DEF Sound

\* The replay starts: nothing was sent, and the active group is not one the
\* viewer lacks the key of when the start is past the mark.
LEMMA ReplayStarts ==
    ASSUME NEW v, NEW r, NEW q, NEW lag, NEW O, NEW E, NEW h, NEW a, NEW T,
           StreamFits(O, E, h, a, T), Sound(v, r, q, lag, O, E, h, a, T),
           r.phase \in {"anchored", "keying"},
           NEW r2 \in Subscription, r2.phase = "replay", r2.stream = r.stream, r2.page = r.page,
           r2.first = r.first, r2.last = r.last, r2.sealed = None,
           r2.lapsed = r.lapsed,
           h < r.first => \A e \in E : e.recipient = v /\ a = e.group => e.group \in r2.keys
    PROVE  Sound(v, r2, q, lag, O, E, h, a, T)
<1>1. /\ HandTypes(r, q, lag) /\ Stands(r, q, lag, h) /\ QueueSound(q, h, T)
  BY DEF Sound
<1>2. r2.page = {} /\ r.last = r.first - 1
  BY <1>1 DEF Stands
<1>3. /\ r.first \in Nat /\ r.last \in Nat /\ \A x \in O : x.sequence \in Nat
  BY <1>1, Numbers
<1>4. HandTypes(r2, q, lag)
  BY <1>1 DEF HandTypes
<1>5. Stands(r2, q, lag, h)
  BY <1>1, <1>2 DEF Stands, Ended
<1>6. PageSound(r2, O, h) /\ TailHeld(r2, q, lag, O, T) /\ GapHonest(r2, O, h)
  BY <1>2 DEF PageSound, TailHeld, OnReceiver, GapHonest
<1>7. ASSUME NEW e \in E, e.recipient = v, ~ Known(r2, q, T, e)
      PROVE  Withheld(r2, e.group, O, h, a)
  <2>1. h < r.first => a # e.group
    BY <1>7 DEF Known
  <2>2. \A x \in O : x.sequence < r.first \/ x.sequence > r.last
    BY <1>2, <1>3
  <2>3. QED
    BY <2>1, <2>2 DEF Withheld, OnReceiver
<1>8. KeysHeld(v, r2, q, lag, O, E, h, a, T)
  BY <1>7 DEF KeysHeld
<1>9. QED
  BY <1>1, <1>4, <1>5, <1>6, <1>8 DEF Sound

\* When nothing past the last object sent is retained outside the page, a group
\* whose key is missing is in the page or wholly before the subscription, and
\* not the active one: the active group holds the newest object.
LEMMA NothingBeyond ==
    ASSUME NEW r, NEW q, NEW lag, NEW g, NEW O, NEW E, NEW h, NEW a, NEW T,
           StreamFits(O, E, h, a, T), HandTypes(r, q, lag),
           r.phase = "replay", Withheld(r, g, O, h, a), g # None,
           NEW P, \A x \in O : x.sequence > r.last => x \in P
    PROVE  \/ \E p \in P : p.group = g
           \/ a # g /\ \A o \in O : o.group = g => o.sequence < r.first
<1> SUFFICES ASSUME \A p \in P : p.group # g
             PROVE  a # g /\ \A o \in O : o.group = g => o.sequence < r.first
  OBVIOUS
<1>1. /\ r.first \in Nat /\ r.last \in Nat /\ h \in Nat /\ \A x \in O : x.sequence \in Nat
  BY Numbers
<1>2. \A o \in O : o.group = g => o.sequence < r.first
  BY <1>1 DEF Withheld
<1>3. a # g
  <2> SUFFICES ASSUME a = g PROVE FALSE
    OBVIOUS
  <2>1. PICK o \in O : o.group = a /\ o.sequence = h
    BY DEF StreamFits
  <2>2. h < r.first
    BY <1>2, <2>1
  <2>3. QED
    BY <2>2 DEF Withheld
<1>4. QED
  BY <1>2, <1>3

\* list_objects: a page, and all that is left when it is not full.
LEMMA PageKeeps ==
    ASSUME NEW v, NEW r, NEW q, NEW lag, NEW O, NEW E, NEW h, NEW a, NEW T,
           StreamFits(O, E, h, a, T), Sound(v, r, q, lag, O, E, h, a, T),
           r.phase = "replay", NEW P \in SUBSET O, P # {}, \A p \in P : p.sequence > r.last,
           \A p \in P, x \in O : x.sequence > r.last /\ x.sequence <= p.sequence => x \in P,
           NEW full \in BOOLEAN, ~ full => \A x \in O : x.sequence > r.last => x \in P,
           NEW r2, r2 = [r EXCEPT !.phase = "sending", !.page = P, !.full = full]
    PROVE  Sound(v, r2, q, lag, O, E, h, a, T)
<1>1. /\ HandTypes(r, q, lag) /\ Stands(r, q, lag, h) /\ QueueSound(q, h, T)
      /\ KeysHeld(v, r, q, lag, O, E, h, a, T)
  BY DEF Sound
<1>2. P \in SUBSET Object
  BY DEF StreamFits
<1>3. /\ r2 \in Subscription /\ r2.phase = "sending" /\ r2.stream = r.stream /\ r2.page = P
      /\ r2.first = r.first /\ r2.last = r.last /\ r2.sealed = r.sealed /\ r2.full = full
      /\ r2.keys = r.keys /\ r2.lapsed = r.lapsed
  BY <1>1, <1>2 DEF HandTypes, Subscription
<1>4. HandTypes(r2, q, lag)
  BY <1>1, <1>3 DEF HandTypes
<1>5. Stands(r2, q, lag, h)
  BY <1>1, <1>3 DEF Stands, Ended
<1>6. PageSound(r2, O, h)
  BY <1>3 DEF PageSound, StreamFits
<1>7. TailHeld(r2, q, lag, O, T) /\ GapHonest(r2, O, h)
  BY <1>3 DEF TailHeld, OnReceiver, GapHonest
<1>8. ASSUME NEW g, g # None, Withheld(r, g, O, h, a)
      PROVE  Withheld(r2, g, O, h, a)
  <2>1. ~ full => \/ \E p \in P : p.group = g
                  \/ a # g /\ \A o \in O : o.group = g => o.sequence < r.first
    BY <1>1, <1>8, NothingBeyond
  <2>2. g # r2.sealed
    BY <1>1, <1>3, <1>8 DEF Stands
  <2>3. QED
    BY <1>3, <1>8, <2>1, <2>2 DEF Withheld, OnReceiver
<1>9. \A e \in E : e.group # None
  BY <1>1, Numbers
<1>10. KeysHeld(v, r2, q, lag, O, E, h, a, T)
  BY <1>1, <1>3, <1>8, <1>9 DEF KeysHeld, Known
<1>11. QED
  BY <1>1, <1>4, <1>5, <1>6, <1>7, <1>10 DEF Sound

\* An empty page: nothing is retained past the last object sent.
LEMMA ReplayEndKeeps ==
    ASSUME NEW v, NEW r, NEW q, NEW lag, NEW O, NEW E, NEW h, NEW a, NEW T,
           StreamFits(O, E, h, a, T), Sound(v, r, q, lag, O, E, h, a, T),
           r.phase = "replay", \A x \in O : ~(x.sequence > r.last),
           NEW r2, r2 = [r EXCEPT !.phase = "live", !.before = None]
    PROVE  Sound(v, r2, q, lag, O, E, h, a, T)
<1>1. /\ HandTypes(r, q, lag) /\ Stands(r, q, lag, h) /\ QueueSound(q, h, T)
      /\ KeysHeld(v, r, q, lag, O, E, h, a, T)
  BY DEF Sound
<1>2. /\ r2 \in Subscription /\ r2.phase = "live" /\ r2.stream = r.stream /\ r2.page = r.page
      /\ r2.first = r.first /\ r2.last = r.last /\ r2.sealed = r.sealed
      /\ r2.keys = r.keys /\ r2.lapsed = r.lapsed
  BY <1>1 DEF HandTypes, Subscription
<1>3. r.page = {}
  BY <1>1 DEF Stands
<1>4. HandTypes(r2, q, lag)
  BY <1>1, <1>2 DEF HandTypes
<1>5. Stands(r2, q, lag, h)
  BY <1>1, <1>2 DEF Stands, Ended
<1>6. PageSound(r2, O, h) /\ TailHeld(r2, q, lag, O, T) /\ GapHonest(r2, O, h)
  BY <1>2, <1>3 DEF PageSound, TailHeld, GapHonest
<1>7. ASSUME NEW g, g # None, Withheld(r, g, O, h, a)
      PROVE  Withheld(r2, g, O, h, a)
  <2>0. PICK P : P = {} /\ \A x \in O : x.sequence > r.last => x \in P
    OBVIOUS
  <2>1. \/ \E p \in P : p.group = g
        \/ a # g /\ \A o \in O : o.group = g => o.sequence < r.first
    BY <1>1, <1>7, <2>0, NothingBeyond
  <2>2. QED
    BY <1>2, <1>7, <2>0, <2>1 DEF Withheld, OnReceiver
<1>8. \A e \in E : e.group # None
  BY <1>1, Numbers
<1>9. KeysHeld(v, r2, q, lag, O, E, h, a, T)
  BY <1>1, <1>2, <1>7, <1>8 DEF KeysHeld, Known
<1>10. QED
  BY <1>1, <1>4, <1>5, <1>6, <1>9 DEF Sound

\* The next object of the page, after the envelope of its group.
LEMMA ReplayedKeeps ==
    ASSUME NEW v, NEW r, NEW q, NEW lag, NEW O, NEW E, NEW h, NEW a, NEW T,
           StreamFits(O, E, h, a, T), Sound(v, r, q, lag, O, E, h, a, T),
           r.phase = "sending", NEW o \in r.page, o.sequence = r.last + 1,
           NEW r2 \in Subscription, r2.stream = r.stream, r2.first = r.first,
           r2.last = r.last + 1, r2.lapsed = r.lapsed, r2.page = r.page \ {o},
           r2.page # {} => r2.phase = "sending" /\ (r2.full <=> r.full) /\ r2.sealed = o.group,
           r2.page = {} => r2.phase = (IF r.full THEN "replay" ELSE "live") /\ r2.sealed = None,
           r.keys \subseteq r2.keys,
           r.sealed # o.group =>
                \A e \in E : e.recipient = v /\ e.group = o.group => e.group \in r2.keys
    PROVE  Sound(v, r2, q, lag, O, E, h, a, T)
<1>1. /\ HandTypes(r, q, lag) /\ Stands(r, q, lag, h) /\ PageSound(r, O, h) /\ QueueSound(q, h, T)
      /\ TailHeld(r, q, lag, O, T) /\ KeysHeld(v, r, q, lag, O, E, h, a, T)
  BY DEF Sound
<1>2. /\ r.first \in Nat /\ r.last \in Nat /\ h \in Nat /\ \A x \in O : x.sequence \in Nat
      /\ \A p \in r.page : p.sequence \in Nat /\ r.full \in BOOLEAN
  BY <1>1, Numbers
<1>3. r.last + 1 <= h /\ r.first >= 1 /\ r.last >= r.first - 1
  BY <1>1 DEF PageSound, Stands
<1>4. HandTypes(r2, q, lag)
  BY <1>1 DEF HandTypes
<1>5. r2.phase \in {"sending", "replay", "live"}
  <2>1. CASE r2.page # {}
    BY <2>1
  <2>2. CASE r2.page = {} /\ r.full
    BY <2>2
  <2>3. CASE r2.page = {} /\ ~ r.full
    BY <2>3
  <2>4. QED
    BY <2>1, <2>2, <2>3
<1>6. (r2.phase = "sending" <=> r2.page # {}) /\ (r2.phase \in {"replay", "live"} => r2.sealed = None)
  <2>1. CASE r2.page # {}
    BY <2>1
  <2>2. CASE r2.page = {} /\ r.full
    BY <2>2
  <2>3. CASE r2.page = {} /\ ~ r.full
    BY <2>3
  <2>4. QED
    BY <2>1, <2>2, <2>3
<1>7. OnReceiver(r2) => OnReceiver(r)
  <2>1. CASE r2.page # {}
    BY <2>1 DEF OnReceiver
  <2>2. CASE r2.page = {} /\ r.full
    BY <2>2 DEF OnReceiver
  <2>3. CASE r2.page = {} /\ ~ r.full
    BY <2>3 DEF OnReceiver
  <2>4. QED
    BY <2>1, <2>2, <2>3
<1>8. Stands(r2, q, lag, h)
  <2>1. r2.phase \notin Ended /\ r.phase \notin Ended
    BY <1>5 DEF Ended
  <2>2. r2.last >= r2.first - 1 /\ r2.last <= h /\ r2.first >= 1
    BY <1>2, <1>3
  <2>3. QED
    BY <1>1, <1>5, <1>6, <2>1, <2>2 DEF Stands
<1>9. \A p \in r2.page : p \in r.page /\ p.sequence > r2.last
  BY <1>1, <1>2 DEF PageSound
<1>10. PageSound(r2, O, h)
  BY <1>1, <1>2, <1>9 DEF PageSound
<1>11. \A x \in O : x.sequence > r2.last => x.sequence > r.last /\ (x \in r.page => x \in r2.page)
  BY <1>2
<1>12. TailHeld(r2, q, lag, O, T)
  BY <1>1, <1>7, <1>11 DEF TailHeld
<1>13. GapHonest(r2, O, h)
  BY <1>5 DEF GapHonest
<1>14. ASSUME NEW g, g # o.group, Withheld(r, g, O, h, a)
       PROVE  Withheld(r2, g, O, h, a)
  <2>1. ASSUME NEW x \in O, x.group = g
        PROVE  x.sequence < r.first \/ x.sequence > r.last + 1
    <3>1. x.sequence < r.first \/ x.sequence > r.last
      BY <1>14, <2>1 DEF Withheld
    <3>2. x.sequence # r.last + 1
      <4> SUFFICES ASSUME x.sequence = r.last + 1 PROVE FALSE
        OBVIOUS
      <4>1. x \in r.page
        BY <1>1, <1>2 DEF PageSound
      <4>2. x = o
        BY <1>1, <4>1 DEF PageSound
      <4>3. QED
        BY <1>14, <2>1, <4>2
    <3>3. QED
      BY <1>2, <3>1, <3>2
  <2>2. r2.phase = "sending" => g # r2.sealed
    BY <1>6, <1>14
  <2>3. ~(h < r2.first)
    BY <1>2, <1>3
  <2>4. OnReceiver(r2) => \/ \E p \in r2.page : p.group = g
                          \/ a # g /\ \A x \in O : x.group = g => x.sequence < r2.first
    BY <1>7, <1>14 DEF Withheld
  <2>5. QED
    BY <2>1, <2>2, <2>3, <2>4 DEF Withheld
<1>15. ASSUME ~ lag, ~ r2.lapsed, NEW e \in E, e.recipient = v, ~ Known(r2, q, T, e)
       PROVE  Withheld(r2, e.group, O, h, a)
  <2>1. ~ Known(r, q, T, e)
    BY <1>15 DEF Known
  <2>2. Withheld(r, e.group, O, h, a)
    BY <1>1, <1>15, <2>1 DEF KeysHeld
  <2>3. e.group # o.group
    BY <1>15, <2>2 DEF Known, Withheld
  <2>4. QED
    BY <1>14, <2>2, <2>3
<1>16. KeysHeld(v, r2, q, lag, O, E, h, a, T)
  BY <1>5, <1>15 DEF KeysHeld
<1>17. QED
  BY <1>1, <1>4, <1>8, <1>10, <1>12, <1>13, <1>16 DEF Sound

\* In the live loop no page is left, so a group whose key is missing lies before
\* the subscription.
LEMMA LiveWithheld ==
    ASSUME NEW r, NEW q, NEW lag, NEW g, NEW O, NEW h, NEW a,
           Stands(r, q, lag, h), r.phase = "live", Withheld(r, g, O, h, a)
    PROVE  r.page = {} /\ a # g /\ \A o \in O : o.group = g => o.sequence < r.first
<1>1. r.page = {}
  BY DEF Stands
<1>2. QED
  BY <1>1 DEF Withheld, OnReceiver

\* The live loop takes an envelope from its receiver.
LEMMA TakeEnvelopeKeeps ==
    ASSUME NEW v, NEW r, NEW q, NEW lag, NEW O, NEW E, NEW h, NEW a, NEW T,
           StreamFits(O, E, h, a, T), Sound(v, r, q, lag, O, E, h, a, T),
           r.phase = "live", q # <<>>, Head(q).kind = "Envelope",
           NEW K, K \subseteq GroupIds, Head(q).item.recipient = v => Head(q).item.group \in K,
           NEW r2, r2 = [r EXCEPT !.keys = @ \cup K]
    PROVE  Sound(v, r2, Tail(q), lag, O, E, h, a, T)
<1>1. /\ HandTypes(r, q, lag) /\ Stands(r, q, lag, h) /\ QueueSound(q, h, T)
      /\ TailHeld(r, q, lag, O, T) /\ KeysHeld(v, r, q, lag, O, E, h, a, T)
  BY DEF Sound
<1>2. q \in Seq(LiveItem) /\ Len(q) <= Capacity /\ Len(q) \in Nat /\ Capacity \in Nat
  BY <1>1, ServiceAssumption DEF HandTypes
<1>3. PICK p : p = Tail(q)
  OBVIOUS
<1>4. /\ p \in Seq(LiveItem) /\ Len(p) = Len(q) - 1 /\ ObjectsIn(p) \subseteq ObjectsIn(q)
      /\ \A n \in ObjectsIn(q) : n \in ObjectsIn(p)
      /\ \A e \in EnvelopesIn(q) : e \in EnvelopesIn(p) \/ e = Head(q).item
      /\ InOrder(q) => InOrder(p)
  BY <1>2, <1>3, TailItems
<1>5. /\ r2 \in Subscription /\ r2.phase = "live" /\ r2.stream = r.stream /\ r2.page = r.page
      /\ r2.first = r.first /\ r2.last = r.last /\ r2.sealed = r.sealed
      /\ r2.lapsed = r.lapsed /\ r2.keys = r.keys \cup K /\ r2.full = r.full
  BY <1>1 DEF HandTypes, Subscription
<1>6. HandTypes(r2, p, lag)
  BY <1>1, <1>2, <1>4, <1>5 DEF HandTypes
<1>7. Stands(r2, p, lag, h)
  BY <1>1, <1>5 DEF Stands, Ended
<1>8. PageSound(r2, O, h) /\ GapHonest(r2, O, h)
  BY <1>1, <1>5 DEF PageSound, Stands, GapHonest
<1>9. QueueSound(p, h, T)
  BY <1>1, <1>4 DEF QueueSound
<1>10. TailHeld(r2, p, lag, O, T)
  BY <1>1, <1>4, <1>5 DEF TailHeld, OnReceiver
<1>11. \A e \in E : e.recipient = v /\ Known(r, q, T, e) => Known(r2, p, T, e)
  BY <1>4, <1>5 DEF Known
<1>12. \A g : Withheld(r, g, O, h, a) => Withheld(r2, g, O, h, a)
  BY <1>5 DEF Withheld, OnReceiver
<1>13. KeysHeld(v, r2, p, lag, O, E, h, a, T)
  BY <1>1, <1>5, <1>11, <1>12 DEF KeysHeld
<1>14. Sound(v, r2, p, lag, O, E, h, a, T)
  BY <1>6, <1>7, <1>8, <1>9, <1>10, <1>13 DEF Sound
<1>15. QED
  BY <1>3, <1>14

\* It takes an object that is the next one or was replayed already.
LEMMA TakeObjectKeeps ==
    ASSUME NEW v, NEW r, NEW q, NEW lag, NEW O, NEW E, NEW h, NEW a, NEW T,
           StreamFits(O, E, h, a, T), Sound(v, r, q, lag, O, E, h, a, T),
           r.phase = "live", q # <<>>, Head(q).kind = "Object",
           NEW n \in {r.last, Head(q).item.sequence},
           n >= r.last, n >= Head(q).item.sequence,
           NEW r2, r2 = [r EXCEPT !.last = n]
    PROVE  Sound(v, r2, Tail(q), lag, O, E, h, a, T)
<1>1. /\ HandTypes(r, q, lag) /\ Stands(r, q, lag, h) /\ QueueSound(q, h, T)
      /\ TailHeld(r, q, lag, O, T) /\ KeysHeld(v, r, q, lag, O, E, h, a, T)
  BY DEF Sound
<1>2. q \in Seq(LiveItem) /\ Len(q) <= Capacity /\ Len(q) \in Nat /\ Capacity \in Nat
  BY <1>1, ServiceAssumption DEF HandTypes
<1>3. PICK p : p = Tail(q)
  OBVIOUS
<1>4. /\ p \in Seq(LiveItem) /\ Len(p) = Len(q) - 1 /\ ObjectsIn(p) \subseteq ObjectsIn(q)
      /\ \A m \in ObjectsIn(q) : m \in ObjectsIn(p) \/ m = Head(q).item.sequence
      /\ \A e \in EnvelopesIn(q) : e \in EnvelopesIn(p)
      /\ InOrder(q) => InOrder(p)
      /\ Head(q).item.sequence \in ObjectsIn(q)
  BY <1>2, <1>3, TailItems
<1>5. /\ Head(q).item.sequence \in Nat /\ Head(q).item.sequence <= h
      /\ r.first \in Nat /\ r.last \in Nat /\ h \in 0..MaxSequence /\ MaxSequence \in Nat
      /\ \A x \in O : x.sequence \in Nat
  <2>1. Head(q).item.sequence \in Nat /\ Head(q).item.sequence <= h
    BY <1>1, <1>4 DEF QueueSound
  <2>2. r.first \in Nat /\ r.last \in Nat /\ \A x \in O : x.sequence \in Nat
    BY <1>1, Numbers
  <2>3. h \in 0..MaxSequence /\ MaxSequence \in Nat
    BY DataAssumption DEF StreamFits
  <2>4. QED
    BY <2>1, <2>2, <2>3
<1>6. n \in Nat /\ n <= h /\ n \in 0..MaxSequence
  <2>1. r.last <= h
    BY <1>1 DEF Stands
  <2>2. n \in Nat /\ n <= h
    BY <1>5, <2>1
  <2>3. QED
    BY <1>5, <2>2
<1>7. /\ r2 \in Subscription /\ r2.phase = "live" /\ r2.stream = r.stream /\ r2.page = r.page
      /\ r2.first = r.first /\ r2.last = n /\ r2.sealed = r.sealed
      /\ r2.lapsed = r.lapsed /\ r2.keys = r.keys /\ r2.full = r.full
  BY <1>1, <1>6 DEF HandTypes, Subscription
<1>8. HandTypes(r2, p, lag)
  BY <1>1, <1>2, <1>4, <1>7 DEF HandTypes
<1>9. Stands(r2, p, lag, h)
  BY <1>1, <1>5, <1>6, <1>7 DEF Stands, Ended
<1>10. PageSound(r2, O, h) /\ GapHonest(r2, O, h)
  BY <1>1, <1>7 DEF PageSound, Stands, GapHonest
<1>11. QueueSound(p, h, T)
  BY <1>1, <1>4 DEF QueueSound
<1>12. TailHeld(r2, p, lag, O, T)
  <2> SUFFICES ASSUME ~ lag, NEW x \in O, x.sequence > n
               PROVE  x \in r.page \/ x.sequence \in ObjectsIn(p) \/ InTransit(T, x.sequence)
    BY <1>7 DEF TailHeld
  <2>1. x.sequence > r.last /\ x.sequence # Head(q).item.sequence
    BY <1>5, <1>6
  <2>2. x \in r.page \/ x.sequence \in ObjectsIn(q) \/ InTransit(T, x.sequence)
    BY <1>1, <2>1 DEF TailHeld, OnReceiver
  <2>3. QED
    BY <1>4, <2>1, <2>2
<1>13. \A e \in E : Known(r, q, T, e) => Known(r2, p, T, e)
  BY <1>4, <1>7 DEF Known
<1>14. ASSUME NEW g, Withheld(r, g, O, h, a)
       PROVE  Withheld(r2, g, O, h, a)
  <2>1. a # g /\ \A o \in O : o.group = g => o.sequence < r.first
    BY <1>1, <1>14, LiveWithheld
  <2>2. QED
    BY <1>7, <2>1 DEF Withheld
<1>15. KeysHeld(v, r2, p, lag, O, E, h, a, T)
  BY <1>1, <1>7, <1>13, <1>14 DEF KeysHeld
<1>16. Sound(v, r2, p, lag, O, E, h, a, T)
  BY <1>8, <1>9, <1>10, <1>11, <1>12, <1>15 DEF Sound
<1>17. QED
  BY <1>3, <1>16

\* A re-anchor takes the object past the next one, unless the receiver lagged,
PastNextTaken(q, lag, p) ==
    /\ lag => p = q
    /\ ~ lag => p = Tail(q) /\ q # <<>> /\ Head(q).kind = "Object"

\* and the subscription stays as it is but for its phase and whether it lapsed.
BackToReplay(r, lag, r2) ==
    /\ r2 \in Subscription /\ r2.phase = "replay" /\ r2.stream = r.stream /\ r2.page = r.page
    /\ r2.first = r.first /\ r2.last = r.last /\ r2.sealed = r.sealed /\ r2.keys = r.keys
    /\ ~ r2.lapsed => ~ r.lapsed /\ ~ lag

\* The receiver lagged or holds an object past the next one: the task goes back
\* to the store.  Nothing is claimed of keys after a lag.
LEMMA ReanchorKeeps ==
    ASSUME NEW v, NEW r, NEW q, NEW lag, NEW O, NEW E, NEW h, NEW a, NEW T,
           StreamFits(O, E, h, a, T), Sound(v, r, q, lag, O, E, h, a, T),
           r.phase = "live", NEW p, PastNextTaken(q, lag, p), NEW r2, BackToReplay(r, lag, r2)
    PROVE  Sound(v, r2, p, FALSE, O, E, h, a, T)
<1> USE DEF PastNextTaken, BackToReplay
<1>1. /\ HandTypes(r, q, lag) /\ Stands(r, q, lag, h) /\ QueueSound(q, h, T)
      /\ KeysHeld(v, r, q, lag, O, E, h, a, T)
  BY DEF Sound
<1>2. /\ q \in Seq(LiveItem) /\ Len(q) <= Capacity /\ Len(q) \in Nat /\ Capacity \in Nat
      /\ lag \in BOOLEAN /\ r.lapsed \in BOOLEAN
  BY <1>1, ServiceAssumption, Numbers DEF HandTypes
<1>3. /\ p \in Seq(LiveItem) /\ Len(p) <= Capacity /\ ObjectsIn(p) \subseteq ObjectsIn(q)
      /\ InOrder(q) => InOrder(p)
      /\ ~ lag => \A e \in EnvelopesIn(q) : e \in EnvelopesIn(p)
  <2>1. CASE lag
    BY <1>2, <2>1
  <2>2. CASE ~ lag
    <3>1. p = Tail(q)
      BY <2>2
    <3>2. /\ p \in Seq(LiveItem) /\ Len(p) = Len(q) - 1 /\ ObjectsIn(p) \subseteq ObjectsIn(q)
          /\ \A e \in EnvelopesIn(q) : e \in EnvelopesIn(p)
          /\ InOrder(q) => InOrder(p)
      BY <1>2, <2>2, <3>1, TailItems
    <3>3. Len(p) <= Capacity
      BY <1>2, <3>2
    <3>4. QED
      BY <3>2, <3>3
  <2>3. QED
    BY <2>1, <2>2
<1>4. HandTypes(r2, p, FALSE)
  BY <1>3 DEF HandTypes
<1>5. Stands(r2, p, FALSE, h)
  BY <1>1 DEF Stands, Ended
<1>6. PageSound(r2, O, h) /\ GapHonest(r2, O, h) /\ TailHeld(r2, p, FALSE, O, T)
  BY <1>1 DEF PageSound, Stands, GapHonest, TailHeld, OnReceiver
<1>7. QueueSound(p, h, T)
  BY <1>1, <1>3 DEF QueueSound
<1>8. ~ lag => \A e \in E : Known(r, q, T, e) => Known(r2, p, T, e)
  BY <1>3 DEF Known
<1>9. ASSUME NEW g, Withheld(r, g, O, h, a)
       PROVE  Withheld(r2, g, O, h, a)
  <2>1. a # g /\ \A o \in O : o.group = g => o.sequence < r.first
    BY <1>1, <1>9, LiveWithheld
  <2>2. QED
    BY <2>1 DEF Withheld, OnReceiver
<1>10. KeysHeld(v, r2, p, FALSE, O, E, h, a, T)
  BY <1>1, <1>8, <1>9 DEF KeysHeld
<1>11. QED
  BY <1>4, <1>5, <1>6, <1>7, <1>10 DEF Sound

\* Every anchor is a position of the stream.
LEMMA AnchorRange ==
    ASSUME ServiceBase, NEW s \in Streams, NEW start \in StartRequests
    PROVE  Anchor(s, start) \in 1..high_water[s] + 1
<1>1. TypeOK /\ GroupsTile(groups[s], high_water[s])
  BY DEF ServiceBase, StoreConsistent, Consistent
<1>2. high_water[s] \in Nat /\ \A g \in groups[s] : g.first_sequence \in Nat \ {0} /\ g.last_sequence \in Nat
  BY <1>1, StreamRows
<1>3. Starts(groups[s]) \cup {NextLive(s)} \subseteq 1..high_water[s] + 1
  BY <1>1, <1>2 DEF Starts, NextLive, GroupsTile
<1>4. /\ start.at \in {"Live", "OldestRetained", "Sequence", "Timestamp"}
      /\ start.at \in {"Sequence", "Timestamp"} => start.value \in Nat
  BY ServiceAssumption
<1>5. Anchor(s, start) \in Starts(groups[s]) \cup {NextLive(s)}
  <2>1. CASE start.at = "Live"
    BY <1>1, <2>1, AnchorIsStart DEF Anchor
  <2>2. CASE start.at = "OldestRetained"
    BY <1>1, <2>2, AnchorIsStart DEF Anchor
  <2>3. CASE start.at = "Sequence"
    BY <1>1, <1>4, <2>3, AnchorIsStart DEF Anchor
  <2>4. CASE start.at = "Timestamp"
    BY <1>1, <1>4, <2>4, AnchorIsStart DEF Anchor
  <2>5. QED
    BY <1>4, <2>1, <2>2, <2>3, <2>4
<1>6. QED
  BY <1>3, <1>5

\* What a step of its task says about a subscription, in the pure form.
LEMMA OwnStepKeeps ==
    ASSUME NEW u \in Recipients, NEW s \in Streams, UNCHANGED <<storeVars, sessionVars>>,
           sub'[u].stream = s,
           Sound(u, sub'[u], queue'[u], lagged'[u],
                 objects[s], envelopes[s], high_water[s], active[s], Transit(s))
    PROVE  SubInv(u)'
<1>1. UNCHANGED <<objects, envelopes, high_water, active, conn, pending>>
  BY DEF storeVars, sessionVars
<1>2. Transit(s)' = Transit(s)
  BY <1>1 DEF Transit
<1>3. sub'[u].phase # "off"
  BY DEF Sound, Stands
<1>4. QED
  BY <1>1, <1>2, <1>3 DEF SubInv

\* An open subscription and its stream.
Opens(u, s) ==
    /\ s = sub[u].stream
    /\ StreamFits(objects[s], envelopes[s], high_water[s], active[s], Transit(s))
    /\ Sound(u, sub[u], queue[u], lagged[u],
             objects[s], envelopes[s], high_water[s], active[s], Transit(s))

\* A subscription that has started is an open one.
LEMMA OpensStream ==
    ASSUME ServiceBase, NEW u \in Recipients, SubInv(u), sub[u].phase # "off"
    PROVE  \E s \in Streams : Opens(u, s)
BY StreamsFit DEF SubInv, Opens

\* The subscription of u becomes r, whose stream is the same.
LEMMA BecomesOwn ==
    ASSUME ViewerFunctions, NEW u \in Recipients, NEW r, Becomes(u, r)
    PROVE  /\ sub'[u] = r /\ UNCHANGED <<storeVars, sessionVars>>
           /\ \A v \in Recipients \ {u} : sub'[v] = sub[v]
BY DEF Becomes, ViewerFunctions

\* The steps that read the anchor, the mark and the start envelope.
LEMMA StartStepsKeep ==
    ASSUME ServiceBase, ViewerFunctions, NEW u \in Recipients, SubInv(u),
           ReadAnchor(u) \/ ReadHighWater(u) \/ SendStartEnvelope(u)
    PROVE  SubInv(u)'
<1>1. sub[u].phase # "off" /\ UNCHANGED <<queue, lagged>>
  BY DEF ReadAnchor, ReadHighWater, SendStartEnvelope
<1>2. PICK s \in Streams : Opens(u, s)
  BY <1>1, OpensStream
<1>3. /\ s = sub[u].stream
      /\ StreamFits(objects[s], envelopes[s], high_water[s], active[s], Transit(s))
      /\ Sound(u, sub[u], queue[u], lagged[u],
               objects[s], envelopes[s], high_water[s], active[s], Transit(s))
      /\ sub[u] \in Subscription /\ Stands(sub[u], queue[u], lagged[u], high_water[s])
  BY <1>2 DEF Opens, Sound, HandTypes
<1>4. CASE ReadAnchor(u)
  <2> DEFINE n == Anchor(sub[u].stream, sub[u].start)
             r2 == [sub[u] EXCEPT !.phase = "anchored", !.first = n, !.last = n - 1]
  <2>1. sub[u].phase = "subscribed" /\ Becomes(u, r2)
    BY <1>4 DEF ReadAnchor
  <2>2. n \in 1..high_water[s] + 1
    BY <1>3, <2>1, AnchorRange DEF Stands
  <2>3. r2.stream = s
    BY <1>3 DEF Subscription
  <2> HIDE DEF n
  <2>4. Sound(u, r2, queue[u], lagged[u],
              objects[s], envelopes[s], high_water[s], active[s], Transit(s))
    BY <1>3, <2>1, <2>2, AnchorKeeps
  <2> HIDE DEF r2
  <2>5. QED
    BY <1>1, <2>1, <2>3, <2>4, BecomesOwn, OwnStepKeeps
<1>5. CASE ReadHighWater(u)
  <2>1. sub[u].phase = "anchored"
    BY <1>5 DEF ReadHighWater
  <2>2. ASSUME NEW o \in objects[s], o.sequence = high_water[s],
               Becomes(u, [sub[u] EXCEPT !.phase = "keying", !.sealed = o.group])
        PROVE  SubInv(u)'
    <3> DEFINE r2 == [sub[u] EXCEPT !.phase = "keying", !.sealed = o.group]
    <3>1. r2.stream = s
      BY <1>3 DEF Subscription
    <3>2. Sound(u, r2, queue[u], lagged[u],
                objects[s], envelopes[s], high_water[s], active[s], Transit(s))
      BY <1>3, <2>1, <2>2, KeyingKeeps
    <3>3. Becomes(u, r2)
      BY <2>2
    <3> HIDE DEF r2
    <3>4. QED
      BY <1>1, <3>1, <3>2, <3>3, BecomesOwn, OwnStepKeeps
  <2>3. ASSUME ~(sub[u].first > high_water[s] /\ Stored(s, high_water[s])),
               Becomes(u, [sub[u] EXCEPT !.phase = "replay"])
        PROVE  SubInv(u)'
    <3> DEFINE r2 == [sub[u] EXCEPT !.phase = "replay"]
    <3>1. /\ r2 \in Subscription /\ r2.phase = "replay" /\ r2.stream = sub[u].stream
          /\ r2.page = sub[u].page /\ r2.first = sub[u].first /\ r2.last = sub[u].last
          /\ r2.sealed = sub[u].sealed /\ r2.lapsed = sub[u].lapsed
      BY <1>3 DEF Subscription
    <3>2. Becomes(u, r2)
      BY <2>3
    <3> HIDE DEF r2
    <3>3. sub[u].sealed = None
      BY <1>3, <2>1 DEF Stands
    <3>4. high_water[s] < sub[u].first =>
            \A e \in envelopes[s] : e.recipient = u /\ active[s] = e.group => e.group \in r2.keys
      <4>1. \A e \in envelopes[s] : e.group # None
        BY <1>3, Numbers DEF Sound
      <4>2. high_water[s] \in Nat /\ sub[u].first \in Nat
        BY <1>3, Numbers DEF Sound
      <4>3. high_water[s] < sub[u].first => active[s] = None
        BY <1>3, <2>3, <4>2 DEF Stored, StreamFits
      <4>4. QED
        BY <4>1, <4>3
    <3>5. Sound(u, r2, queue[u], lagged[u],
                objects[s], envelopes[s], high_water[s], active[s], Transit(s))
      BY <1>3, <2>1, <3>1, <3>3, <3>4, ReplayStarts
    <3>6. QED
      BY <1>1, <1>3, <3>1, <3>2, <3>5, BecomesOwn, OwnStepKeeps
  <2>4. QED
    BY <1>3, <1>5, <2>2, <2>3 DEF ReadHighWater
<1>6. CASE SendStartEnvelope(u)
  <2> DEFINE K == EnvelopeFor(u, sub[u].stream, sub[u].sealed)
             r2 == [sub[u] EXCEPT !.phase = "replay", !.sealed = None, !.keys = @ \cup K]
  <2>1. sub[u].phase = "keying" /\ Becomes(u, r2)
    BY <1>6 DEF SendStartEnvelope
  <2>2. K \subseteq GroupIds
    BY <1>3 DEF EnvelopeFor, StreamFits, Envelope
  <2>3. \A e \in envelopes[s] : e.recipient = u /\ e.group = sub[u].sealed => e.group \in K
    BY <1>3 DEF EnvelopeFor
  <2> HIDE DEF K
  <2>4. /\ r2 \in Subscription /\ r2.phase = "replay" /\ r2.stream = sub[u].stream
        /\ r2.page = sub[u].page /\ r2.first = sub[u].first /\ r2.last = sub[u].last
        /\ r2.sealed = None /\ r2.lapsed = sub[u].lapsed /\ r2.keys = sub[u].keys \cup K
    BY <1>3, <2>2 DEF Subscription
  <2> HIDE DEF r2
  <2>5. high_water[s] < sub[u].first =>
            \A e \in envelopes[s] : e.recipient = u /\ active[s] = e.group => e.group \in r2.keys
    <3>1. \A e \in envelopes[s] : e.group # None
      BY <1>3, Numbers DEF Sound
    <3>2. high_water[s] < sub[u].first => active[s] \in {None, sub[u].sealed}
      BY <1>3, <2>1 DEF Sound, KeysHeld
    <3>3. QED
      BY <2>3, <2>4, <3>1, <3>2
  <2>6. Sound(u, r2, queue[u], lagged[u],
              objects[s], envelopes[s], high_water[s], active[s], Transit(s))
    BY <1>3, <2>1, <2>4, <2>5, ReplayStarts
  <2>7. QED
    BY <1>1, <1>3, <2>1, <2>4, <2>6, BecomesOwn, OwnStepKeeps
<1>7. QED
  BY <1>4, <1>5, <1>6

\* NextOfPage: the oldest object of a page.
LEMMA NextIsOldest ==
    ASSUME NEW u, sub[u].page \in SUBSET Object, sub[u].page # {}
    PROVE  /\ NextOfPage(u) \in sub[u].page
           /\ \A p \in sub[u].page : NextOfPage(u).sequence <= p.sequence
<1> DEFINE S == {p.sequence : p \in sub[u].page}
<1>1. S \subseteq Nat /\ S # {}
  BY DataAssumption DEF Object, SequenceNumbers
<1>2. Min(S) \in S /\ \A n \in S : Min(S) <= n
  BY <1>1, LeastSequence
<1>3. \E o \in sub[u].page : \A p \in sub[u].page : o.sequence <= p.sequence
  BY <1>2
<1>4. QED
  BY <1>3 DEF NextOfPage

\* The steps that read pages and end the replay.
LEMMA PageStepsKeep ==
    ASSUME ServiceBase, ViewerFunctions, NEW u \in Recipients, SubInv(u),
           ReadPage(u) \/ EndReplay(u)
    PROVE  SubInv(u)'
<1>1. sub[u].phase = "replay" /\ UNCHANGED <<queue, lagged>>
  BY DEF ReadPage, EndReplay
<1>2. PICK s \in Streams : Opens(u, s)
  BY <1>1, OpensStream
<1>3. /\ s = sub[u].stream
      /\ StreamFits(objects[s], envelopes[s], high_water[s], active[s], Transit(s))
      /\ Sound(u, sub[u], queue[u], lagged[u],
               objects[s], envelopes[s], high_water[s], active[s], Transit(s))
      /\ sub[u] \in Subscription
  BY <1>2 DEF Opens, Sound, HandTypes
<1> DEFINE P == ListObjects(s, sub[u].last)
<1>4. /\ P \in SUBSET objects[s]
      /\ \A p \in P : p.sequence > sub[u].last
      /\ \A p \in P, x \in objects[s] :
            x.sequence > sub[u].last /\ x.sequence <= p.sequence => x \in P
      /\ Cardinality(P) # Page => \A x \in objects[s] : x.sequence > sub[u].last => x \in P
      /\ P = {} => \A x \in objects[s] : ~(x.sequence > sub[u].last)
  <2>1. sub[u].last \in Nat /\ TypeOK /\ StoreConsistent
    BY <1>3, Numbers DEF Sound, ServiceBase
  <2>2. QED
    BY <2>1, PageFacts
<1> HIDE DEF P
<1>5. CASE ReadPage(u)
  <2> DEFINE full == (Cardinality(P) = Page)
             r2 == [sub[u] EXCEPT !.phase = "sending", !.page = P, !.full = full]
  <2>1. P # {} /\ Becomes(u, r2)
    BY <1>3, <1>5 DEF ReadPage, P
  <2>2. full \in BOOLEAN /\ (~ full => \A x \in objects[s] : x.sequence > sub[u].last => x \in P)
    BY <1>4
  <2>3. r2.stream = s
    BY <1>3 DEF Subscription
  <2> HIDE DEF full
  <2>4. Sound(u, r2, queue[u], lagged[u],
              objects[s], envelopes[s], high_water[s], active[s], Transit(s))
    BY <1>1, <1>3, <1>4, <2>1, <2>2, PageKeeps, ZenonT(30)
  <2> HIDE DEF r2
  <2>5. QED
    BY <1>1, <2>1, <2>3, <2>4, BecomesOwn, OwnStepKeeps
<1>6. CASE EndReplay(u)
  <2> DEFINE r2 == [sub[u] EXCEPT !.phase = "live", !.before = None]
  <2>1. P = {} /\ Becomes(u, r2)
    BY <1>3, <1>6 DEF EndReplay, P
  <2>2. r2.stream = s
    BY <1>3 DEF Subscription
  <2>3. Sound(u, r2, queue[u], lagged[u],
              objects[s], envelopes[s], high_water[s], active[s], Transit(s))
    BY <1>1, <1>3, <1>4, <2>1, ReplayEndKeeps
  <2> HIDE DEF r2
  <2>4. QED
    BY <1>1, <2>1, <2>2, <2>3, BecomesOwn, OwnStepKeeps
<1>7. QED
  BY <1>5, <1>6

\* The page, one object at a time.
LEMMA SendReplayedKeeps ==
    ASSUME ServiceBase, ViewerFunctions, NEW u \in Recipients, SubInv(u), SendReplayed(u)
    PROVE  SubInv(u)'
<1> DEFINE o == NextOfPage(u)
           r == sub[u]
           rest == r.page \ {o}
           phase == IF rest # {} THEN "sending" ELSE AfterPage(r.full)
           key == IF r.sealed = o.group THEN {} ELSE EnvelopeFor(u, r.stream, o.group)
           before == IF phase = "live" THEN None ELSE r.before
           sealed == IF rest = {} THEN None ELSE o.group
           full == (r.full /\ rest # {})
           r2 == [r EXCEPT !.phase = phase, !.last = o.sequence, !.page = rest,
                           !.full = full, !.before = before,
                           !.sealed = sealed, !.keys = @ \cup key]
<1>1. r.phase = "sending" /\ o.sequence = r.last + 1 /\ Becomes(u, r2) /\ UNCHANGED <<queue, lagged>>
  BY DEF SendReplayed
<1>2. PICK s \in Streams : Opens(u, s)
  BY <1>1, OpensStream
<1>3. /\ s = r.stream
      /\ StreamFits(objects[s], envelopes[s], high_water[s], active[s], Transit(s))
      /\ Sound(u, r, queue[u], lagged[u],
               objects[s], envelopes[s], high_water[s], active[s], Transit(s))
      /\ r \in Subscription /\ Stands(r, queue[u], lagged[u], high_water[s])
  BY <1>2 DEF Opens, Sound, HandTypes
<1>4. o \in r.page /\ r.page \in SUBSET Object /\ o \in Object
  <2>1. r.page \in SUBSET Object
    BY <1>3 DEF Subscription
  <2>2. r.page # {}
    BY <1>1, <1>3 DEF Stands
  <2>3. o \in r.page
    BY <2>1, <2>2, NextIsOldest
  <2>4. QED
    BY <2>1, <2>3
<1> HIDE DEF o, r
<1>5. key \subseteq GroupIds
  BY <1>3 DEF EnvelopeFor, StreamFits, Envelope
<1>6. r.sealed # o.group =>
            \A e \in envelopes[s] : e.recipient = u /\ e.group = o.group => e.group \in key
  BY <1>3 DEF EnvelopeFor
<1>7. rest \in SUBSET Object /\ o.sequence \in 0..MaxSequence /\ o.group \in GroupIds
  BY <1>4, DataAssumption DEF Object, SequenceNumbers
<1>8. r.full \in BOOLEAN /\ full \in BOOLEAN
  BY <1>3 DEF Subscription
<1>9. /\ phase \in {"sending", "replay", "live"}
      /\ sealed \in GroupIds \cup {None}
  BY <1>7, <1>8 DEF AfterPage
<1>10. before \in (0..MaxSequence) \cup {None}
  BY <1>3 DEF Subscription
<1>11. /\ rest # {} => phase = "sending" /\ sealed = o.group /\ (full <=> r.full)
       /\ rest = {} => phase = (IF r.full THEN "replay" ELSE "live") /\ sealed = None
  BY DEF AfterPage
<1> HIDE DEF key, rest, phase, sealed, before, full
<1>12. /\ r2 \in Subscription /\ r2.stream = r.stream /\ r2.first = r.first
       /\ r2.last = o.sequence /\ r2.lapsed = r.lapsed /\ r2.page = rest
       /\ r2.phase = phase /\ r2.full = full /\ r2.sealed = sealed
       /\ r2.keys = r.keys \cup key
  <2>1. /\ r2.stream = r.stream /\ r2.first = r.first
        /\ r2.last = o.sequence /\ r2.lapsed = r.lapsed /\ r2.page = rest
        /\ r2.phase = phase /\ r2.full = full /\ r2.sealed = sealed
        /\ r2.keys = r.keys \cup key
    BY <1>3 DEF Subscription
  <2>2. r.keys \cup key \in SUBSET GroupIds
    BY <1>3, <1>5 DEF Subscription
  <2>3. r2 \in Subscription
    BY <1>3, <1>7, <1>8, <1>9, <1>10, <2>2 DEF Subscription
  <2>4. QED
    BY <2>1, <2>3
<1> HIDE DEF r2
<1>13. /\ r2.page # {} => r2.phase = "sending" /\ (r2.full <=> r.full) /\ r2.sealed = o.group
       /\ r2.page = {} => r2.phase = (IF r.full THEN "replay" ELSE "live") /\ r2.sealed = None
  BY <1>8, <1>11, <1>12
<1>14. /\ r2.page = r.page \ {o} /\ r2.last = r.last + 1 /\ r.keys \subseteq r2.keys
       /\ r.sealed # o.group =>
            \A e \in envelopes[s] : e.recipient = u /\ e.group = o.group => e.group \in r2.keys
  BY <1>1, <1>6, <1>12 DEF rest
<1>15. Sound(u, r2, queue[u], lagged[u],
             objects[s], envelopes[s], high_water[s], active[s], Transit(s))
  BY <1>1, <1>3, <1>4, <1>12, <1>13, <1>14, ReplayedKeeps
<1>16. QED
  BY <1>1, <1>3, <1>12, <1>15, BecomesOwn, OwnStepKeeps DEF r

\* The larger of two sequences (MaxOfTwo says it is one of them).
LEMMA MaxIsUpper ==
    ASSUME NEW m \in Nat, NEW n \in Nat
    PROVE  Max({m, n}) \in {m, n} /\ Max({m, n}) >= m /\ Max({m, n}) >= n
<1>1. \E x \in {m, n} : \A y \in {m, n} : x >= y
  OBVIOUS
<1>2. QED
  BY <1>1 DEF Max

\* The live loop.
LEMMA LiveStepsKeep ==
    ASSUME ServiceBase, ViewerFunctions, NEW u \in Recipients, SubInv(u),
           RecvEnvelope(u) \/ RecvObject(u) \/ Reanchor(u)
    PROVE  SubInv(u)'
<1>1. sub[u].phase = "live"
  BY DEF RecvEnvelope, RecvObject, Reanchor, Take
<1>2. PICK s \in Streams : Opens(u, s)
  BY <1>1, OpensStream
<1>3. /\ s = sub[u].stream
      /\ StreamFits(objects[s], envelopes[s], high_water[s], active[s], Transit(s))
      /\ Sound(u, sub[u], queue[u], lagged[u],
               objects[s], envelopes[s], high_water[s], active[s], Transit(s))
      /\ sub[u] \in Subscription /\ queue[u] \in Seq(LiveItem) /\ lagged[u] \in BOOLEAN
  BY <1>2 DEF Opens, Sound, HandTypes
<1>4. ASSUME Take(u)
      PROVE  queue[u] # <<>> /\ queue'[u] = Tail(queue[u]) /\ lagged'[u] = lagged[u]
             /\ Head(queue[u]) \in LiveItem
  <2>1. queue[u] # <<>> /\ queue'[u] = Tail(queue[u]) /\ lagged'[u] = lagged[u]
    BY <1>4 DEF Take, ViewerFunctions
  <2>2. QED
    BY <1>3, <2>1, TailItems
<1>5. CASE RecvEnvelope(u)
  <2> DEFINE x == Head(queue[u])
             K == {e.group : e \in {y \in {x.item} : y.recipient = u}}
             r2 == [sub[u] EXCEPT !.keys = @ \cup K]
  <2>1. Take(u) /\ x.kind = "Envelope" /\ Becomes(u, r2)
    BY <1>5 DEF RecvEnvelope
  <2>2. x.item \in Envelope
    BY <1>4, <2>1, ItemTypes
  <2>3. K \subseteq GroupIds /\ (x.item.recipient = u => x.item.group \in K)
    BY <2>2 DEF Envelope
  <2>4. r2.stream = s
    BY <1>3 DEF Subscription
  <2> HIDE DEF K
  <2>5. Sound(u, r2, Tail(queue[u]), lagged[u],
              objects[s], envelopes[s], high_water[s], active[s], Transit(s))
    BY <1>1, <1>3, <1>4, <2>1, <2>3, TakeEnvelopeKeeps, ZenonT(30)
  <2> HIDE DEF r2
  <2>6. QED
    BY <1>4, <2>1, <2>4, <2>5, BecomesOwn, OwnStepKeeps
<1>6. CASE RecvObject(u)
  <2> DEFINE x == Head(queue[u])
             n == Max({sub[u].last, x.item.sequence})
             r2 == [sub[u] EXCEPT !.last = n]
  <2>1. Take(u) /\ x.kind = "Object" /\ Becomes(u, r2)
    BY <1>6 DEF RecvObject
  <2>2. x.item.sequence \in Nat /\ sub[u].last \in Nat
    BY <1>3, <1>4, <2>1, ItemTypes, Numbers DEF Sound, Object, SequenceNumbers
  <2>3. n \in {sub[u].last, x.item.sequence} /\ n >= sub[u].last /\ n >= x.item.sequence
    BY <2>2, MaxIsUpper
  <2>4. r2.stream = s
    BY <1>3 DEF Subscription
  <2> HIDE DEF n
  <2>5. Sound(u, r2, Tail(queue[u]), lagged[u],
              objects[s], envelopes[s], high_water[s], active[s], Transit(s))
    BY <1>1, <1>3, <1>4, <2>1, <2>3, TakeObjectKeeps
  <2> HIDE DEF r2
  <2>6. QED
    BY <1>4, <2>1, <2>4, <2>5, BecomesOwn, OwnStepKeeps
<1>7. CASE Reanchor(u)
  <2>0. PICK r2, p : /\ r2 = [sub[u] EXCEPT !.phase = "replay", !.before = sub[u].last,
                                             !.lapsed = @ \/ lagged[u]]
                     /\ p = IF lagged[u] THEN queue[u] ELSE Tail(queue[u])
    OBVIOUS
  <2>1. /\ Becomes(u, r2) /\ queue'[u] = p /\ lagged'[u] = FALSE
        /\ lagged[u] => p = queue[u]
        /\ ~ lagged[u] => p = Tail(queue[u])
        /\ ~ lagged[u] => queue[u] # <<>> /\ Head(queue[u]).kind = "Object"
    BY <1>7, <2>0 DEF Reanchor, ViewerFunctions
  <2>2. /\ r2 \in Subscription /\ r2.phase = "replay" /\ r2.stream = sub[u].stream
        /\ r2.page = sub[u].page /\ r2.first = sub[u].first /\ r2.last = sub[u].last
        /\ r2.sealed = sub[u].sealed /\ r2.keys = sub[u].keys
        /\ ~ r2.lapsed => ~ sub[u].lapsed /\ ~ lagged[u]
    <3>1. PICK l \in BOOLEAN : l = (sub[u].lapsed \/ lagged[u])
      BY <1>3 DEF Subscription
    <3>2. r2 = [sub[u] EXCEPT !.phase = "replay", !.before = sub[u].last, !.lapsed = l]
      BY <2>0, <3>1
    <3>3. QED
      BY <1>3, <3>1, <3>2 DEF Subscription
  <2>3. Sound(u, r2, p, FALSE,
              objects[s], envelopes[s], high_water[s], active[s], Transit(s))
    <3>1. sub[u].phase = "live"
      BY <1>7 DEF Reanchor
    <3>2. /\ StreamFits(objects[s], envelopes[s], high_water[s], active[s], Transit(s))
          /\ Sound(u, sub[u], queue[u], lagged[u],
                   objects[s], envelopes[s], high_water[s], active[s], Transit(s))
      BY <1>1, <1>3
    <3>3. PastNextTaken(queue[u], lagged[u], p) /\ BackToReplay(sub[u], lagged[u], r2)
      BY <2>1, <2>2 DEF PastNextTaken, BackToReplay
    <3>4. QED
      BY <3>1, <3>2, <3>3, ReanchorKeeps
  <2>4. r2.stream = s
    BY <1>3, <2>2
  <2>5. QED
    BY <2>1, <2>3, <2>4, BecomesOwn, OwnStepKeeps
<1>8. QED
  BY <1>5, <1>6, <1>7

\* The ways a subscription ends.  A page that does not continue it shows that
\* its next object is gone.
LEMMA EndsKeep ==
    ASSUME ServiceBase, ViewerFunctions, NEW u \in Recipients, SubInv(u),
           EndUnavailable(u) \/ EndGap(u) \/ Disconnect(u)
    PROVE  SubInv(u)'
<1>1. sub[u].phase # "off" /\ sub[u].phase \notin Ended
  BY DEF EndUnavailable, EndGap, Disconnect, Ended
<1>2. PICK s \in Streams : Opens(u, s)
  BY <1>1, OpensStream
<1>3. /\ s = sub[u].stream
      /\ StreamFits(objects[s], envelopes[s], high_water[s], active[s], Transit(s))
      /\ Sound(u, sub[u], queue[u], lagged[u],
               objects[s], envelopes[s], high_water[s], active[s], Transit(s))
      /\ sub[u] \in Subscription /\ PageSound(sub[u], objects[s], high_water[s])
      /\ Stands(sub[u], queue[u], lagged[u], high_water[s])
  BY <1>2 DEF Opens, Sound, HandTypes
<1>4. ASSUME NEW why \in Ended, Ends(u, why), sub[u].phase # "subscribed" \/ why = "closed",
             why = "gap" => /\ sub[u].last + 1 <= high_water[s]
                            /\ \A x \in objects[s] : x.sequence # sub[u].last + 1
      PROVE  SubInv(u)'
  <2>0. PICK r2 : r2 = [sub[u] EXCEPT !.phase = why, !.page = {}, !.full = FALSE, !.sealed = None]
    OBVIOUS
  <2>1. Becomes(u, r2) /\ queue'[u] = <<>> /\ lagged'[u] = FALSE
    BY <1>4, <2>0 DEF Ends, ViewerFunctions
  <2>2. /\ r2 \in Subscription /\ r2.phase = why /\ r2.stream = sub[u].stream /\ r2.page = {}
        /\ r2.first = sub[u].first /\ r2.last = sub[u].last
    BY <1>3, <1>4, <2>0 DEF Subscription
  <2>3. Transit(s) \in SUBSET Transit(s)
    OBVIOUS
  <2>4. Sound(u, r2, <<>>, FALSE,
              objects[s], envelopes[s], high_water[s], active[s], Transit(s))
    BY <1>1, <1>3, <1>4, <2>2, <2>3, EndKeeps
  <2>5. QED
    BY <1>3, <2>1, <2>2, <2>4, BecomesOwn, OwnStepKeeps, ZenonT(30)
<1>5. CASE EndUnavailable(u)
  BY <1>4, <1>5 DEF EndUnavailable, Ended
<1>6. CASE Disconnect(u)
  BY <1>4, <1>6 DEF Disconnect, Ended
<1>7. CASE EndGap(u)
  <2>1. sub[u].phase = "sending" /\ NextOfPage(u).sequence # sub[u].last + 1 /\ Ends(u, "gap")
    BY <1>7 DEF EndGap
  <2>2. sub[u].page \in SUBSET Object /\ sub[u].page # {}
    BY <1>3, <2>1 DEF Subscription, Stands
  <2>3. PICK o \in sub[u].page : /\ o.sequence # sub[u].last + 1
                                 /\ \A p \in sub[u].page : o.sequence <= p.sequence
    BY <2>1, <2>2, NextIsOldest
  <2>4. /\ sub[u].last \in Nat /\ high_water[s] \in Nat /\ o.sequence \in Nat
        /\ \A x \in objects[s] : x.sequence \in Nat
    BY <1>3, Numbers DEF Sound
  <2>5. o.sequence > sub[u].last + 1 /\ o.sequence <= high_water[s]
    BY <1>3, <2>3, <2>4 DEF PageSound
  <2>6. \A x \in objects[s] : x.sequence # sub[u].last + 1
    <3> SUFFICES ASSUME NEW x \in objects[s], x.sequence = sub[u].last + 1
                 PROVE  FALSE
      OBVIOUS
    <3>1. x \in sub[u].page
      BY <1>3, <2>4, <2>5 DEF PageSound
    <3>2. QED
      BY <2>3, <2>4, <2>5, <3>1
  <2>7. sub[u].last + 1 <= high_water[s]
    BY <2>4, <2>5
  <2>8. QED
    BY <1>4, <2>1, <2>6, <2>7 DEF Ended
<1>8. QED
  BY <1>5, <1>6, <1>7

\* A new subscription.
LEMMA SubscribeStepKeeps ==
    ASSUME ViewerFunctions, NEW u \in Recipients, SubInv(u), NEW s \in Streams,
           NEW start \in StartRequests, Subscribe(u, s, start)
    PROVE  SubInv(u)'
<1> DEFINE r2 == [sub[u] EXCEPT !.phase = "subscribed", !.stream = s, !.start = start]
<1>1. /\ Becomes(u, r2) /\ UNCHANGED <<queue, lagged>> /\ Idle(u)
  BY DEF Subscribe, SubInv
<1>2. /\ HandTypes(sub[u], <<>>, FALSE) /\ sub[u].first = 0 /\ sub[u].page = {}
      /\ sub[u].sealed = None /\ queue'[u] = <<>> /\ lagged'[u] = FALSE
  BY <1>1 DEF Idle
<1>3. r2.stream = s
  BY <1>2 DEF HandTypes, Subscription
<1>4. Sound(u, r2, <<>>, FALSE,
            objects[s], envelopes[s], high_water[s], active[s], Transit(s))
  BY <1>2, SubscribeKeeps
<1> HIDE DEF r2
<1>5. QED
  BY <1>1, <1>2, <1>3, <1>4, BecomesOwn, OwnStepKeeps

\* Steps that leave a viewer, the store and the sessions alone.
LEMMA UntouchedKeeps ==
    ASSUME NEW v, SubInv(v), sub'[v] = sub[v], queue'[v] = queue[v], lagged'[v] = lagged[v],
           UNCHANGED <<storeVars, sessionVars>>
    PROVE  SubInv(v)'
<1>1. UNCHANGED <<objects, envelopes, high_water, active, conn, pending>>
  BY DEF storeVars, sessionVars
<1>2. \A s : Transit(s)' = Transit(s)
  BY <1>1 DEF Transit
<1>3. QED
  BY <1>1, <1>2 DEF SubInv, Idle

\* A viewer's step is its own: the other viewers keep theirs.
LEMMA ViewersKeepFeed ==
    ASSUME ServiceBase, FeedInv, NEW u \in Recipients,
           \/ ViewerStep(u) \/ Disconnect(u)
           \/ \E s \in Streams, start \in StartRequests : Subscribe(u, s, start)
    PROVE  FeedInv'
<1>1. ViewerFunctions /\ \A v \in Recipients : SubInv(v)
  BY DEF FeedInv
<1>2. SubInv(u)'
  <2>1. CASE ViewerStep(u)
    BY <1>1, <2>1, StartStepsKeep, PageStepsKeep, SendReplayedKeeps, LiveStepsKeep, EndsKeep
       DEF ViewerStep
  <2>2. CASE Disconnect(u)
    BY <1>1, <2>2, EndsKeep
  <2>3. CASE \E s \in Streams, start \in StartRequests : Subscribe(u, s, start)
    BY <1>1, <2>3, SubscribeStepKeeps
  <2>4. QED
    BY <2>1, <2>2, <2>3
<1>3. /\ UNCHANGED <<storeVars, sessionVars>>
      /\ \E r : sub' = [sub EXCEPT ![u] = r]
      /\ \E q : queue' = [queue EXCEPT ![u] = q] \/ queue' = queue
      /\ \E l : lagged' = [lagged EXCEPT ![u] = l] \/ lagged' = lagged
  BY DEF ViewerStep, Disconnect, Subscribe, ReadAnchor, ReadHighWater, SendStartEnvelope, ReadPage,
     SendReplayed, EndReplay, EndUnavailable, EndGap, RecvEnvelope, RecvObject, Reanchor, Ends, Take,
     Becomes
<1>4. ViewerFunctions'
  BY <1>1, <1>3 DEF ViewerFunctions
<1>5. ASSUME NEW v \in Recipients \ {u}
      PROVE  SubInv(v)'
  <2>1. sub'[v] = sub[v] /\ queue'[v] = queue[v] /\ lagged'[v] = lagged[v]
    BY <1>1, <1>3 DEF ViewerFunctions
  <2>2. QED
    BY <1>1, <1>3, <2>1, UntouchedKeeps
<1>6. QED
  BY <1>2, <1>4, <1>5 DEF FeedInv

-----------------------------------------------------------------------------
(* What subscriptions can rely on *)

\* Every step of the service keeps the invariant of every subscription.
LEMMA FeedStep == ServiceBase /\ FeedInv /\ [ServiceNext]_vars => FeedInv'
<1> SUFFICES ASSUME ServiceBase, FeedInv, [ServiceNext]_vars
             PROVE  FeedInv'
  OBVIOUS
<1>0. ViewerFunctions /\ \A v \in Recipients : SubInv(v)
  BY DEF FeedInv
<1>1. ASSUME UNCHANGED viewerVars
      PROVE  ViewerFunctions'
  BY <1>0, <1>1 DEF ViewerFunctions, viewerVars
<1>2. ASSUME \/ \E c \in Sessions : SessionRequest(c) \/ (SessionStep(c) /\ ~Broadcast(c))
             \/ \E now \in Times : Retention(now)
      PROVE  FeedInv'
  <2>1. CASE Streams = {}
    <3>1. \A v \in Recipients : sub[v].phase = "off"
      BY <1>0, <2>1 DEF SubInv
    <3>2. UNCHANGED viewerVars
      BY <1>2 DEF SessionRequest, SessionStep, Retention, Admit, ResumeValidate, ClaimForPublish,
         PublishDescriptor, PublishObject, PublishEnvelope, Fail, ResumeClaim, ResumeRead, Finalize,
         Retire
    <3>3. QED
      BY <1>0, <1>1, <2>1, <3>1, <3>2 DEF FeedInv, SubInv, Idle, viewerVars
  <2>2. CASE Streams # {}
    <3>1. UNCHANGED viewerVars /\ \A s \in Streams : StreamMoves(s)
      BY <1>2, <2>2, PublishersMove
    <3>2. \A v \in Recipients : SubInv(v)'
      BY <1>0, <3>1, PublishersKeepFeed
    <3>3. QED
      BY <1>1, <3>1, <3>2 DEF FeedInv
  <2>3. QED
    BY <2>1, <2>2
<1>3. ASSUME NEW c \in Sessions, Broadcast(c)
      PROVE  FeedInv'
  <2>1. ViewerFunctions'
    BY <1>0, <1>3 DEF ViewerFunctions, Broadcast
  <2>2. \A v \in Recipients : SubInv(v)'
    BY <1>0, <1>3, BroadcastKeepsFeed
  <2>3. QED
    BY <2>1, <2>2 DEF FeedInv
<1>4. CASE Restart
  <2>1. ViewerFunctions'
    BY <1>4 DEF ViewerFunctions, Restart
  <2>2. \A v \in Recipients : SubInv(v)'
    BY <1>0, <1>4, RestartKeepsFeed
  <2>3. QED
    BY <2>1, <2>2 DEF FeedInv
<1>5. CASE UNCHANGED vars
  <2>1. UNCHANGED <<storeVars, sessionVars, viewerVars>>
    BY <1>5 DEF vars
  <2>2. \A v \in Recipients : SubInv(v)'
    BY <1>0, <2>1, UntouchedKeeps DEF viewerVars
  <2>3. QED
    BY <1>1, <2>1, <2>2 DEF FeedInv
<1>6. QED
  BY <1>2, <1>3, <1>4, <1>5, ViewersKeepFeed DEF ServiceNext

\* The invariant of the subscriptions holds in every reachable state.
LEMMA FeedInvariant == ServiceSpec => []FeedInv
<1>1. QED
  BY FeedInit, FeedStep, ServiceBaseInvariant, PTL DEF ServiceSpec

\* In its live loop a subscription has every retained object past the last one
\* it sent in its receiver or about to be broadcast, unless the receiver is
\* marked as lagged, and the receiver holds them in order: however the commits,
\* broadcasts, pages, evictions and re-anchors interleave.
THEOREM TailIsGapless == ServiceSpec => []TailGapless
<1>1. ServiceBase /\ FeedInv => TailGapless
  <2> SUFFICES ASSUME ServiceBase, FeedInv, NEW v \in Recipients
               PROVE  /\ sub[v].phase = "live" /\ ~ lagged[v] =>
                            {o.sequence : o \in {x \in objects[sub[v].stream] :
                                                    x.sequence > sub[v].last}}
                                \subseteq Queued(v) \cup InFlight(sub[v].stream)
                      /\ InOrder(queue[v])
    BY DEF TailGapless, InOrder
  <2>0. SubInv(v)
    BY DEF FeedInv
  <2>1. CASE sub[v].phase = "off"
    BY <2>0, <2>1, EmptyQueue DEF SubInv, Idle
  <2>2. CASE sub[v].phase # "off"
    <3>1. PICK s \in Streams : s = sub[v].stream
      BY <2>0, <2>2 DEF SubInv
    <3>2. /\ InOrder(queue[v]) /\ Stands(sub[v], queue[v], lagged[v], high_water[s])
          /\ TailHeld(sub[v], queue[v], lagged[v], objects[s], Transit(s))
      BY <2>0, <2>2, <3>1 DEF SubInv, Sound, QueueSound
    <3>3. ASSUME sub[v].phase = "live", ~ lagged[v], NEW x \in objects[s], x.sequence > sub[v].last
          PROVE  x.sequence \in Queued(v) \cup InFlight(s)
      <4>1. x.sequence \in ObjectsIn(queue[v]) \/ InTransit(Transit(s), x.sequence)
        BY <3>2, <3>3 DEF TailHeld, OnReceiver, Stands
      <4>2. ObjectsIn(queue[v]) = Queued(v)
        BY DEF ObjectsIn, Queued
      <4>3. InTransit(Transit(s), x.sequence) => x.sequence \in InFlight(s)
        BY DEF InTransit, Transit, InFlight
      <4>4. QED
        BY <4>1, <4>2, <4>3
    <3>4. QED
      BY <3>1, <3>2, <3>3
  <2>3. QED
    BY <2>1, <2>2
<1>2. QED
  BY <1>1, ServiceBaseInvariant, FeedInvariant, PTL

\* A viewer in its live loop was sent, or will get from its receiver, every
\* retained envelope addressed to it for a group it was sent objects of, as
\* long as its receiver has never lagged.
THEOREM KeysAreNotMissed == ServiceSpec => []KeysNotMissed
<1>1. ServiceBase /\ FeedInv => KeysNotMissed
  <2> SUFFICES ASSUME ServiceBase, FeedInv, NEW v \in Recipients,
                      sub[v].phase = "live", ~ lagged[v], ~ sub[v].lapsed,
                      NEW e \in envelopes[sub[v].stream], e.recipient = v
               PROVE  \/ \A o \in objects[sub[v].stream] : o.group = e.group =>
                            o.sequence \notin sub[v].first .. sub[v].last
                      \/ e.group \in sub[v].keys
                      \/ \E i \in DOMAIN queue[v] : queue[v][i].item = e
                      \/ \E c \in Sessions : conn[c] = "stored" /\ pending[c].item = e
    BY DEF KeysNotMissed
  <2>1. SubInv(v)
    BY DEF FeedInv
  <2>2. PICK s \in Streams : s = sub[v].stream
    BY <2>1 DEF SubInv
  <2>3. /\ KeysHeld(v, sub[v], queue[v], lagged[v],
                    objects[s], envelopes[s], high_water[s], active[s], Transit(s))
        /\ HandTypes(sub[v], queue[v], lagged[v])
        /\ StreamFits(objects[s], envelopes[s], high_water[s], active[s], Transit(s))
    BY <2>1, <2>2, StreamsFit DEF SubInv, Sound
  <2>4. CASE Known(sub[v], queue[v], Transit(s), e)
    BY <2>4 DEF Known, EnvelopesIn, Transit
  <2>5. CASE ~ Known(sub[v], queue[v], Transit(s), e)
    <3>1. Withheld(sub[v], e.group, objects[s], high_water[s], active[s])
      BY <2>2, <2>3, <2>5 DEF KeysHeld
    <3>2. \A o \in objects[s] : o.group = e.group =>
                o.sequence < sub[v].first \/ o.sequence > sub[v].last
      BY <3>1 DEF Withheld
    <3>3. /\ sub[v].first \in Nat /\ sub[v].last \in Nat
          /\ \A o \in objects[s] : o.sequence \in Nat
      BY <2>3, Numbers
    <3>4. QED
      BY <2>2, <3>2, <3>3
  <2>6. QED
    BY <2>4, <2>5
<1>2. QED
  BY <1>1, ServiceBaseInvariant, FeedInvariant, PTL

\* "retained native stream contains a sequence gap" is said only when the next
\* object of the subscription was committed and is gone.
THEOREM GapsAreHonest == ServiceSpec => []GapIsHonest
<1>1. FeedInv => GapIsHonest
  <2> SUFFICES ASSUME FeedInv, NEW v \in Recipients, sub[v].phase = "gap"
               PROVE  NextIsGone(v)
    BY DEF GapIsHonest
  <2>1. SubInv(v)
    BY DEF FeedInv
  <2>2. PICK s \in Streams : s = sub[v].stream
    BY <2>1 DEF SubInv
  <2>3. GapHonest(sub[v], objects[s], high_water[s])
    BY <2>1, <2>2 DEF SubInv, Sound
  <2>4. QED
    BY <2>2, <2>3 DEF GapHonest, NextIsGone, Stored
<1>2. QED
  BY <1>1, FeedInvariant, PTL

\* The types that no other argument needs.
SessionTypes ==
    /\ identity \in [Sessions -> Publishers \cup {None}]
    /\ finalized \in [Sessions -> SUBSET Streams]
    /\ cursor \in [Sessions -> [Streams -> (1..MaxSequence + 1) \cup {None}]]

\* A cursor is one past the mark or one past an object.
LEMMA SessionTypesStep == ServiceBase /\ SessionTypes /\ [ServiceNext]_vars => SessionTypes'
<1> SUFFICES ASSUME ServiceBase, SessionTypes, [ServiceNext]_vars
             PROVE  SessionTypes'
  OBVIOUS
<1>0. SessionInv /\ MaxSequence \in Nat /\ \A s \in Streams : high_water[s] \in 0..MaxSequence
  BY StreamRows, DataAssumption DEF ServiceBase
<1>1. ASSUME NEW c \in Sessions, NEW s \in Streams, NEW n \in 1..MaxSequence + 1,
             cursor' = [cursor EXCEPT ![c][s] = n], UNCHANGED <<identity, finalized>>
      PROVE  SessionTypes'
  <2>1. \A d \in Sessions : cursor[d] \in [Streams -> (1..MaxSequence + 1) \cup {None}]
    BY DEF SessionTypes
  <2>2. cursor' \in [Sessions -> [Streams -> (1..MaxSequence + 1) \cup {None}]]
    BY <1>1, <2>1 DEF SessionTypes
  <2>3. QED
    BY <1>1, <2>2 DEF SessionTypes
<1>2. ASSUME NEW c \in Sessions, ResumeRead(c)
      PROVE  SessionTypes'
  <2>1. pending[c].stream \in Streams
    BY <1>0, <1>2 DEF ResumeRead, SessionInv, WorkIsHeld, ResumeItem
  <2>2. high_water[pending[c].stream] + 1 \in 1..MaxSequence + 1
    BY <1>0, <2>1
  <2>3. QED
    BY <1>1, <1>2, <2>1, <2>2 DEF ResumeRead
<1>3. ASSUME NEW c \in Sessions, Broadcast(c)
      PROVE  SessionTypes'
  <2>1. pending[c] \in LiveItem
    BY <1>0, <1>3 DEF Broadcast, SessionInv, WorkIsHeld
  <2>2. CASE pending[c].kind = "Object"
    <3>1. pending[c].stream \in Streams /\ pending[c].item.sequence + 1 \in 1..MaxSequence + 1
      BY <1>0, <2>1, <2>2, ItemTypes DEF Object, SequenceNumbers
    <3>2. QED
      BY <1>1, <1>3, <2>2, <3>1 DEF Broadcast
  <2>3. CASE pending[c].kind # "Object"
    BY <1>3, <2>3 DEF Broadcast, SessionTypes
  <2>4. QED
    BY <2>2, <2>3
<1>4. ASSUME NEW c \in Sessions, \E p \in Publishers : Admit(c, p)
      PROVE  SessionTypes'
  BY <1>4 DEF Admit, SessionTypes
<1>5. ASSUME NEW c \in Sessions, NEW s \in Streams, Finalize(c, s)
      PROVE  SessionTypes'
  BY <1>5 DEF Finalize, SessionTypes
<1>6. ASSUME NEW c \in Sessions, Retire(c)
      PROVE  SessionTypes'
  <2>1. [s \in Streams |-> None] \in [Streams -> (1..MaxSequence + 1) \cup {None}]
    OBVIOUS
  <2>2. QED
    BY <1>6, <2>1 DEF Retire, SessionTypes
<1>7. CASE Restart
  BY <1>7 DEF Restart, SessionTypes
<1>8. ASSUME UNCHANGED <<identity, finalized, cursor>>
      PROVE  SessionTypes'
  BY <1>8 DEF SessionTypes
<1>9. ASSUME NEW c \in Sessions, SessionRequest(c)
      PROVE  SessionTypes'
  BY <1>4, <1>8, <1>9 DEF SessionRequest, ResumeValidate, ClaimForPublish, PublishDescriptor,
     PublishObject, PublishEnvelope, Fail, sessionVars
<1>10. ASSUME NEW c \in Sessions, SessionStep(c)
       PROVE  SessionTypes'
  BY <1>2, <1>3, <1>5, <1>6, <1>8, <1>10 DEF SessionStep, ResumeClaim
<1>11. ASSUME NEW v \in Recipients,
              \/ ViewerStep(v) \/ Disconnect(v)
              \/ \E s \in Streams, start \in StartRequests : Subscribe(v, s, start)
       PROVE  SessionTypes'
  <2>1. UNCHANGED sessionVars
    BY <1>11 DEF ViewerStep, Disconnect, Subscribe, ReadAnchor, ReadHighWater,
       SendStartEnvelope, ReadPage, SendReplayed, EndReplay, EndUnavailable,
       EndGap, RecvEnvelope, RecvObject, Reanchor, Ends, Becomes
  <2>2. QED
    BY <1>8, <2>1 DEF sessionVars
<1>12. CASE UNCHANGED vars \/ \E now \in Times : Retention(now)
  BY <1>8, <1>12 DEF vars, Retention, sessionVars
<1>13. QED
  BY <1>7, <1>9, <1>10, <1>11, <1>12 DEF ServiceNext

\* Every variable of the service keeps its type: in particular no cursor and no
\* position of a subscription leaves the sequence space, and no receiver holds
\* more than its channel's capacity.
THEOREM ServiceTypes == ServiceSpec => []ServiceTypeOK
<1>1. ServiceInit => SessionTypes
  BY DEF ServiceInit, SessionTypes
<1>2. ServiceSpec => []SessionTypes
  BY <1>1, SessionTypesStep, ServiceBaseInvariant, PTL DEF ServiceSpec
<1>3. ServiceBase /\ FeedInv /\ SessionTypes => ServiceTypeOK
  <2> SUFFICES ASSUME ServiceBase, FeedInv, SessionTypes
               PROVE  ServiceTypeOK
    OBVIOUS
  <2>1. \A v \in Recipients : HandTypes(sub[v], queue[v], lagged[v])
    <3> SUFFICES ASSUME NEW v \in Recipients
                 PROVE  HandTypes(sub[v], queue[v], lagged[v])
      OBVIOUS
    <3>1. SubInv(v)
      BY DEF FeedInv
    <3>2. QED
      BY <3>1 DEF SubInv, Idle, Sound
  <2>2. /\ sub \in [Recipients -> Subscription] /\ queue \in [Recipients -> Seq(LiveItem)]
        /\ \A v \in Recipients : Len(queue[v]) <= Capacity
        /\ lagged \in [Recipients -> BOOLEAN]
    BY <2>1 DEF FeedInv, ViewerFunctions, HandTypes
  <2>3. QED
    BY <2>2 DEF ServiceTypeOK, ServiceBase, SessionInv, HeldTypes, SessionTypes
<1>4. QED
  BY <1>2, <1>3, ServiceBaseInvariant, FeedInvariant, PTL

-----------------------------------------------------------------------------
(* The service implements LiveFeed *)

\* The refinement mapping, as RelayService instantiates LiveFeed.
FeedOf(v) == IF Opened(v) THEN sub[v].stream ELSE None
DueOf(v) == IF Opened(v) THEN sub[v].last + 1 ELSE 0
DoneOf(v) == sub[v].phase \in Ended

\* Nothing a viewer of LiveFeed sees changes.
SameFeed(v) == FeedOf(v)' = FeedOf(v) /\ DueOf(v)' = DueOf(v) /\ DoneOf(v)' = DoneOf(v)

\* Then the step is invisible to LiveFeed.
LEMMA FeedStutters ==
    ASSUME high_water' = high_water, \A v \in Recipients : SameFeed(v)
    PROVE  UNCHANGED Feed!feedVars
BY DEF SameFeed, FeedOf, DueOf, DoneOf, Feed!feedVars

\* A viewer whose record is kept.
LEMMA KeptFeed == ASSUME NEW v, sub'[v] = sub[v] PROVE SameFeed(v)
BY DEF SameFeed, FeedOf, DueOf, DoneOf, Opened

\* The steps of the publishers are commits or leave the mark alone.
LEMMA MarkMoves ==
    ASSUME ServiceBase,
           \/ \E c \in Sessions : SessionRequest(c) \/ SessionStep(c)
           \/ \E now \in Times : Retention(now)
    PROVE  /\ sub' = sub
           /\ \/ high_water' = high_water
              \/ \E s \in Streams : high_water' = [high_water EXCEPT ![s] = @ + 1]
<1>1. ASSUME NEW c \in Sessions, NEW s \in Streams, NEW o \in Object, NEW now \in Times,
             PublishObject(c, s, o, now)
      PROVE  sub' = sub /\ high_water' = [high_water EXCEPT ![s] = @ + 1]
  BY <1>1 DEF PublishObject, StoreObject, StoreFirstObject, StoreNextObject, InSequence, viewerVars,
     ServiceBase, TypeOK
<1>2. ASSUME NEW c \in Sessions, NEW s \in Streams, NEW e \in Envelope, NEW now \in Times,
             PublishEnvelope(c, s, e, now)
      PROVE  sub' = sub /\ high_water' = high_water
  BY <1>2 DEF PublishEnvelope, StoreEnvelope, viewerVars
<1>3. ASSUME NEW c \in Sessions, NEW s \in Streams, NEW d \in Descriptors, PublishDescriptor(c, s, d)
      PROVE  sub' = sub /\ high_water' = high_water
  BY <1>3 DEF PublishDescriptor, PutDescriptor, ReplaceDescriptor, InsertDescriptor, viewerVars
<1>4. ASSUME NEW c \in Sessions, NEW s \in Streams, Finalize(c, s)
      PROVE  sub' = sub /\ high_water' = high_water
  BY <1>4 DEF Finalize, FinalizeStream, viewerVars, storeVars
<1>5. ASSUME NEW now \in Times, Retention(now)
      PROVE  sub' = sub /\ high_water' = high_water
  BY <1>5 DEF Retention, EnforceRetentionAt, viewerVars
<1>6. ASSUME NEW c \in Sessions, SessionRequest(c)
      PROVE  /\ sub' = sub
             /\ \/ high_water' = high_water
                \/ \E s \in Streams : high_water' = [high_water EXCEPT ![s] = @ + 1]
  BY <1>1, <1>2, <1>3, <1>6 DEF SessionRequest, Admit, ResumeValidate, ClaimForPublish, Fail,
     viewerVars, storeVars
<1>7. ASSUME NEW c \in Sessions, SessionStep(c)
      PROVE  sub' = sub /\ high_water' = high_water
  BY <1>4, <1>7 DEF SessionStep, ResumeClaim, ResumeRead, Broadcast, Retire, viewerVars, storeVars
<1>8. QED
  BY <1>5, <1>6, <1>7

\* One viewer's record becomes r; the others are kept.
LEMMA OnlyOne ==
    ASSUME ViewerFunctions, NEW u \in Recipients, NEW r, Becomes(u, r)
    PROVE  /\ sub'[u] = r /\ high_water' = high_water
           /\ \A v \in Recipients \ {u} : SameFeed(v)
<1>1. sub'[u] = r /\ UNCHANGED storeVars /\ \A v \in Recipients \ {u} : sub'[v] = sub[v]
  BY BecomesOwn
<1>2. QED
  BY <1>1, KeptFeed DEF storeVars

\* A step that moves neither the positions nor the stream and ends nothing.
LEMMA QuietViewer ==
    ASSUME ViewerFunctions, NEW u \in Recipients, NEW r, Becomes(u, r),
           r.stream = sub[u].stream \/ r.first = 0, r.first = sub[u].first, r.last = sub[u].last,
           r.phase \in Ended <=> sub[u].phase \in Ended
    PROVE  UNCHANGED Feed!feedVars
<1>1. SameFeed(u)
  BY OnlyOne DEF SameFeed, FeedOf, DueOf, DoneOf, Opened
<1>2. QED
  BY <1>1, OnlyOne, FeedStutters

\* The next object is sent.
LEMMA SendDelivers ==
    ASSUME ViewerFunctions, NEW u \in Recipients, NEW r, Becomes(u, r),
           r.stream = sub[u].stream, r.stream \in Streams, r.first = sub[u].first, r.first # 0,
           sub[u].last \in Nat, r.last = sub[u].last + 1, r.last <= high_water[r.stream],
           r.phase \notin Ended, sub[u].phase \notin Ended
    PROVE  Feed!Next
<1>1. /\ sub'[u] = r /\ high_water' = high_water
      /\ \A v \in Recipients \ {u} : SameFeed(v)
  BY OnlyOne
<1>2. FeedOf(u)' = FeedOf(u) /\ DoneOf(u)' = DoneOf(u) /\ DueOf(u)' = DueOf(u) + 1
      /\ FeedOf(u) = r.stream /\ ~ DoneOf(u) /\ DueOf(u) = r.last
  BY <1>1 DEF FeedOf, DueOf, DoneOf, Opened
<1>3. r.stream # None
  BY ServiceAssumption
<1>4. [v \in Recipients |-> FeedOf(v)]' = [v \in Recipients |-> FeedOf(v)]
  BY <1>1, <1>2 DEF SameFeed
<1>5. [v \in Recipients |-> DoneOf(v)]' = [v \in Recipients |-> DoneOf(v)]
  BY <1>1, <1>2 DEF SameFeed
<1>6. [v \in Recipients |-> DueOf(v)]' = [[v \in Recipients |-> DueOf(v)] EXCEPT ![u] = @ + 1]
  BY <1>1, <1>2 DEF SameFeed
<1>7. Feed!Deliver(u)
  BY <1>1, <1>2, <1>3, <1>4, <1>5, <1>6 DEF Feed!Deliver, FeedOf, DueOf, DoneOf
<1>8. QED
  BY <1>7 DEF Feed!Next

\* What the invariant says of a subscription that has started.
LEMMA Started ==
    ASSUME ServiceBase, NEW u \in Recipients, SubInv(u), sub[u].phase # "off"
    PROVE  /\ sub[u] \in Subscription /\ sub[u].stream \in Streams
           /\ queue[u] \in Seq(LiveItem)
           /\ sub[u].first \in Nat /\ sub[u].last \in Nat /\ sub[u].page \in SUBSET Object
           /\ high_water[sub[u].stream] \in Nat
           /\ Stands(sub[u], queue[u], lagged[u], high_water[sub[u].stream])
           /\ PageSound(sub[u], objects[sub[u].stream], high_water[sub[u].stream])
           /\ QueueSound(queue[u], high_water[sub[u].stream], Transit(sub[u].stream))
<1>1. PICK s \in Streams : Opens(u, s)
  BY OpensStream
<1>2. /\ s = sub[u].stream
      /\ StreamFits(objects[s], envelopes[s], high_water[s], active[s], Transit(s))
      /\ Sound(u, sub[u], queue[u], lagged[u],
               objects[s], envelopes[s], high_water[s], active[s], Transit(s))
  BY <1>1 DEF Opens
<1>3. HandTypes(sub[u], queue[u], lagged[u])
  BY <1>2 DEF Sound
<1>4. sub[u].first \in Nat /\ sub[u].last \in Nat /\ high_water[s] \in Nat
  BY <1>2, <1>3, Numbers
<1>5. sub[u] \in Subscription /\ queue[u] \in Seq(LiveItem) /\ sub[u].page \in SUBSET Object
  BY <1>3 DEF HandTypes, Subscription
<1>6. QED
  BY <1>2, <1>4, <1>5 DEF Sound

\* Subscribing sends nothing.
LEMMA SubscribeIsQuiet ==
    ASSUME ViewerFunctions, NEW u \in Recipients, SubInv(u),
           NEW s \in Streams, NEW start \in StartRequests, Subscribe(u, s, start)
    PROVE  UNCHANGED Feed!feedVars
<1> DEFINE r == [sub[u] EXCEPT !.phase = "subscribed", !.stream = s, !.start = start]
<1>1. sub[u].phase = "off" /\ Becomes(u, r)
  BY DEF Subscribe
<1>2. sub[u] \in Subscription /\ sub[u].first = 0
  BY <1>1 DEF SubInv, Idle, HandTypes
<1>3. r.first = 0 /\ r.last = sub[u].last /\ r.phase = "subscribed"
  BY <1>2 DEF Subscription
<1> HIDE DEF r
<1>4. QED
  BY <1>1, <1>2, <1>3, QuietViewer DEF Ended

\* The steps of a replay that send no object.
LEMMA ReplayIsQuiet ==
    ASSUME ServiceBase, ViewerFunctions, NEW u \in Recipients, SubInv(u),
           ReadHighWater(u) \/ SendStartEnvelope(u) \/ ReadPage(u) \/ EndReplay(u)
    PROVE  UNCHANGED Feed!feedVars
<1>1. sub[u].phase \in {"anchored", "keying", "replay"}
  BY DEF ReadHighWater, SendStartEnvelope, ReadPage, EndReplay
<1>2. sub[u] \in Subscription
  BY <1>1, Started
<1>3. PICK r : /\ Becomes(u, r) /\ r.stream = sub[u].stream /\ r.first = sub[u].first
               /\ r.last = sub[u].last /\ r.phase \in {"keying", "replay", "sending", "live"}
  <2>1. CASE ReadHighWater(u)
    <3>1. CASE \E g : Becomes(u, [sub[u] EXCEPT !.phase = "keying", !.sealed = g])
      <4>1. PICK g : Becomes(u, [sub[u] EXCEPT !.phase = "keying", !.sealed = g])
        BY <3>1
      <4> DEFINE r == [sub[u] EXCEPT !.phase = "keying", !.sealed = g]
      <4>2. /\ r.stream = sub[u].stream /\ r.first = sub[u].first /\ r.last = sub[u].last
            /\ r.phase = "keying"
        BY <1>2 DEF Subscription
      <4> HIDE DEF r
      <4>3. QED
        BY <4>1, <4>2 DEF r
    <3>2. CASE Becomes(u, [sub[u] EXCEPT !.phase = "replay"])
      <4> DEFINE r == [sub[u] EXCEPT !.phase = "replay"]
      <4>1. /\ r.stream = sub[u].stream /\ r.first = sub[u].first /\ r.last = sub[u].last
            /\ r.phase = "replay"
        BY <1>2 DEF Subscription
      <4>2. Becomes(u, r)
        BY <3>2
      <4> HIDE DEF r
      <4>3. QED
        BY <4>1, <4>2
    <3>3. QED
      BY <2>1, <3>1, <3>2 DEF ReadHighWater
  <2>2. CASE SendStartEnvelope(u)
    <3> DEFINE r == [sub[u] EXCEPT !.phase = "replay", !.sealed = None,
                    !.keys = @ \cup EnvelopeFor(u, sub[u].stream, sub[u].sealed)]
    <3>1. Becomes(u, r)
      BY <2>2 DEF SendStartEnvelope
    <3>2. /\ r.stream = sub[u].stream /\ r.first = sub[u].first /\ r.last = sub[u].last
          /\ r.phase = "replay"
      BY <1>2 DEF Subscription
    <3> HIDE DEF r
    <3>3. QED
      BY <3>1, <3>2
  <2>3. CASE ReadPage(u)
    <3> DEFINE P == ListObjects(sub[u].stream, sub[u].last)
               F == (Cardinality(P) = Page)
               r == [sub[u] EXCEPT !.phase = "sending", !.page = P, !.full = F]
    <3>1. Becomes(u, r)
      BY <2>3 DEF ReadPage
    <3> HIDE DEF P, F
    <3>2. /\ r.stream = sub[u].stream /\ r.first = sub[u].first /\ r.last = sub[u].last
          /\ r.phase = "sending"
      BY <1>2 DEF Subscription
    <3> HIDE DEF r
    <3>3. QED
      BY <3>1, <3>2
  <2>4. CASE EndReplay(u)
    <3> DEFINE r == [sub[u] EXCEPT !.phase = "live", !.before = None]
    <3>1. Becomes(u, r)
      BY <2>4 DEF EndReplay
    <3>2. /\ r.stream = sub[u].stream /\ r.first = sub[u].first /\ r.last = sub[u].last
          /\ r.phase = "live"
      BY <1>2 DEF Subscription
    <3> HIDE DEF r
    <3>3. QED
      BY <3>1, <3>2
  <2>5. QED
    BY <2>1, <2>2, <2>3, <2>4
<1>4. r.phase \notin Ended /\ sub[u].phase \notin Ended
  BY <1>1, <1>3 DEF Ended
<1>5. QED
  BY <1>3, <1>4, QuietViewer

\* The steps of the live loop that send no object.
LEMMA ReceiverIsQuiet ==
    ASSUME ServiceBase, ViewerFunctions, NEW u \in Recipients, SubInv(u),
           RecvEnvelope(u) \/ Reanchor(u)
    PROVE  UNCHANGED Feed!feedVars
<1>1. sub[u].phase = "live"
  BY DEF RecvEnvelope, Reanchor, Take
<1>2. sub[u] \in Subscription
  BY <1>1, Started
<1>3. PICK r : /\ Becomes(u, r) /\ r.stream = sub[u].stream /\ r.first = sub[u].first
               /\ r.last = sub[u].last /\ r.phase \in {"replay", "live"}
  <2>1. CASE RecvEnvelope(u)
    BY <1>1, <1>2, <2>1 DEF RecvEnvelope, Subscription
  <2>2. CASE Reanchor(u)
    <3> DEFINE L == (sub[u].lapsed \/ lagged[u])
               r == [sub[u] EXCEPT !.phase = "replay", !.before = sub[u].last, !.lapsed = L]
    <3>1. Becomes(u, r)
      BY <2>2 DEF Reanchor
    <3> HIDE DEF L
    <3>2. /\ r.stream = sub[u].stream /\ r.first = sub[u].first /\ r.last = sub[u].last
          /\ r.phase = "replay"
      BY <1>2 DEF Subscription
    <3> HIDE DEF r
    <3>3. QED
      BY <3>1, <3>2
  <2>3. QED
    BY <2>1, <2>2
<1>4. r.phase \notin Ended /\ sub[u].phase \notin Ended
  BY <1>1, <1>3 DEF Ended
<1>5. QED
  BY <1>3, <1>4, QuietViewer

\* A replayed object is the next one, and durable.
LEMMA ReplayDelivers ==
    ASSUME ServiceBase, ViewerFunctions, NEW u \in Recipients, SubInv(u), SendReplayed(u)
    PROVE  Feed!Next
<1>1. sub[u].phase = "sending" /\ NextOfPage(u).sequence = sub[u].last + 1
  BY DEF SendReplayed
<1>2. /\ sub[u] \in Subscription /\ sub[u].stream \in Streams /\ sub[u].last \in Nat
      /\ sub[u].page \in SUBSET Object /\ sub[u].first \in Nat
      /\ Stands(sub[u], queue[u], lagged[u], high_water[sub[u].stream])
      /\ PageSound(sub[u], objects[sub[u].stream], high_water[sub[u].stream])
  BY <1>1, Started
<1>3. NextOfPage(u) \in sub[u].page
  BY <1>1, <1>2, NextIsOldest DEF Stands
<1>4. sub[u].last + 1 <= high_water[sub[u].stream] /\ sub[u].first # 0
  BY <1>1, <1>2, <1>3 DEF Stands, PageSound
<1>5. PICK r : /\ Becomes(u, r) /\ r.stream = sub[u].stream /\ r.first = sub[u].first
               /\ r.last = sub[u].last + 1 /\ r.phase \in {"sending", "replay", "live"}
  <2> DEFINE o == NextOfPage(u)
             rest == sub[u].page \ {o}
             phase == IF rest # {} THEN "sending" ELSE AfterPage(sub[u].full)
             key == IF sub[u].sealed = o.group THEN {} ELSE EnvelopeFor(u, sub[u].stream, o.group)
             before == IF phase = "live" THEN None ELSE sub[u].before
             sealed == IF rest = {} THEN None ELSE o.group
             full == (sub[u].full /\ rest # {})
             r == [sub[u] EXCEPT !.phase = phase, !.last = o.sequence, !.page = rest,
                                 !.full = full, !.before = before,
                                 !.sealed = sealed, !.keys = @ \cup key]
  <2>1. Becomes(u, r)
    BY DEF SendReplayed
  <2>2. phase \in {"sending", "replay", "live"}
    BY DEF AfterPage
  <2> HIDE DEF phase, key, before, sealed, full, rest
  <2>3. /\ r.stream = sub[u].stream /\ r.first = sub[u].first /\ r.last = o.sequence
        /\ r.phase = phase
    BY <1>2 DEF Subscription
  <2> HIDE DEF r
  <2>4. QED
    BY <1>1, <2>1, <2>2, <2>3
<1>6. r.phase \notin Ended /\ sub[u].phase \notin Ended
  BY <1>1, <1>5 DEF Ended
<1>7. QED
  BY <1>2, <1>4, <1>5, <1>6, SendDelivers

\* An object from the receiver is skipped, or it is the next one, and durable.
LEMMA ReceiverDelivers ==
    ASSUME ServiceBase, ViewerFunctions, NEW u \in Recipients, SubInv(u), RecvObject(u)
    PROVE  Feed!Next \/ UNCHANGED Feed!feedVars
<1>1. PICK x : /\ x = Head(queue[u]) /\ queue[u] # <<>> /\ sub[u].phase = "live" /\ x.kind = "Object"
               /\ x.item.sequence <= sub[u].last + 1
               /\ Becomes(u, [sub[u] EXCEPT !.last = Max({@, x.item.sequence})])
  BY DEF RecvObject, Take
<1>2. /\ sub[u] \in Subscription /\ sub[u].stream \in Streams /\ sub[u].last \in Nat
      /\ queue[u] \in Seq(LiveItem) /\ sub[u].first \in Nat
      /\ Stands(sub[u], queue[u], lagged[u], high_water[sub[u].stream])
      /\ QueueSound(queue[u], high_water[sub[u].stream], Transit(sub[u].stream))
  BY <1>1, Started
<1>3. x.item.sequence \in ObjectsIn(queue[u])
  BY <1>1, <1>2, TailItems
<1>4. x.item.sequence \in Nat /\ x.item.sequence <= high_water[sub[u].stream] /\ sub[u].first # 0
  BY <1>1, <1>2, <1>3 DEF QueueSound, Stands, Ended
<1>5. PICK m : m = Max({sub[u].last, x.item.sequence})
  OBVIOUS
<1>6. m = sub[u].last \/ (m = sub[u].last + 1 /\ m = x.item.sequence)
  <2>1. PICK n \in Nat : n = x.item.sequence
    BY <1>4
  <2>2. m \in {sub[u].last, n} /\ m >= sub[u].last /\ m >= n
    BY <1>2, <1>5, <2>1, MaxIsUpper
  <2>3. PICK l \in Nat : l = sub[u].last
    BY <1>2
  <2>4. n <= l + 1 /\ m \in {l, n} /\ m >= l /\ m >= n
    BY <1>1, <2>1, <2>2, <2>3
  <2>5. m = l \/ (m = l + 1 /\ m = n)
    BY <2>4
  <2>6. QED
    BY <2>1, <2>3, <2>5
<1>7. PICK r : /\ Becomes(u, r) /\ r.stream = sub[u].stream /\ r.first = sub[u].first
               /\ r.last = m /\ r.phase = "live"
  <2>1. Becomes(u, [sub[u] EXCEPT !.last = m])
    BY <1>1, <1>5
  <2>2. QED
    BY <1>1, <1>2, <2>1 DEF Subscription
<1>8. r.phase \notin Ended /\ sub[u].phase \notin Ended
  BY <1>1, <1>7 DEF Ended
<1>9. CASE m = sub[u].last
  BY <1>7, <1>8, <1>9, QuietViewer
<1>10. CASE m = sub[u].last + 1 /\ m = x.item.sequence
  BY <1>2, <1>4, <1>7, <1>8, <1>10, SendDelivers
<1>11. QED
  BY <1>6, <1>9, <1>10

\* The anchor opens a feed at a durable object or at the next one.
LEMMA AnchorOpens ==
    ASSUME ServiceBase, ViewerFunctions, NEW u \in Recipients, SubInv(u), ReadAnchor(u)
    PROVE  Feed!Next
<1>1. PICK n : /\ n = Anchor(sub[u].stream, sub[u].start) /\ sub[u].phase = "subscribed"
               /\ Becomes(u, [sub[u] EXCEPT !.phase = "anchored", !.first = n, !.last = n - 1])
  BY DEF ReadAnchor
<1>2. PICK s \in Streams : s = sub[u].stream
  BY <1>1, Started
<1>3. /\ sub[u] \in Subscription /\ sub[u].first = 0 /\ sub[u].start \in StartRequests
      /\ high_water[s] \in Nat
  BY <1>1, <1>2, Started DEF Stands
<1>4. n \in 1..high_water[s] + 1
  BY <1>1, <1>2, <1>3, AnchorRange
<1>5. PICK r : /\ Becomes(u, r) /\ r.stream = s /\ r.first = n /\ r.last = n - 1
               /\ r.phase = "anchored"
  <2> DEFINE r == [sub[u] EXCEPT !.phase = "anchored", !.first = n, !.last = n - 1]
  <2>1. r.stream = s /\ r.first = n /\ r.last = n - 1 /\ r.phase = "anchored"
    BY <1>2, <1>3 DEF Subscription
  <2>2. Becomes(u, r)
    BY <1>1
  <2> HIDE DEF r
  <2>3. QED
    BY <2>1, <2>2
<1>6. sub'[u] = r /\ high_water' = high_water /\ \A v \in Recipients \ {u} : SameFeed(v)
  BY <1>5, OnlyOne
<1>7. /\ FeedOf(u) = None /\ ~ DoneOf(u)
      /\ FeedOf(u)' = s /\ DueOf(u)' = n /\ DoneOf(u)' = DoneOf(u)
  BY <1>1, <1>3, <1>4, <1>5, <1>6 DEF FeedOf, DueOf, DoneOf, Opened, Ended
<1>8. [v \in Recipients |-> FeedOf(v)]' = [[v \in Recipients |-> FeedOf(v)] EXCEPT ![u] = s]
  BY <1>6, <1>7 DEF SameFeed
<1>9. [v \in Recipients |-> DueOf(v)]' = [[v \in Recipients |-> DueOf(v)] EXCEPT ![u] = n]
  BY <1>6, <1>7 DEF SameFeed
<1>10. [v \in Recipients |-> DoneOf(v)]' = [v \in Recipients |-> DoneOf(v)]
  BY <1>6, <1>7 DEF SameFeed
<1>11. Feed!Open(u, s, n)
  BY <1>6, <1>7, <1>8, <1>9, <1>10 DEF Feed!Open, FeedOf, DueOf, DoneOf
<1>12. QED
  BY <1>4, <1>11 DEF Feed!Next

\* Subscriptions end: V is the set of their viewers.
LEMMA EndCloses ==
    ASSUME NEW V \in SUBSET Recipients, high_water' = high_water,
           \A v \in Recipients \ V : SameFeed(v),
           \A v \in V : FeedOf(v)' = FeedOf(v) /\ DueOf(v)' = DueOf(v) /\ DoneOf(v)' = TRUE
    PROVE  Feed!Next
<1>1. /\ [v \in Recipients |-> FeedOf(v)]' = [v \in Recipients |-> FeedOf(v)]
      /\ [v \in Recipients |-> DueOf(v)]' = [v \in Recipients |-> DueOf(v)]
  BY DEF SameFeed
<1>2. \A v \in Recipients : DoneOf(v)' = (DoneOf(v) \/ v \in V)
  <2>1. \A v \in Recipients : DoneOf(v) \in BOOLEAN
    BY DEF DoneOf
  <2>2. QED
    BY <2>1 DEF SameFeed
<1>3. [v \in Recipients |-> DoneOf(v)]'
        = [v \in Recipients |-> [w \in Recipients |-> DoneOf(w)][v] \/ v \in V]
  BY <1>2
<1>4. Feed!Close(V)
  BY <1>1, <1>3 DEF Feed!Close, FeedOf, DueOf, DoneOf
<1>5. QED
  BY <1>4 DEF Feed!Next

\* A subscription that ends keeps its position.
LEMMA EndsClose ==
    ASSUME ServiceBase, ViewerFunctions, NEW u \in Recipients, SubInv(u),
           EndUnavailable(u) \/ EndGap(u) \/ Disconnect(u)
    PROVE  Feed!Next
<1>1. PICK why \in Ended : Ends(u, why) /\ sub[u].phase # "off"
  BY DEF EndUnavailable, EndGap, Disconnect, Ended
<1>2. sub[u] \in Subscription
  BY <1>1, Started
<1> DEFINE r == [sub[u] EXCEPT !.phase = why, !.page = {}, !.full = FALSE, !.sealed = None]
<1>3. Becomes(u, r)
  BY <1>1 DEF Ends
<1>4. r.stream = sub[u].stream /\ r.first = sub[u].first /\ r.last = sub[u].last /\ r.phase = why
  BY <1>2 DEF Subscription
<1> HIDE DEF r
<1>5. sub'[u] = r /\ high_water' = high_water /\ \A v \in Recipients \ {u} : SameFeed(v)
  BY <1>3, OnlyOne
<1>6. FeedOf(u)' = FeedOf(u) /\ DueOf(u)' = DueOf(u) /\ DoneOf(u)' = TRUE
  BY <1>1, <1>4, <1>5 DEF FeedOf, DueOf, DoneOf, Opened
<1>7. PICK V \in SUBSET Recipients : V = {u}
  OBVIOUS
<1>8. /\ \A v \in Recipients \ V : SameFeed(v)
      /\ \A v \in V : FeedOf(v)' = FeedOf(v) /\ DueOf(v)' = DueOf(v) /\ DoneOf(v)' = TRUE
  BY <1>5, <1>6, <1>7
<1>9. QED
  BY <1>5, <1>8, EndCloses

\* A restart ends every subscription that had started.
LEMMA RestartCloses ==
    ASSUME ServiceBase, FeedInv, Restart
    PROVE  Feed!Next
<1> DEFINE V == {v \in Recipients : sub[v].phase \notin {"off"} \cup Ended}
<1>1. high_water' = high_water
  BY DEF Restart, storeVars
<1>2. \A v \in Recipients \ V : SameFeed(v)
  <2>1. \A v \in Recipients \ V : sub'[v] = sub[v]
    BY DEF Restart
  <2>2. QED
    BY <2>1, KeptFeed
<1>3. ASSUME NEW v \in V
      PROVE  FeedOf(v)' = FeedOf(v) /\ DueOf(v)' = DueOf(v) /\ DoneOf(v)' = TRUE
  <2> DEFINE r == [sub[v] EXCEPT !.phase = "closed", !.page = {}, !.full = FALSE, !.sealed = None]
  <2>1. sub'[v] = r
    BY DEF Restart
  <2>2. sub[v] \in Subscription
    BY Started DEF FeedInv
  <2>3. r.stream = sub[v].stream /\ r.first = sub[v].first /\ r.last = sub[v].last /\ r.phase = "closed"
    BY <2>2 DEF Subscription
  <2> HIDE DEF r, V
  <2>4. QED
    BY <2>1, <2>3 DEF FeedOf, DueOf, DoneOf, Opened, Ended
<1> HIDE DEF V
<1>4. V \in SUBSET Recipients
  BY DEF V
<1>5. QED
  BY <1>1, <1>2, <1>3, <1>4, EndCloses

\* Every step of the service is a step of the feed or invisible to it.
LEMMA FeedStepImplemented ==
    ServiceBase /\ FeedInv /\ [ServiceNext]_vars => [Feed!Next]_(Feed!feedVars)
<1> SUFFICES ASSUME ServiceBase, FeedInv, [ServiceNext]_vars
             PROVE  Feed!Next \/ UNCHANGED Feed!feedVars
  OBVIOUS
<1>1. CASE \/ \E c \in Sessions : SessionRequest(c) \/ SessionStep(c)
           \/ \E now \in Times : Retention(now)
  <2>1. /\ sub' = sub
        /\ \/ high_water' = high_water
           \/ \E s \in Streams : high_water' = [high_water EXCEPT ![s] = @ + 1]
    BY <1>1, MarkMoves
  <2>2. \A v \in Recipients : SameFeed(v)
    BY <2>1, KeptFeed
  <2>3. CASE high_water' = high_water
    BY <2>2, <2>3, FeedStutters
  <2>4. ASSUME NEW s \in Streams, high_water' = [high_water EXCEPT ![s] = @ + 1]
        PROVE  Feed!Next
    <3>1. Feed!Commit(s)
      BY <2>2, <2>4 DEF Feed!Commit, SameFeed, FeedOf, DueOf, DoneOf
    <3>2. QED
      BY <3>1 DEF Feed!Next
  <2>5. QED
    BY <2>1, <2>3, <2>4
<1>2. ViewerFunctions /\ \A v \in Recipients : SubInv(v)
  BY DEF FeedInv
<1>3. ASSUME NEW u \in Recipients, ViewerStep(u) \/ Disconnect(u)
      PROVE  Feed!Next \/ UNCHANGED Feed!feedVars
  <2>1. CASE ReadAnchor(u)
    BY <1>2, <2>1, AnchorOpens
  <2>2. CASE ReadHighWater(u) \/ SendStartEnvelope(u) \/ ReadPage(u) \/ EndReplay(u)
    BY <1>2, <2>2, ReplayIsQuiet
  <2>3. CASE SendReplayed(u)
    BY <1>2, <2>3, ReplayDelivers
  <2>4. CASE RecvEnvelope(u) \/ Reanchor(u)
    BY <1>2, <2>4, ReceiverIsQuiet
  <2>5. CASE RecvObject(u)
    BY <1>2, <2>5, ReceiverDelivers
  <2>6. CASE EndUnavailable(u) \/ EndGap(u) \/ Disconnect(u)
    BY <1>2, <2>6, EndsClose
  <2>7. QED
    BY <1>3, <2>1, <2>2, <2>3, <2>4, <2>5, <2>6 DEF ViewerStep
<1>4. ASSUME NEW u \in Recipients, NEW s \in Streams, NEW start \in StartRequests,
             Subscribe(u, s, start)
      PROVE  UNCHANGED Feed!feedVars
  BY <1>2, <1>4, SubscribeIsQuiet
<1>5. CASE Restart
  BY <1>5, RestartCloses
<1>6. CASE UNCHANGED vars
  <2>1. sub' = sub /\ high_water' = high_water
    BY <1>6 DEF vars, storeVars, viewerVars
  <2>2. QED
    BY <2>1, KeptFeed, FeedStutters
<1>7. QED
  BY <1>1, <1>3, <1>4, <1>5, <1>6 DEF ServiceNext

\* The relay keeps its promise to viewers: through replay, live tail, lagging
\* and re-anchoring, retention, sessions that come and go and restarts, every
\* subscription (subscription, reanchor_from_store) is sent a run of durable
\* objects from its anchor on, none skipped, repeated or sent before its commit.
THEOREM ServiceImplementsFeed == ServiceSpec => ImplementsLiveFeed
<1>1. ServiceInit => Feed!Init
  <2> SUFFICES ASSUME ServiceInit PROVE Feed!Init
    OBVIOUS
  <2>1. \A v \in Recipients : sub[v].first = 0 /\ sub[v].phase = "off"
    BY DEF ServiceInit, Unsubscribed
  <2>2. high_water = [s \in Streams |-> 0]
    BY DEF ServiceInit, Init
  <2>3. QED
    <3>1. \A v \in Recipients : FeedOf(v) = None /\ DueOf(v) = 0 /\ DoneOf(v) = FALSE
      BY <2>1 DEF FeedOf, DueOf, DoneOf, Opened, Ended
    <3>2. [v \in Recipients |-> FeedOf(v)] = [v \in Recipients |-> None]
      BY <3>1
    <3>3. [v \in Recipients |-> DueOf(v)] = [v \in Recipients |-> 0]
      BY <3>1
    <3>4. [v \in Recipients |-> DoneOf(v)] = [v \in Recipients |-> FALSE]
      BY <3>1
    <3>5. QED
      BY <2>2, <3>2, <3>3, <3>4 DEF Feed!Init, FeedOf, DueOf, DoneOf
<1>2. QED
  BY <1>1, ServiceBaseInvariant, FeedInvariant, FeedStepImplemented, PTL
     DEF ServiceSpec, ImplementsLiveFeed, Feed!Spec

=============================================================================
