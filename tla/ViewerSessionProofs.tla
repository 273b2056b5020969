------------------------- MODULE ViewerSessionProofs -------------------------
(***************************************************************************)
(* Proofs about ViewerSession, for every group size, cache, queue and      *)
(* history: the viewer passes over no object within a run of playing, a    *)
(* run is broken off only past an eviction, and a withdrawn credential     *)
(* gets at most one more live item on a connection.                        *)
(*                                                                         *)
(* The first rests on the shape of the queue: what was received and not    *)
(* decrypted is the unbroken run of objects up to the last one received,   *)
(* and it begins where playing has reached.                                *)
(***************************************************************************)
EXTENDS ViewerSession, SequenceTheorems, WellFoundedInduction, TLAPS

\* The relay's subscription task runs.
Streaming == phase \in {"read", "replay", "check", "wait"}

\* The relay holds groups that exist, or none.
StreamShape == IF high = 0 THEN oldest = 0 ELSE oldest \in 0..Group(high) + 1

\* The queue is the run of objects that ends at the last one received and
\* begins right after what was played, or before.
QueueIsRun ==
    /\ ~Streaming => pending = <<>>
    /\ Streaming =>
         /\ Len(pending) <= sent /\ joined..sent - Len(pending) \subseteq played
         /\ \A i \in 1..Len(pending) : pending[i] = sent - Len(pending) + i

\* A replay has something left of its page.
ReplayHasMore == phase = "replay" => sent < page /\ page <= high

\* A late item is followed by the check that ends the subscription.
LateIsLast == late > 0 => late = 1 /\ phase = "check" /\ ~EnsureActive

\* The types, with the two sequences as sequences.
ViewTypes == TypeOK /\ keys \in Seq(Groups) /\ pending \in Seq(1..MaxSequence)

\* The inductive invariant.
ViewInv ==
    /\ ViewTypes /\ StreamShape /\ QueueIsRun /\ ReplayHasMore
    /\ LateIsLast /\ NoSilentSkip

-----------------------------------------------------------------------------
(* Groups of sequence numbers *)

\* Division with a divisor that is not a numeral.
LEMMA DivBounds ==
    ASSUME NEW a \in Nat, NEW d \in Nat \ {0}
    PROVE  /\ a \div d \in Nat
           /\ (a \div d) * d <= a
           /\ a < (a \div d) * d + d
OBVIOUS

\* Multiplication is monotone.
LEMMA TimesMonotone ==
    ASSUME NEW p \in Nat, NEW q \in Nat, NEW d \in Nat, p <= q
    PROVE  p * d <= q * d
OBVIOUS

\* One group further.
LEMMA TimesNext ==
    ASSUME NEW p \in Nat, NEW d \in Nat
    PROVE  (p + 1) * d = p * d + d /\ p * d \in Nat
OBVIOUS

\* The quotient is the greatest that fits.
LEMMA DivGreatest ==
    ASSUME NEW a \in Nat, NEW d \in Nat \ {0}, NEW q \in Nat, q * d <= a
    PROVE  q <= a \div d
<1>1. CASE a \div d < q
  <2>1. (a \div d) + 1 <= q /\ a \div d \in Nat
    BY <1>1, DivBounds
  <2>2. ((a \div d) + 1) * d <= q * d
    BY <2>1, TimesMonotone
  <2>3. QED
    BY <2>1, <2>2, DivBounds, TimesNext
<1>2. QED
  BY <1>1, DivBounds

\* A group's first object is in it and is its first.
LEMMA FirstOfGroup ==
    ASSUME NEW n \in Nat \ {0}
    PROVE  Group(n) \in Nat /\ First(Group(n)) \in 1..n
<1>1. n - 1 \in Nat /\ GroupSize \in Nat \ {0}
  BY SessionAssumption
<1>2. Group(n) \in Nat /\ Group(n) * GroupSize <= n - 1
  BY <1>1, DivBounds DEF Group
<1>3. Group(n) * GroupSize \in Nat
  BY <1>1, <1>2, TimesNext
<1>4. QED
  BY <1>2, <1>3 DEF First

\* A group is later exactly if it begins later.
LEMMA GroupReached ==
    ASSUME NEW g \in Nat, NEW n \in Nat \ {0}
    PROVE  g <= Group(n) <=> First(g) <= n
<1>1. n - 1 \in Nat /\ GroupSize \in Nat \ {0} /\ Group(n) \in Nat
  BY SessionAssumption, FirstOfGroup
<1>2. g * GroupSize \in Nat /\ Group(n) * GroupSize \in Nat
  BY <1>1, TimesNext
<1>3. ASSUME g <= Group(n) PROVE First(g) <= n
  <2>1. g * GroupSize <= Group(n) * GroupSize
    BY <1>1, <1>3, TimesMonotone
  <2>2. Group(n) * GroupSize <= n - 1
    BY <1>1, DivBounds DEF Group
  <2>3. QED
    BY <1>1, <1>2, <2>1, <2>2 DEF First
<1>4. ASSUME First(g) <= n PROVE g <= Group(n)
  <2>1. g * GroupSize <= n - 1
    BY <1>1, <1>2, <1>4 DEF First
  <2>2. QED
    BY <1>1, <2>1, DivGreatest DEF Group
<1>5. QED
  BY <1>3, <1>4

\* Groups come in the order of their objects.
LEMMA GroupMonotone ==
    ASSUME NEW m \in Nat \ {0}, NEW n \in Nat \ {0}, m <= n
    PROVE  Group(m) <= Group(n)
<1>1. Group(m) \in Nat /\ First(Group(m)) \in 1..m
  BY FirstOfGroup
<1>2. First(Group(m)) <= n
  BY <1>1
<1>3. QED
  BY <1>1, <1>2, GroupReached

\* A non-empty set of naturals with an upper bound has a maximum.
LEMMA MaxInSet ==
    ASSUME NEW S, NEW b \in Nat, S \subseteq 0..b, S # {}
    PROVE  Max(S) \in S /\ \A y \in S : y <= Max(S)
<1> DEFINE T == {b - x : x \in S}
<1>1. T \subseteq Nat /\ T # {}
  <2>1. \A x \in S : b - x \in Nat
    OBVIOUS
  <2>2. PICK x \in S : TRUE
    OBVIOUS
  <2>3. b - x \in T
    OBVIOUS
  <2>4. QED
    BY <2>1, <2>3
<1>2. \E t \in T : \A u \in T : ~(<<u, t>> \in OpToRel(<, Nat))
  BY <1>1, NatLessThanWellFounded, WFMin
<1>3. PICK t \in T : \A u \in T : ~(<<u, t>> \in OpToRel(<, Nat))
  BY <1>2
<1>4. \A x, y \in Nat : y < x => <<y, x>> \in OpToRel(<, Nat)
  BY DEF OpToRel
<1>5. \A u \in T : ~(u < t)
  BY <1>1, <1>3, <1>4, Zenon
<1>6. PICK m \in S : t = b - m
  BY <1>3
<1>7. \A y \in S : m >= y
  <2> SUFFICES ASSUME NEW y \in S PROVE m >= y
    OBVIOUS
  <2>1. ~(b - y < b - m)
    BY <1>5, <1>6
  <2>2. y \in Nat /\ m \in Nat
    OBVIOUS
  <2>3. QED
    BY <2>1, <2>2
<1>8. Max(S) \in S /\ \A y \in S : Max(S) >= y
  BY <1>6, <1>7 DEF Max
<1>9. QED
  BY <1>8

-----------------------------------------------------------------------------
(* The cache and the queue *)

\* KeyCache::insert keeps the cache within its bound.
LEMMA InsertType ==
    ASSUME NEW cache \in Seq(Groups), Len(cache) <= MaxKeys, NEW g \in Groups
    PROVE  Insert(cache, g) \in Seq(Groups) /\ Len(Insert(cache, g)) <= MaxKeys
<1> DEFINE grown == Append(cache, g)
<1>1. grown \in Seq(Groups) /\ grown # <<>> /\ Len(grown) = Len(cache) + 1
  BY AppendProperties
<1>2. Tail(grown) \in Seq(Groups) /\ Len(Tail(grown)) = Len(cache)
  BY <1>1, HeadTailProperties
<1>3. Len(cache) \in Nat /\ MaxKeys \in Nat
  BY SessionAssumption
<1> HIDE DEF grown
<1>4. \/ Insert(cache, g) = cache
      \/ Insert(cache, g) = Tail(grown)
      \/ Insert(cache, g) = grown /\ ~(Len(grown) > MaxKeys)
  BY DEF Insert, grown
<1>5. QED
  BY <1>1, <1>2, <1>3, <1>4, SMTT(20)

\* What drain_pending_objects takes is a prefix of the queue.
LEMMA ReadyPrefix ==
    ASSUME NEW queue \in Seq(1..MaxSequence), NEW cache
    PROVE  \E k \in 0..Len(queue) : Ready(queue, cache) = SubSeq(queue, 1, k)
<1> DEFINE opens(k) == \A i \in 1..k : Opens(queue[i], cache)
           S == {k \in 0..Len(queue) : opens(k)}
<1>1. Len(queue) \in Nat
  OBVIOUS
<1>2. 0 \in S
  BY <1>1
<1>3. S \subseteq 0..Len(queue)
  OBVIOUS
<1>4. Max(S) \in 0..Len(queue)
  BY <1>1, <1>2, <1>3, MaxInSet
<1>5. Ready(queue, cache) = SubSeq(queue, 1, Max(S))
  BY DEF Ready
<1>6. QED
  BY <1>4, <1>5

\* The first k elements of a sequence.
LEMMA Prefix ==
    ASSUME NEW S, NEW q \in Seq(S), NEW k \in 0..Len(q)
    PROVE  /\ SubSeq(q, 1, k) \in Seq(S) /\ Len(SubSeq(q, 1, k)) = k
           /\ \A i \in 1..k : SubSeq(q, 1, k)[i] = q[i]
<1>1. Len(q) \in Nat /\ \A i \in 1..Len(q) : q[i] \in S
  BY LenProperties, ElementOfSeq
<1>2. \A i \in 1..k : q[i] \in S
  BY <1>1
<1>3. QED
  BY <1>1, <1>2, SubSeqProperties

\* What is left of a sequence after its first k elements.
LEMMA Suffix ==
    ASSUME NEW S, NEW q \in Seq(S), NEW k \in 0..Len(q)
    PROVE  /\ SubSeq(q, k + 1, Len(q)) \in Seq(S)
           /\ Len(SubSeq(q, k + 1, Len(q))) = Len(q) - k
           /\ \A i \in 1..Len(q) - k : SubSeq(q, k + 1, Len(q))[i] = q[k + i]
<1>1. Len(q) \in Nat /\ \A i \in 1..Len(q) : q[i] \in S
  BY LenProperties, ElementOfSeq
<1>2. k + 1 \in Int /\ \A i \in k + 1..Len(q) : q[i] \in S
  BY <1>1
<1>3. /\ SubSeq(q, k + 1, Len(q)) \in Seq(S)
      /\ Len(SubSeq(q, k + 1, Len(q))) =
            IF k + 1 <= Len(q) THEN Len(q) - (k + 1) + 1 ELSE 0
      /\ \A i \in 1..Len(q) - (k + 1) + 1 :
            SubSeq(q, k + 1, Len(q))[i] = q[k + 1 + i - 1]
  BY <1>1, <1>2, SubSeqProperties
<1>4. Len(q) - (k + 1) + 1 = Len(q) - k /\ \A i \in Int : k + 1 + i - 1 = k + i
  BY <1>1
<1>5. \A i \in 1..Len(q) - k : SubSeq(q, k + 1, Len(q))[i] = q[k + i]
  BY <1>3, <1>4
<1>6. QED
  BY <1>1, <1>3, <1>5

\* The elements of a sequence over S are in S.
LEMMA RangeInSet ==
    ASSUME NEW S, NEW q \in Seq(S)
    PROVE  Range(q) \subseteq S
BY ElementOfSeq DEF Range

\* A drain of an unbroken run that begins where playing has reached plays the
\* next objects of the run, and all of it from joined to the last it played
\* has then been played.
LEMMA DrainRun ==
    ASSUME NEW queue \in Seq(1..MaxSequence), NEW cache, NEW base \in Nat,
           \A i \in 1..Len(queue) : queue[i] = base + i,
           joined \in Nat, last \in 0..MaxSequence,
           joined..base \subseteq played, joined..last \subseteq played
    PROVE  \E k \in 0..Len(queue) :
             /\ Len(Ready(queue, cache)) = k /\ Range(Ready(queue, cache)) \subseteq 1..MaxSequence
             /\ LastDecrypted(queue, Ready(queue, cache)) \in 0..MaxSequence
             /\ joined..base + k \subseteq played \cup Range(Ready(queue, cache))
             /\ joined..LastDecrypted(queue, Ready(queue, cache))
                  \subseteq played \cup Range(Ready(queue, cache))
<1> DEFINE ready == Ready(queue, cache)
<1>1. PICK k \in 0..Len(queue) : ready = SubSeq(queue, 1, k)
  BY ReadyPrefix
<1>2. Len(queue) \in Nat /\ MaxSequence \in Nat /\ k \in Nat
  BY SessionAssumption
<1>3. Len(ready) = k /\ ready \in Seq(1..MaxSequence) /\ \A i \in 1..k : ready[i] = queue[i]
  BY <1>1, Prefix, ZenonT(30)
<1>4. Range(ready) \subseteq 1..MaxSequence
  BY <1>3, RangeInSet
<1> HIDE DEF ready
<1>5. CASE k = 0
  <2>1. ready = <<>>
    BY <1>3, <1>5, EmptySeq
  <2>2. LastDecrypted(queue, ready) = last
    BY <2>1 DEF LastDecrypted
  <2>3. QED
    BY <1>2, <1>3, <1>4, <1>5, <2>2 DEF ready
<1>6. CASE k # 0
  <2>1. k \in 1..k /\ k \in 1..Len(queue)
    BY <1>2, <1>6
  <2>2. ready[k] = base + k /\ ready[k] \in 1..MaxSequence
    BY <1>3, <2>1, ElementOfSeq
  <2>3. ready # <<>>
    BY <1>3, <1>6, EmptySeq
  <2>4. Last(ready) = base + k
    BY <1>3, <2>2 DEF Last
  <2>5. LastDecrypted(queue, ready) = base + k
    BY <2>3, <2>4 DEF LastDecrypted
  <2>6. ASSUME NEW x \in joined..base + k PROVE x \in played \cup Range(ready)
    <3>1. CASE x <= base
      BY <1>2, <3>1
    <3>2. CASE ~(x <= base)
      <4>1. x - base \in 1..k /\ x - base \in 1..Len(queue) /\ x = base + (x - base)
        BY <1>2, <3>2
      <4>2. ready[x - base] = x
        BY <1>3, <4>1
      <4>3. DOMAIN ready = 1..k
        BY <1>3, LenProperties
      <4>4. QED
        BY <4>1, <4>2, <4>3 DEF Range
    <3>3. QED
      BY <3>1, <3>2
  <2>7. QED
    BY <1>2, <1>3, <1>4, <2>2, <2>5, <2>6 DEF ready
<1>7. QED
  BY <1>5, <1>6

\* What a drain that succeeds assigns.
DrainedBy(queue, cache) ==
    /\ last' = LastDecrypted(queue, Ready(queue, cache))
    /\ pending' = SubSeq(queue, Len(Ready(queue, cache)) + 1, Len(queue))
    /\ played' = played \cup Range(Ready(queue, cache)) /\ joined' = joined
    /\ epochSeen' \in BOOLEAN

\* DrainRun, for the variables a drain assigns.
LEMMA DrainedQueue ==
    ASSUME NEW queue \in Seq(1..MaxSequence), NEW cache, NEW base \in Nat,
           \A i \in 1..Len(queue) : queue[i] = base + i,
           joined \in Nat, last \in 0..MaxSequence, played \subseteq 1..MaxSequence,
           joined..base \subseteq played, joined..last \subseteq played,
           DrainedBy(queue, cache), sent' = base + Len(queue)
    PROVE  /\ last' \in 0..MaxSequence /\ played' \subseteq 1..MaxSequence
           /\ joined'..last' \subseteq played'
           /\ pending' \in Seq(1..MaxSequence) /\ Len(pending') <= Len(queue)
           /\ Len(pending') <= sent' /\ joined'..sent' - Len(pending') \subseteq played'
           /\ \A i \in 1..Len(pending') : pending'[i] = sent' - Len(pending') + i
<1>1. PICK k \in 0..Len(queue) :
        /\ Len(Ready(queue, cache)) = k /\ Range(Ready(queue, cache)) \subseteq 1..MaxSequence
        /\ LastDecrypted(queue, Ready(queue, cache)) \in 0..MaxSequence
        /\ joined..base + k \subseteq played \cup Range(Ready(queue, cache))
        /\ joined..LastDecrypted(queue, Ready(queue, cache))
             \subseteq played \cup Range(Ready(queue, cache))
  BY DrainRun
<1>2. /\ pending' = SubSeq(queue, k + 1, Len(queue))
      /\ last' \in 0..MaxSequence /\ played' \subseteq 1..MaxSequence
      /\ joined'..last' \subseteq played' /\ joined'..base + k \subseteq played'
  BY <1>1 DEF DrainedBy
<1>3. /\ pending' \in Seq(1..MaxSequence) /\ Len(pending') = Len(queue) - k
      /\ \A i \in 1..Len(queue) - k : pending'[i] = queue[k + i]
  BY <1>2, Suffix
<1>4. Len(queue) \in Nat /\ k \in Nat /\ k <= Len(queue)
  OBVIOUS
<1>5. \A i \in 1..Len(queue) - k : pending'[i] = base + (k + i)
  <2>1. \A i \in 1..Len(queue) - k : k + i \in 1..Len(queue)
    BY <1>4
  <2>2. QED
    BY <1>3, <2>1
<1>6. sent' - Len(pending') = base + k
  BY <1>3, <1>4
<1>7. \A i \in 1..Len(pending') : pending'[i] = sent' - Len(pending') + i
  <2> SUFFICES ASSUME NEW i \in 1..Len(pending')
               PROVE  pending'[i] = sent' - Len(pending') + i
    OBVIOUS
  <2>1. i \in 1..Len(queue) - k
    BY <1>3
  <2>2. pending'[i] = base + (k + i)
    BY <1>5, <2>1
  <2>3. base + (k + i) = (base + k) + i
    BY <1>4, <2>1
  <2>4. QED
    BY <1>6, <2>2, <2>3, Zenon
<1>8. Len(pending') <= Len(queue) /\ Len(pending') <= sent'
  BY <1>3, <1>4
<1>9. joined'..sent' - Len(pending') \subseteq played'
  BY <1>2, <1>6, Zenon
<1>10. QED
  BY <1>2, <1>3, <1>7, <1>8, <1>9

-----------------------------------------------------------------------------
(* ViewInv is inductive *)

\* At first there is no stream and no connection.
LEMMA ViewInit == Init => ViewInv
<1> SUFFICES ASSUME Init PROVE ViewInv
  OBVIOUS
<1>1. keys = <<>> /\ pending = <<>> /\ <<>> \in Seq(Groups) /\ <<>> \in Seq(1..MaxSequence)
  BY EmptySeq DEF Init
<1>2. Range(keys) \subseteq Groups /\ Range(pending) \subseteq 1..MaxSequence
  BY <1>1, RangeInSet
<1>3. Len(keys) = 0 /\ Len(pending) = 0
  BY <1>1
<1>4. AccessTypeOK
  BY AccessAssumption DEF Init, AccessInit, AccessTypeOK
<1>5. TypeOK
  <2>1. /\ 0 \in 0..MaxSequence /\ 0 \in 0..MaxFaults /\ 0 <= MaxKeys /\ 0 <= MaxPending
        /\ 1 \in 1..MaxSequence + 1
    BY SessionAssumption
  <2>2. phase \in Phases /\ start \in Starts /\ epochSeen \in BOOLEAN
    BY DEF Init, Phases
  <2>3. QED
    BY <1>2, <1>3, <1>4, <2>1, <2>2 DEF Init, TypeOK
<1>6. QED
  BY <1>1, <1>5 DEF Init, ViewInv, ViewTypes, StreamShape, QueueIsRun, Streaming,
                    ReplayHasMore, LateIsLast, NoSilentSkip

\* A failed connection leaves neither a queue nor a late item.
LEMMA FailKeeps ==
    ASSUME ViewInv, Fail, UNCHANGED <<accessVars, streamVars>>,
           keys' \in Seq(Groups), Len(keys') <= MaxKeys,
           start' \in Starts, faults' \in 0..MaxFaults,
           last' \in 0..MaxSequence, joined' \in 1..MaxSequence + 1,
           played' \subseteq 1..MaxSequence, joined'..last' \subseteq played'
    PROVE  ViewInv'
<1>1. /\ phase' = "off" /\ opened' = 0 /\ sent' = 0 /\ page' = 0 /\ sentKey' = -1 /\ mail' = {}
      /\ late' = 0 /\ pending' = <<>> /\ epochSeen' = FALSE
  BY DEF Fail, NewPlayer
<1>2. pending' \in Seq(1..MaxSequence) /\ Len(pending') = 0
  BY <1>1, EmptySeq
<1>3. Range(keys') \subseteq Groups /\ Range(pending') \subseteq 1..MaxSequence
  BY <1>2, RangeInSet
<1>4. TypeOK'
  <2>1. 0 \in 0..MaxSequence /\ 0 \in 0..MaxFaults /\ 0 <= MaxKeys /\ 0 <= MaxPending
    BY SessionAssumption
  <2>2. phase' \in Phases /\ epochSeen' \in BOOLEAN
    BY <1>1 DEF Phases
  <2>3. AccessTypeOK' /\ UNCHANGED <<high, oldest, keyed, ended>>
    BY DEF ViewInv, ViewTypes, TypeOK, AccessTypeOK, accessVars, streamVars
  <2>4. QED
    BY <1>1, <1>2, <1>3, <2>1, <2>2, <2>3 DEF ViewInv, ViewTypes, TypeOK
<1>5. ViewTypes' /\ QueueIsRun' /\ ReplayHasMore' /\ LateIsLast'
  BY <1>1, <1>2, <1>4 DEF ViewTypes, QueueIsRun, Streaming, ReplayHasMore, LateIsLast
<1>6. StreamShape' /\ NoSilentSkip'
  BY DEF ViewInv, StreamShape, NoSilentSkip, streamVars
<1>7. QED
  BY <1>5, <1>6 DEF ViewInv

\* The stream changes at the relay.
LEMMA StreamKeeps ==
    ASSUME ViewInv, Publish \/ Finalize \/ Evict \/ \E g \in Groups : StoreKey(g)
    PROVE  ViewInv'
<1>1. /\ UNCHANGED <<accessVars, phase, opened, sent, page, sentKey, keys, start, playVars, late,
                      faults>>
      /\ mail' \subseteq Groups /\ keyed' \subseteq Groups /\ ended' \in BOOLEAN
  BY DEF Publish, Finalize, Evict, StoreKey, relayVars, ViewInv, ViewTypes, TypeOK
<1>2. high \in Nat /\ high' \in 0..MaxSequence /\ high <= high'
  BY SessionAssumption DEF Publish, Finalize, Evict, OldestComplete, StoreKey, ViewInv, ViewTypes, TypeOK
<1>3. StreamShape'
  <2>1. CASE Publish
    <3>1. high' = high + 1 /\ high' \in Nat \ {0} /\ oldest' = oldest
      BY <1>2, <2>1 DEF Publish
    <3>2. Group(high') \in Nat
      BY <3>1, FirstOfGroup
    <3>3. CASE high = 0
      BY <3>1, <3>2, <3>3 DEF ViewInv, StreamShape
    <3>4. CASE high # 0
      <4>1. Group(high) <= Group(high') /\ Group(high) \in Nat
        BY <1>2, <3>1, <3>4, GroupMonotone, FirstOfGroup
      <4>2. QED
        BY <3>1, <3>2, <3>4, <4>1 DEF ViewInv, StreamShape
    <3>5. QED
      BY <3>3, <3>4
  <2>2. CASE Evict
    <3>1. /\ high' = high /\ high # 0 /\ oldest' = oldest + 1
          /\ oldest < Group(high) \/ oldest = Group(high)
      BY <1>2, <2>2 DEF Evict, OldestComplete
    <3>2. Group(high) \in Nat
      BY <1>2, <3>1, FirstOfGroup
    <3>3. QED
      BY <3>1, <3>2 DEF ViewInv, StreamShape
  <2>3. CASE Finalize \/ \E g \in Groups : StoreKey(g)
    BY <2>3 DEF Finalize, StoreKey, ViewInv, StreamShape
  <2>4. QED
    BY <2>1, <2>2, <2>3
<1>4. oldest' \in Nat
  BY DEF Publish, Finalize, Evict, StoreKey, ViewInv, ViewTypes, TypeOK
<1>5. ViewTypes'
  BY <1>1, <1>2, <1>4 DEF ViewInv, ViewTypes, TypeOK, AccessTypeOK, accessVars, playVars, progress
<1>6. QueueIsRun' /\ LateIsLast' /\ NoSilentSkip'
  BY <1>1 DEF ViewInv, QueueIsRun, Streaming, LateIsLast, NoSilentSkip, EnsureActive, NotRevoked,
              ListVerifies, accessVars, playVars, progress
<1>7. ReplayHasMore'
  BY <1>1, <1>2, SessionAssumption DEF ViewInv, ReplayHasMore, ViewTypes, TypeOK
<1>8. QED
  BY <1>3, <1>5, <1>6, <1>7 DEF ViewInv

\* A step of the relay's task that writes nothing, within the subscription or
\* before it.
LEMMA PhaseKeeps ==
    ASSUME ViewInv,
           UNCHANGED <<accessVars, streamVars, keys, start, playVars, opened, sent, sentKey, late>>,
           phase' \in Phases, Streaming' = Streaming,
           phase' = "replay" => sent < page' /\ page' <= high,
           page' \in 0..MaxSequence, mail' \subseteq mail, faults' \in 0..MaxFaults,
           phase # "check" \/ EnsureActive
    PROVE  ViewInv'
<1>1. late = 0
  BY DEF ViewInv, LateIsLast, ViewTypes, TypeOK
<1>2. ViewTypes'
  BY DEF ViewInv, ViewTypes, TypeOK, AccessTypeOK, accessVars, streamVars, playVars, progress
<1>3. StreamShape' /\ NoSilentSkip'
  BY DEF ViewInv, StreamShape, NoSilentSkip, streamVars, playVars, progress
<1>4. QueueIsRun'
  BY DEF ViewInv, QueueIsRun, playVars, progress
<1>5. ReplayHasMore'
  BY DEF ReplayHasMore, streamVars
<1>6. LateIsLast'
  BY <1>1 DEF LateIsLast
<1>7. QED
  BY <1>2, <1>3, <1>4, <1>5, <1>6 DEF ViewInv

\* The ways a connection ends without playing anything.
LEMMA EndKeeps ==
    ASSUME ViewInv,
           \/ ReadUntilExpiry \/ Disconnect \/ ReadTimeout
           \/ \E s \in Starts : Select(s)
           \/ CheckControl /\ ~EnsureActive
           \/ Check /\ ~EnsureActive
           \/ ReadPage /\ Listed # {} /\ sent + 1 \notin Listed
           \/ TailGap
           \/ \E lost \in SUBSET mail : Lag(lost) /\ sent + 1 \notin Listed
    PROVE  ViewInv'
<1>1. Fail /\ UNCHANGED <<accessVars, streamVars, keys>>
  BY DEF ReadUntilExpiry, Disconnect, ReadTimeout, Select, CheckControl, Check, ReadPage, TailGap, Lag
<1>2. start' \in Starts /\ faults' \in 0..MaxFaults
  BY SessionAssumption
     DEF ReadUntilExpiry, Disconnect, ReadTimeout, Select, CheckControl, Check, ReadPage, TailGap, Lag,
         ViewInv, ViewTypes, TypeOK
<1>3. /\ last' \in 0..MaxSequence /\ joined' \in 1..MaxSequence + 1
      /\ played' \subseteq 1..MaxSequence /\ joined'..last' \subseteq played'
  <2>1. 0 \in 0..MaxSequence /\ 1 \in 1..MaxSequence + 1 /\ 1..0 = {}
    BY SessionAssumption
  <2>2. UNCHANGED progress \/ (last' = 0 /\ joined' = 1 /\ played' = {})
    BY DEF ReadUntilExpiry, Disconnect, ReadTimeout, Select, CheckControl, Check, ReadPage, TailGap,
           Lag
  <2>3. CASE UNCHANGED progress
    BY <2>3 DEF ViewInv, ViewTypes, TypeOK, NoSilentSkip, progress
  <2>4. QED
    BY <2>1, <2>2, <2>3
<1>4. keys' \in Seq(Groups) /\ Len(keys') <= MaxKeys
  BY <1>1 DEF ViewInv, ViewTypes, TypeOK
<1>5. QED
  BY <1>1, <1>2, <1>3, <1>4, FailKeeps

\* Connecting, and the steps of the subscription's loop that write nothing.
LEMMA LoopKeeps ==
    ASSUME ViewInv,
           \/ Connect \/ CheckControl \/ ReadPage \/ Check \/ PolicyTick \/ TailGap
           \/ \E lost \in SUBSET mail : Lag(lost)
    PROVE  ViewInv'
<1> USE DEF Phases, Streaming
<1>1. high \in Nat /\ sent \in Nat /\ faults \in 0..MaxFaults /\ page \in 0..MaxSequence
      /\ high \in 0..MaxSequence /\ 0 \in 0..MaxSequence
  BY SessionAssumption DEF ViewInv, ViewTypes, TypeOK
<1>2. CASE Connect
  BY <1>1, <1>2, PhaseKeeps DEF Connect, Welcomed
<1>3. CASE CheckControl
  <2>1. CASE EnsureActive
    BY <1>1, <1>3, <2>1, PhaseKeeps DEF CheckControl, playVars, progress
  <2>2. QED
    BY <1>3, <2>1, EndKeeps
<1>4. CASE ReadPage
  <2>1. CASE ~(Listed # {} /\ sent + 1 \notin Listed)
    <3>1. /\ phase' = IF Listed # {} THEN "replay" ELSE "check"
          /\ page' = IF Listed # {} THEN high ELSE 0
      BY <1>4, <2>1 DEF ReadPage
    <3>2. phase = "read"
          /\ UNCHANGED <<accessVars, streamVars, keys, start, playVars, opened, sent, sentKey, late,
                         mail, faults>>
      BY <1>4, <2>1 DEF ReadPage, playVars
    <3>3. Listed # {} => sent < high
      BY <1>1, <2>1 DEF Listed
    <3>4. QED
      BY <1>1, <3>1, <3>2, <3>3, PhaseKeeps
  <2>2. QED
    BY <1>4, <2>1, EndKeeps
<1>5. CASE Check
  <2>1. CASE EnsureActive
    BY <1>1, <1>5, <2>1, PhaseKeeps DEF Check, playVars, progress
  <2>2. QED
    BY <1>5, <2>1, EndKeeps
<1>6. CASE PolicyTick
  BY <1>1, <1>6, PhaseKeeps DEF PolicyTick
<1>7. ASSUME NEW lost \in SUBSET mail, Lag(lost) PROVE ViewInv'
  <2>1. CASE sent + 1 \in Listed
    <3>1. faults' \in 0..MaxFaults
      BY <1>1, <1>7, SessionAssumption DEF Lag
    <3>2. sent < high
      BY <1>1, <2>1 DEF Listed
    <3>3. QED
      BY <1>1, <1>7, <2>1, <3>1, <3>2, PhaseKeeps DEF Lag, playVars
  <2>2. QED
    BY <1>7, <2>1, EndKeeps
<1>8. CASE TailGap
  BY <1>8, EndKeeps
<1>9. QED
  BY <1>2, <1>3, <1>4, <1>5, <1>6, <1>7, <1>8

\* A change of the clock, the file or the list in force.
LEMMA PolicyKeeps ==
    ASSUME ViewInv, Policy
    PROVE  ViewInv'
<1>1. UNCHANGED <<streamVars, relayVars, keys, start, playVars, faults>>
      /\ late' = IF EnsureActive' THEN 0 ELSE late
  BY DEF Policy
<1>2. AccessTypeOK'
  BY AccessAssumption DEF ViewInv, ViewTypes, TypeOK, AccessTypeOK, Policy, AccessNext, Advance,
     Reload, ReplaceRevocations, ReplaceFile
<1>3. late' \in Nat /\ (late' > 0 => late' = late /\ ~EnsureActive')
  BY <1>1 DEF ViewInv, ViewTypes, TypeOK
<1>4. ViewTypes'
  BY <1>1, <1>2, <1>3 DEF ViewInv, ViewTypes, TypeOK, streamVars, relayVars, playVars, progress
<1>5. StreamShape' /\ QueueIsRun' /\ ReplayHasMore' /\ NoSilentSkip'
  BY <1>1 DEF ViewInv, StreamShape, QueueIsRun, Streaming, ReplayHasMore, NoSilentSkip,
              streamVars, relayVars, playVars, progress
<1>6. LateIsLast'
  BY <1>1, <1>3 DEF ViewInv, LateIsLast, relayVars
<1>7. QED
  BY <1>4, <1>5, <1>6 DEF ViewInv

\* A refresh of the inbox beside the subscription.
LEMMA RefreshKeeps ==
    ASSUME ViewInv, NEW g \in Groups, Refresh(g)
    PROVE  ViewInv'
<1>1. keys' \in Seq(Groups) /\ Len(keys') <= MaxKeys
  BY InsertType DEF ViewInv, ViewTypes, TypeOK, Refresh
<1>2. Range(keys') \subseteq Groups
  BY <1>1, RangeInSet
<1>3. UNCHANGED <<accessVars, streamVars, relayVars, start, playVars, late, faults>>
  BY DEF Refresh
<1>4. ViewTypes'
  BY <1>1, <1>2, <1>3 DEF ViewInv, ViewTypes, TypeOK, AccessTypeOK, accessVars, streamVars,
                          relayVars, playVars, progress
<1>5. StreamShape' /\ QueueIsRun' /\ ReplayHasMore' /\ NoSilentSkip'
  BY <1>3 DEF ViewInv, StreamShape, QueueIsRun, Streaming, ReplayHasMore, NoSilentSkip,
              streamVars, relayVars, playVars, progress
<1>6. LateIsLast'
  BY <1>3 DEF ViewInv, LateIsLast, EnsureActive, NotRevoked, ListVerifies, accessVars, relayVars
<1>7. QED
  BY <1>4, <1>5, <1>6 DEF ViewInv

\* subscription_anchor: replay begins at a retained group or at the live edge,
\* and never after the object the viewer asks for unless that was evicted.
LEMMA AnchorBounds ==
    ASSUME ViewInv
    PROVE  /\ Anchor \in 1..high + 1
           /\ last # 0 /\ Anchor > last + 1 => last + 1 < First(oldest)
<1> DEFINE before == {f \in GroupStarts : f <= last + 1}
<1>1. high \in Nat /\ last \in Nat /\ start \in {"live", "oldest"}
  BY SessionAssumption DEF ViewInv, ViewTypes, TypeOK
<1>2. CASE high = 0
  BY <1>1, <1>2 DEF Anchor, AnchorAt
<1>3. CASE high # 0
  <2>1. high > 0 /\ high \in Nat \ {0}
    BY <1>1, <1>3
  <2>2. Group(high) \in Nat /\ First(Group(high)) \in 1..high
    BY <2>1, FirstOfGroup
  <2>3. oldest \in Nat /\ oldest <= Group(high) + 1
    BY <1>3, <2>2 DEF ViewInv, StreamShape
  <2>4. \A g \in Nat : First(g) \in Nat \ {0}
    BY SessionAssumption, TimesNext DEF First
  <2>5. GroupStarts \subseteq 1..high
    <3> SUFFICES ASSUME NEW g \in oldest..Group(high) PROVE First(g) \in 1..high
      BY DEF GroupStarts
    <3>1. g \in Nat /\ g <= Group(high)
      BY <2>2, <2>3
    <3>2. QED
      BY <2>1, <2>4, <3>1, GroupReached
  <2>6. oldest <= Group(high) => First(oldest) \in GroupStarts /\ First(oldest) \in 1..high
    <3>1. oldest <= Group(high) => First(oldest) \in GroupStarts
      BY <2>2, <2>3 DEF GroupStarts
    <3>2. QED
      BY <2>5, <3>1
  <2>7. before # {} => Max(before) \in before
    <3>1. 1..high \subseteq 0..high /\ before \subseteq GroupStarts
      BY <1>1
    <3>2. before \subseteq 0..high
      BY <2>5, <3>1, Zenon
    <3>3. QED
      BY <1>1, <3>2, MaxInSet
  <2>8. CASE last = 0
    <3>1. Resume \in {"live", "oldest"} /\ Resume = start
      BY <1>1, <2>8 DEF Resume
    <3>2. OldestComplete => oldest <= Group(high)
      BY <2>2, <2>3 DEF OldestComplete
    <3>3. \/ Anchor = First(Group(high)) \/ Anchor = high + 1
          \/ Anchor = First(oldest) /\ oldest <= Group(high)
      BY <2>1, <3>1, <3>2 DEF Anchor, AnchorAt
    <3>4. Anchor \in 1..high + 1
      BY <1>1, <2>2, <2>6, <3>3
    <3>5. QED
      BY <2>8, <3>4
  <2>9. CASE last # 0
    <3>1. Resume = "sequence"
      BY <2>9 DEF Resume
    <3>2. Anchor = IF before = {} THEN high + 1 ELSE Max(before)
      BY <2>1, <3>1 DEF Anchor, AnchorAt
    <3>3. before \subseteq GroupStarts /\ \A f \in before : f <= last + 1
      OBVIOUS
    <3>4. First(oldest) \in GroupStarts /\ First(oldest) <= last + 1 => before # {}
      OBVIOUS
    <3> HIDE DEF before
    <3>5. Anchor \in 1..high + 1
      BY <1>1, <2>5, <2>7, <3>2, <3>3
    <3>6. ASSUME Anchor > last + 1 PROVE last + 1 < First(oldest)
      <4>1. before = {}
        <5>1. CASE before # {}
          <6>1. Anchor \in before
            BY <2>7, <3>2, <5>1
          <6>2. Anchor <= last + 1
            BY <3>3, <6>1
          <6>3. QED
            BY <1>1, <3>5, <3>6, <6>2
        <5>2. QED
          BY <5>1
      <4>2. First(oldest) \in Nat
        BY <2>3, <2>4
      <4>3. CASE oldest <= Group(high)
        BY <1>1, <2>6, <3>4, <4>1, <4>2, <4>3
      <4>4. CASE ~(oldest <= Group(high))
        <5>1. ~(First(oldest) <= high)
          BY <2>1, <2>3, <4>4, GroupReached
        <5>2. last < high
          BY <1>1, <3>2, <3>6, <4>1
        <5>3. QED
          BY <1>1, <4>2, <5>1, <5>2
      <4>5. QED
        BY <4>3, <4>4
    <3>7. QED
      BY <3>5, <3>6
  <2>10. QED
    BY <2>8, <2>9
<1>4. QED
  BY <1>2, <1>3

\* A subscription begins with an empty queue at the anchor: right after what
\* was played, or before, or where a new run begins.
LEMMA SubscribeKeeps ==
    ASSUME ViewInv, Subscribe
    PROVE  ViewInv'
<1>1. /\ phase = "command" /\ phase' = "read" /\ opened' = high /\ sent' = Anchor - 1
      /\ sentKey' = -1 /\ mail' = {} /\ pending' = <<>> /\ epochSeen' = FALSE
      /\ UNCHANGED <<accessVars, streamVars, page, start, last, late, faults>>
  BY DEF Subscribe, NewPlayer
<1>2. /\ high \in 0..MaxSequence /\ MaxSequence \in Nat /\ last \in 0..MaxSequence
      /\ joined \in 1..MaxSequence + 1 /\ played \subseteq 1..MaxSequence
      /\ joined..last \subseteq played
  BY SessionAssumption DEF ViewInv, ViewTypes, TypeOK, NoSilentSkip
<1>3. Anchor \in Nat /\ Anchor \in 1..MaxSequence + 1 /\ Anchor - 1 \in 0..MaxSequence
  BY <1>2, AnchorBounds
<1>4. /\ joined' \in 1..MaxSequence + 1 /\ played' \subseteq 1..MaxSequence
      /\ joined'..last' \subseteq played' /\ joined'..sent' \subseteq played'
  <2>1. CASE last = 0 \/ Anchor > last + 1
    <3>1. joined' = Anchor /\ played' = {} /\ last' = last /\ sent' = Anchor - 1
      BY <1>1, <2>1 DEF Subscribe
    <3>2. Anchor..last = {} /\ Anchor..Anchor - 1 = {}
      BY <1>2, <1>3, <2>1
    <3>3. QED
      BY <1>3, <3>1, <3>2
  <2>2. CASE ~(last = 0 \/ Anchor > last + 1)
    <3>1. joined' = joined /\ played' = played /\ last' = last /\ sent' = Anchor - 1
      BY <1>1, <2>2 DEF Subscribe
    <3>2. joined..Anchor - 1 \subseteq joined..last
      BY <1>2, <1>3, <2>2
    <3>3. QED
      BY <1>2, <3>1, <3>2
  <2>3. QED
    BY <2>1, <2>2
<1>5. keys' \in Seq(Groups) /\ Len(keys') <= MaxKeys
  <2>1. keys \in Seq(Groups) /\ Len(keys) <= MaxKeys
    BY DEF ViewInv, ViewTypes, TypeOK
  <2>2. CASE high > 0
    <3>1. Group(high) \in Groups
      BY <1>2, <2>2 DEF Groups
    <3>2. QED
      BY <2>1, <3>1, InsertType DEF Subscribe
  <2>3. CASE ~(high > 0)
    BY <2>1, <2>3 DEF Subscribe
  <2>4. QED
    BY <2>2, <2>3
<1>6. pending' \in Seq(1..MaxSequence) /\ Len(pending') = 0
  BY <1>1, EmptySeq
<1>7. Range(keys') \subseteq Groups /\ Range(pending') \subseteq 1..MaxSequence
  BY <1>5, <1>6, RangeInSet
<1>8. sent' \in 0..MaxSequence /\ sent' - Len(pending') = sent'
  BY <1>1, <1>3, <1>6
<1>9. TypeOK'
  <2>1. phase' \in Phases /\ epochSeen' \in BOOLEAN
    BY <1>1, Zenon DEF Phases
  <2>2. AccessTypeOK' /\ UNCHANGED <<high, oldest, keyed, ended>> /\ 0 <= MaxPending
    BY <1>1, SessionAssumption DEF ViewInv, ViewTypes, TypeOK, AccessTypeOK, accessVars, streamVars
  <2>3. QED
    BY <1>1, <1>2, <1>4, <1>5, <1>6, <1>7, <1>8, <2>1, <2>2 DEF ViewInv, ViewTypes, TypeOK
<1>10. QueueIsRun'
  BY <1>1, <1>4, <1>6, <1>8 DEF QueueIsRun, Streaming
<1>11. StreamShape' /\ ReplayHasMore' /\ NoSilentSkip'
  BY <1>1, <1>4 DEF ViewInv, StreamShape, ReplayHasMore, NoSilentSkip, streamVars
<1>12. LateIsLast'
  BY <1>1 DEF ViewInv, LateIsLast
<1>13. QED
  BY <1>5, <1>6, <1>9, <1>10, <1>11, <1>12 DEF ViewInv, ViewTypes

\* What was played so far, and the queue after it.
LEMMA QueueNow ==
    ASSUME ViewInv, Streaming
    PROVE  /\ sent - Len(pending) \in Nat /\ joined..sent - Len(pending) \subseteq played
           /\ sent = sent - Len(pending) + Len(pending)
           /\ pending \in Seq(1..MaxSequence)
           /\ \A i \in 1..Len(pending) : pending[i] = sent - Len(pending) + i
<1>1. pending \in Seq(1..MaxSequence) /\ sent \in Nat /\ Len(pending) \in Nat
  BY SessionAssumption, LenProperties DEF ViewInv, ViewTypes, TypeOK
<1>2. /\ Len(pending) <= sent /\ joined..sent - Len(pending) \subseteq played
      /\ \A i \in 1..Len(pending) : pending[i] = sent - Len(pending) + i
  BY DEF ViewInv, QueueIsRun
<1>3. QED
  BY <1>1, <1>2

\* The next object prolongs the run.
LEMMA QueueNext ==
    ASSUME NEW p \in Seq(1..MaxSequence), NEW base \in Nat, NEW n \in 1..MaxSequence,
           n = base + Len(p) + 1, \A i \in 1..Len(p) : p[i] = base + i
    PROVE  /\ Append(p, n) \in Seq(1..MaxSequence) /\ Len(Append(p, n)) = Len(p) + 1
           /\ n = base + Len(Append(p, n))
           /\ \A i \in 1..Len(Append(p, n)) : Append(p, n)[i] = base + i
<1>1. /\ Append(p, n) \in Seq(1..MaxSequence) /\ Len(Append(p, n)) = Len(p) + 1
      /\ \A i \in 1..Len(p) : Append(p, n)[i] = p[i]
      /\ Append(p, n)[Len(p) + 1] = n
  BY AppendProperties
<1>2. Len(p) \in Nat
  BY LenProperties
<1>3. \A i \in 1..Len(p) + 1 : i \in 1..Len(p) \/ i = Len(p) + 1
  BY <1>2
<1>4. \A i \in 1..Len(p) + 1 : Append(p, n)[i] = base + i
  BY <1>1, <1>2, <1>3
<1>5. QED
  BY <1>1, <1>2, <1>4

\* A successful drain after a message, while the subscription goes on.
LEMMA PlayedKeeps ==
    ASSUME ViewInv, NEW queue \in Seq(1..MaxSequence), NEW cache, NEW base \in Nat,
           \A i \in 1..Len(queue) : queue[i] = base + i, joined..base \subseteq played,
           Len(queue) <= MaxPending, DrainedBy(queue, cache), sent' = base + Len(queue),
           sent' \in 0..MaxSequence, phase' \in {"replay", "check"},
           UNCHANGED <<accessVars, streamVars, opened, start, faults>>,
           keys' \in Seq(Groups), Len(keys') <= MaxKeys, epochSeen' \in BOOLEAN,
           mail' \subseteq Groups, page' \in 0..MaxSequence, sentKey' \in Groups \cup {-1},
           phase' = "replay" => sent' < page' /\ page' <= high, late' \in Nat, LateIsLast'
    PROVE  ViewInv'
<1>1. /\ joined \in 1..MaxSequence + 1 /\ joined \in Nat /\ last \in 0..MaxSequence
      /\ played \subseteq 1..MaxSequence /\ joined..last \subseteq played
  BY SessionAssumption DEF ViewInv, ViewTypes, TypeOK, NoSilentSkip
<1>2. /\ last' \in 0..MaxSequence /\ played' \subseteq 1..MaxSequence
      /\ joined'..last' \subseteq played'
      /\ pending' \in Seq(1..MaxSequence) /\ Len(pending') <= Len(queue)
      /\ Len(pending') <= sent' /\ joined'..sent' - Len(pending') \subseteq played'
      /\ \A i \in 1..Len(pending') : pending'[i] = sent' - Len(pending') + i
  BY <1>1, DrainedQueue
<1>3. Len(pending') <= MaxPending
  BY <1>2, LenProperties, SessionAssumption
<1>4. Range(keys') \subseteq Groups /\ Range(pending') \subseteq 1..MaxSequence
  BY <1>2, RangeInSet
<1>5. AccessTypeOK' /\ UNCHANGED <<high, oldest, keyed, ended>> /\ phase' \in Phases
  BY DEF ViewInv, ViewTypes, TypeOK, AccessTypeOK, accessVars, streamVars, Phases
<1>6. ViewTypes'
  <2>1. joined' = joined /\ epochSeen' \in BOOLEAN
    BY DEF DrainedBy
  <2>2. QED
    BY <1>1, <1>2, <1>3, <1>4, <1>5, <2>1 DEF ViewInv, ViewTypes, TypeOK
<1>7. QueueIsRun'
  BY <1>2 DEF QueueIsRun, Streaming
<1>8. StreamShape' /\ ReplayHasMore' /\ NoSilentSkip'
  BY <1>2, <1>5 DEF ViewInv, StreamShape, ReplayHasMore, NoSilentSkip
<1>9. QED
  BY <1>6, <1>7, <1>8 DEF ViewInv

\* A drain that fails while the keys are as they should be.
LEMMA PlayFails ==
    ASSUME ViewInv, Fail, UNCHANGED <<accessVars, streamVars, start, faults, progress>>,
           keys' \in Seq(Groups), Len(keys') <= MaxKeys
    PROVE  ViewInv'
<1>1. start' \in Starts /\ faults' \in 0..MaxFaults
  BY DEF ViewInv, ViewTypes, TypeOK
<1>2. /\ last' \in 0..MaxSequence /\ joined' \in 1..MaxSequence + 1
      /\ played' \subseteq 1..MaxSequence /\ joined'..last' \subseteq played'
  BY DEF ViewInv, ViewTypes, TypeOK, NoSilentSkip, progress
<1>3. QED
  BY <1>1, <1>2, FailKeeps

\* An object of a replay or of the live tail, played or queued.
LEMMA ObjectKeeps ==
    ASSUME ViewInv, Streaming, NEW n \in 1..MaxSequence, n = sent + 1,
           Len(pending) + 1 <= MaxPending, DrainedBy(Append(pending, n), keys), sent' = n,
           phase' \in {"replay", "check"},
           UNCHANGED <<accessVars, streamVars, opened, keys, start, faults>>, epochSeen' \in BOOLEAN,
           mail' \subseteq Groups, page' \in 0..MaxSequence, sentKey' \in Groups \cup {-1},
           phase' = "replay" => sent' < page' /\ page' <= high, late' \in Nat, LateIsLast'
    PROVE  ViewInv'
<1> DEFINE base == sent - Len(pending)
           queue == Append(pending, n)
<1>1. /\ base \in Nat /\ joined..base \subseteq played /\ sent = base + Len(pending)
      /\ pending \in Seq(1..MaxSequence)
      /\ \A i \in 1..Len(pending) : pending[i] = base + i
  BY QueueNow
<1> HIDE DEF base
<1>2. n = base + Len(pending) + 1
  BY <1>1, Zenon
<1>3. /\ queue \in Seq(1..MaxSequence) /\ Len(queue) = Len(pending) + 1
      /\ n = base + Len(queue)
      /\ \A i \in 1..Len(queue) : queue[i] = base + i
  BY <1>1, <1>2, QueueNext
<1>4. Len(queue) <= MaxPending /\ DrainedBy(queue, keys)
  BY <1>3
<1>5. keys' \in Seq(Groups) /\ Len(keys') <= MaxKeys /\ sent' \in 0..MaxSequence
  BY SessionAssumption DEF ViewInv, ViewTypes, TypeOK
<1>6. sent' = base + Len(queue)
  BY <1>3
<1> HIDE DEF queue
<1>7. QED
  BY <1>1, <1>3, <1>4, <1>5, <1>6, PlayedKeeps

\* A key of a replay or of the live tail: what waited for it is played.
LEMMA EnvelopeKeeps ==
    ASSUME ViewInv, Streaming, DrainedBy(pending, keys'), sent' = sent,
           phase' \in {"replay", "check"},
           UNCHANGED <<accessVars, streamVars, opened, start, faults>>,
           keys' \in Seq(Groups), Len(keys') <= MaxKeys, epochSeen' \in BOOLEAN,
           mail' \subseteq Groups, page' \in 0..MaxSequence, sentKey' \in Groups \cup {-1},
           phase' = "replay" => sent' < page' /\ page' <= high, late' \in Nat, LateIsLast'
    PROVE  ViewInv'
<1> DEFINE base == sent - Len(pending)
<1>1. /\ base \in Nat /\ joined..base \subseteq played /\ sent = base + Len(pending)
      /\ pending \in Seq(1..MaxSequence)
      /\ \A i \in 1..Len(pending) : pending[i] = base + i
  BY QueueNow
<1> HIDE DEF base
<1>2. Len(pending) <= MaxPending /\ sent' \in 0..MaxSequence
  BY DEF ViewInv, ViewTypes, TypeOK
<1>3. sent' = base + Len(pending)
  BY <1>1
<1>4. QED
  BY <1>1, <1>2, <1>3, PlayedKeeps

\* Reading a stored object or its group's key.
LEMMA ReplayKeeps ==
    ASSUME ViewInv, ReplayEnvelope \/ \E n \in 1..MaxSequence : ReplayObject(n)
    PROVE  ViewInv'
<1>1. phase = "replay" /\ Streaming
  BY DEF ReplayEnvelope, ReplayObject, Streaming
<1>2. late = 0 /\ sent < page /\ page <= high
  BY <1>1 DEF ViewInv, LateIsLast, ReplayHasMore, ViewTypes, TypeOK
<1>3. /\ sent \in 0..MaxSequence /\ page \in 0..MaxSequence /\ high \in 0..MaxSequence
      /\ keys \in Seq(Groups) /\ Len(keys) <= MaxKeys /\ mail \subseteq Groups
      /\ sentKey \in Groups \cup {-1} /\ epochSeen \in BOOLEAN /\ MaxSequence \in Nat
  BY SessionAssumption DEF ViewInv, ViewTypes, TypeOK
<1>4. CASE ReplayEnvelope
  <2> DEFINE g == Group(sent + 1)
  <2>1. g \in Groups
    BY <1>2, <1>3 DEF Groups
  <2>2. UNCHANGED <<accessVars, streamVars, start, faults>>
    BY <1>4 DEF ReplayEnvelope
  <2>3. CASE g \notin keyed
    <3>1. sentKey' = g /\ UNCHANGED <<phase, opened, sent, page, mail, late, keys, playVars>>
      BY <1>4, <2>3 DEF ReplayEnvelope
    <3>2. ViewTypes'
      BY <2>1, <2>2, <3>1 DEF ViewInv, ViewTypes, TypeOK, AccessTypeOK, accessVars, streamVars,
                              playVars, progress
    <3>3. StreamShape' /\ QueueIsRun' /\ ReplayHasMore' /\ NoSilentSkip'
      BY <2>2, <3>1 DEF ViewInv, StreamShape, QueueIsRun, Streaming, ReplayHasMore,
                        NoSilentSkip, streamVars, playVars, progress
    <3>4. LateIsLast'
      BY <1>2, <3>1 DEF LateIsLast
    <3>5. QED
      BY <3>2, <3>3, <3>4 DEF ViewInv
  <2>4. CASE g \in keyed
    <3>1. keys' = Insert(keys, g)
      BY <1>4, <2>4 DEF ReplayEnvelope, HandleEnvelope
    <3>2. keys' \in Seq(Groups) /\ Len(keys') <= MaxKeys
      BY <1>3, <2>1, <3>1, InsertType
    <3>3. \/ /\ DrainedBy(pending, keys')
             /\ sentKey' = g /\ UNCHANGED <<phase, opened, sent, page, mail, late>>
          \/ Fail /\ UNCHANGED progress
      BY <1>4, <2>4 DEF ReplayEnvelope, HandleEnvelope, Drain, DrainedBy
    <3>4. CASE Fail /\ UNCHANGED progress
      BY <2>2, <3>2, <3>4, PlayFails
    <3>5. CASE /\ DrainedBy(pending, keys')
               /\ sentKey' = g /\ UNCHANGED <<phase, opened, sent, page, mail, late>>
      <4>1. epochSeen' \in BOOLEAN
        BY <3>5 DEF DrainedBy
      <4>2. LateIsLast' /\ late' \in Nat
        BY <1>2, <3>5 DEF LateIsLast
      <4>3. sentKey' \in Groups \cup {-1} /\ page' \in 0..MaxSequence /\ mail' \subseteq Groups
            /\ phase' \in {"replay", "check"} /\ sent' < page' /\ page' <= high
        BY <1>1, <1>2, <1>3, <2>1, <3>5
      <4>4. QED
        BY <1>1, <2>2, <3>2, <3>5, <4>1, <4>2, <4>3, EnvelopeKeeps
    <3>6. QED
      BY <3>3, <3>4, <3>5
  <2>5. QED
    BY <2>3, <2>4
<1>5. ASSUME NEW n \in 1..MaxSequence, ReplayObject(n) PROVE ViewInv'
  <2>1. n = sent + 1 /\ UNCHANGED <<accessVars, streamVars, keys, start, faults>>
    BY <1>5 DEF ReplayObject, HandleObject
  <2>2. \/ Fail /\ UNCHANGED progress
        \/ /\ Len(pending) + 1 <= MaxPending
           /\ DrainedBy(Append(pending, n), keys)
           /\ sent' = n /\ UNCHANGED <<opened, mail, late>>
           /\ IF n < page THEN UNCHANGED <<phase, page, sentKey>>
              ELSE phase' = "check" /\ page' = 0 /\ sentKey' = -1
    BY <1>5 DEF ReplayObject, HandleObject, Drain, DrainedBy
  <2>3. CASE Fail /\ UNCHANGED progress
    BY <1>3, <2>1, <2>3, PlayFails
  <2>4. CASE /\ Len(pending) + 1 <= MaxPending
             /\ DrainedBy(Append(pending, n), keys)
             /\ sent' = n /\ UNCHANGED <<opened, mail, late>>
             /\ IF n < page THEN UNCHANGED <<phase, page, sentKey>>
                ELSE phase' = "check" /\ page' = 0 /\ sentKey' = -1
    <3>1. epochSeen' \in BOOLEAN
      BY <2>4 DEF DrainedBy
    <3>2. LateIsLast' /\ late' \in Nat
      BY <1>2, <2>4 DEF LateIsLast
    <3>3. sentKey' \in Groups \cup {-1} /\ page' \in 0..MaxSequence /\ mail' \subseteq Groups
          /\ phase' \in {"replay", "check"} /\ (phase' = "replay" => sent' < page' /\ page' <= high)
      BY <1>1, <1>2, <1>3, <2>4
    <3>4. Len(pending) + 1 <= MaxPending
      BY <2>4, LenProperties, SessionAssumption DEF ViewInv, ViewTypes
    <3>5. QED
      BY <1>1, <2>1, <2>4, <3>1, <3>2, <3>3, <3>4, ObjectKeeps
  <2>5. QED
    BY <2>2, <2>3, <2>4
<1>6. QED
  BY <1>4, <1>5

\* A live item is written after a check that found the credential in order: if
\* it no longer is, the item is the first late one and a check comes next.
LEMMA WrittenIsLast ==
    ASSUME ViewInv, phase = "wait", Written, UNCHANGED accessVars
    PROVE  /\ phase' = "check" /\ UNCHANGED <<opened, page, sentKey>>
           /\ late' \in Nat /\ LateIsLast'
<1>1. late = 0
  BY DEF ViewInv, LateIsLast, ViewTypes, TypeOK
<1>2. phase' = "check" /\ UNCHANGED <<opened, page, sentKey>> /\ late' = IF EnsureActive THEN 0 ELSE 1
  BY <1>1 DEF Written
<1>3. EnsureActive' <=> EnsureActive
  BY DEF EnsureActive, NotRevoked, ListVerifies, accessVars
<1>4. QED
  BY <1>2, <1>3 DEF LateIsLast

\* Reading an item from the live receiver.
LEMMA TailKeeps ==
    ASSUME ViewInv,
           \/ \E n \in 1..MaxSequence : TailObject(n)
           \/ \E g \in Groups : TailEnvelope(g)
    PROVE  ViewInv'
<1>1. phase = "wait" /\ Streaming
  BY DEF TailObject, TailEnvelope, Streaming
<1>2. /\ page \in 0..MaxSequence /\ sentKey \in Groups \cup {-1} /\ mail \subseteq Groups
      /\ keys \in Seq(Groups) /\ Len(keys) <= MaxKeys /\ epochSeen \in BOOLEAN
  BY DEF ViewInv, ViewTypes, TypeOK
<1>3. ASSUME NEW n \in 1..MaxSequence, TailObject(n) PROVE ViewInv'
  <2>1. n = sent + 1 /\ UNCHANGED <<accessVars, streamVars, keys, start, faults>>
    BY <1>3 DEF TailObject, HandleObject
  <2>2. \/ Fail /\ UNCHANGED progress
        \/ /\ Len(pending) + 1 <= MaxPending
           /\ DrainedBy(Append(pending, n), keys)
           /\ Written /\ sent' = n /\ UNCHANGED mail
    BY <1>3 DEF TailObject, HandleObject, Drain, DrainedBy
  <2>3. CASE Fail /\ UNCHANGED progress
    BY <1>2, <2>1, <2>3, PlayFails
  <2>4. CASE /\ Len(pending) + 1 <= MaxPending
             /\ DrainedBy(Append(pending, n), keys)
             /\ Written /\ sent' = n /\ UNCHANGED mail
    <3>1. epochSeen' \in BOOLEAN
      BY <2>4 DEF DrainedBy
    <3>2. /\ phase' = "check" /\ UNCHANGED <<opened, page, sentKey>>
          /\ late' \in Nat /\ LateIsLast'
      BY <1>1, <2>1, <2>4, WrittenIsLast
    <3>3. Len(pending) + 1 <= MaxPending
      BY <2>4, LenProperties, SessionAssumption DEF ViewInv, ViewTypes
    <3>4. QED
      BY <1>1, <1>2, <2>1, <2>4, <3>1, <3>2, <3>3, ObjectKeeps
  <2>5. QED
    BY <2>2, <2>3, <2>4
<1>4. ASSUME NEW g \in Groups, TailEnvelope(g) PROVE ViewInv'
  <2>1. keys' = Insert(keys, g) /\ UNCHANGED <<accessVars, streamVars, start, faults>>
    BY <1>4 DEF TailEnvelope, HandleEnvelope
  <2>2. keys' \in Seq(Groups) /\ Len(keys') <= MaxKeys
    BY <1>2, <2>1, InsertType
  <2>3. \/ /\ DrainedBy(pending, keys')
           /\ Written /\ mail' = mail \ {g} /\ UNCHANGED sent
        \/ Fail /\ UNCHANGED progress
    BY <1>4 DEF TailEnvelope, HandleEnvelope, Drain, DrainedBy
  <2>4. CASE Fail /\ UNCHANGED progress
    BY <2>1, <2>2, <2>4, PlayFails
  <2>5. CASE /\ DrainedBy(pending, keys')
             /\ Written /\ mail' = mail \ {g} /\ UNCHANGED sent
    <3>1. epochSeen' \in BOOLEAN
      BY <2>5 DEF DrainedBy
    <3>2. /\ phase' = "check" /\ UNCHANGED <<opened, page, sentKey>>
          /\ late' \in Nat /\ LateIsLast'
      BY <1>1, <2>1, <2>5, WrittenIsLast
    <3>3. QED
      BY <1>1, <1>2, <2>1, <2>2, <2>5, <3>1, <3>2, EnvelopeKeeps
  <2>6. QED
    BY <2>3, <2>4, <2>5
<1>5. QED
  BY <1>3, <1>4

\* Every step of the relay, the viewer and the policy preserves the invariant.
LEMMA ViewStep == ViewInv /\ [Next]_vars => ViewInv'
<1> SUFFICES ASSUME ViewInv, [Next]_vars PROVE ViewInv'
  OBVIOUS
<1>1. CASE Policy
  BY <1>1, PolicyKeeps
<1>2. CASE Publish \/ Finalize \/ Evict \/ \E g \in Groups : StoreKey(g)
  BY <1>2, StreamKeeps
<1>3. ASSUME NEW g \in Groups, Refresh(g) PROVE ViewInv'
  BY <1>3, RefreshKeeps
<1>4. CASE \/ \E s \in Starts : Select(s)
           \/ ReadUntilExpiry \/ Disconnect \/ ReadTimeout
  BY <1>4, EndKeeps
<1>5. CASE Connect \/ CheckControl
  BY <1>5, LoopKeeps
<1>6. CASE Subscribe
  BY <1>6, SubscribeKeeps
<1>7. CASE Receive
  BY <1>7, LoopKeeps, ReplayKeeps, TailKeeps DEF Receive
<1>8. CASE UNCHANGED vars
  <2>1. ViewTypes'
    BY <1>8 DEF ViewInv, ViewTypes, TypeOK, AccessTypeOK, vars, accessVars, streamVars,
                relayVars, playVars, progress
  <2>2. StreamShape' /\ QueueIsRun' /\ ReplayHasMore' /\ NoSilentSkip'
    BY <1>8 DEF ViewInv, StreamShape, QueueIsRun, Streaming, ReplayHasMore, NoSilentSkip, vars,
                streamVars, relayVars, playVars, progress
  <2>3. LateIsLast'
    BY <1>8 DEF ViewInv, LateIsLast, EnsureActive, NotRevoked, ListVerifies, vars, accessVars,
                relayVars
  <2>4. QED
    BY <2>1, <2>2, <2>3 DEF ViewInv
<1>9. QED
  BY <1>1, <1>2, <1>3, <1>4, <1>5, <1>6, <1>7, <1>8 DEF Next

\* The inductive invariant holds in every state a viewer's session reaches.
LEMMA ViewAlways == Spec => []ViewInv
<1>1. QED
  BY ViewInit, ViewStep, PTL DEF Spec

-----------------------------------------------------------------------------
(* What a session promises *)

(* Types of the relay's and the viewer's state: the key cache and the queue  *)
(* stay within MAX_CACHED_KEYS and MAX_PENDING_OBJECTS, and what they hold   *)
(* are keys and objects of the stream.                                       *)
THEOREM ViewerTypes == Spec => []TypeOK
<1>1. ViewInv => TypeOK
  BY DEF ViewInv, ViewTypes
<1>2. QED
  BY <1>1, ViewAlways, PTL

(* Nothing is skipped silently: within a run of playing, every object from   *)
(* the one it began at to last_decrypted was played, whatever was received   *)
(* without its key, lost with a connection and asked for again (subscribe,   *)
(* drain_pending_objects).                                                   *)
THEOREM ViewerSkipsNothing == Spec => []NoSilentSkip
<1>1. ViewInv => NoSilentSkip
  BY DEF ViewInv
<1>2. QED
  BY <1>1, ViewAlways, PTL

(* A run is broken off only where it must be: by a selection, or when a      *)
(* resume after last_decrypted finds the next object evicted from the relay  *)
(* (subscribe, subscription_anchor).  A resume within the newest group, or   *)
(* in any group still retained, goes on with the run.                        *)
THEOREM ViewerJumpsOnlyPastEviction == Spec => JumpsOnlyPastEviction
<1> DEFINE Jump == joined' # joined => 0 \in {last, last'} \/ last + 1 < First(oldest)
<1>1. ASSUME ViewInv, [Next]_vars PROVE [Jump]_vars
  <2>1. CASE Subscribe
    <3>1. Anchor \in Int /\ last \in Nat /\ (last # 0 /\ Anchor > last + 1 => last + 1 < First(oldest))
      BY <1>1, AnchorBounds DEF ViewInv, ViewTypes, TypeOK
    <3>2. last = 0 \/ Anchor > last + 1 \/ joined' = joined
      BY <2>1 DEF Subscribe
    <3>3. QED
      BY <3>1, <3>2
  <2>2. CASE \E s \in Starts : Select(s)
    BY <2>2 DEF Select
  <2>3. CASE Policy \/ Publish \/ Finalize \/ Evict \/ \E g \in Groups : StoreKey(g) \/ Refresh(g)
    BY <2>3 DEF Policy, Publish, Finalize, Evict, StoreKey, Refresh, playVars, progress
  <2>4. CASE Connect \/ CheckControl \/ ReadUntilExpiry \/ Disconnect \/ ReadTimeout
    BY <2>4 DEF Connect, CheckControl, ReadUntilExpiry, Disconnect, ReadTimeout, playVars, progress
  <2>5. CASE \/ ReadPage \/ Check \/ PolicyTick \/ TailGap
             \/ \E lost \in SUBSET mail : Lag(lost)
    BY <2>5 DEF ReadPage, Check, PolicyTick, TailGap, Lag, playVars, progress
  <2>6. CASE ReplayEnvelope \/ \E g \in Groups : TailEnvelope(g)
    BY <2>6 DEF ReplayEnvelope, TailEnvelope, HandleEnvelope, Drain, playVars, progress
  <2>7. CASE \E n \in 1..MaxSequence : ReplayObject(n) \/ TailObject(n)
    BY <2>7 DEF ReplayObject, TailObject, HandleObject, Drain, progress
  <2>8. CASE UNCHANGED vars
    BY <2>8
  <2>9. QED
    BY <1>1, <2>1, <2>2, <2>3, <2>4, <2>5, <2>6, <2>7, <2>8 DEF Next, Receive
<1>2. QED
  BY <1>1, ViewAlways, PTL DEF Spec, JumpsOnlyPastEviction

(* After access is withdrawn a connection gets at most one more live item:   *)
(* the subscription task looks at the policy before it waits for each item.  *)
THEOREM OneLateItem == Spec => []LateItemsBounded
<1>1. ViewInv => LateItemsBounded
  BY DEF ViewInv, ViewTypes, TypeOK, LateIsLast, LateItemsBounded
<1>2. QED
  BY <1>1, ViewAlways, PTL

=============================================================================
