------------------------ MODULE CapturePipelineProofs ------------------------
(***************************************************************************)
(* What the capture of one target guarantees, proved for every set of      *)
(* source sizes, every frame limit, every desktop and every number of      *)
(* failures: a PipeWire thread never outlives its capture, and a published *)
(* cursor event names the image the compositor shows, if it was decoded.   *)
(***************************************************************************)
EXTENDS CapturePipeline, TLAPS

(***************************************************************************)
(* The publisher thread, its capture and the PipeWire thread.  An inner    *)
(* capture has a thread, and a thread without one is being started or      *)
(* joined: this is what makes the next start find none alive.              *)
(***************************************************************************)
PubPcs ==
    {"source", "dialog", "starting", "joining", "connect", "first", "top", "frame",
     "encode", "cursor", "sleep", "failed", "delay", "ended"}

ThreadShapes ==
    /\ pub = [pc |-> pub.pc, next |-> pub.next, fatal |-> pub.fatal, image |-> pub.image]
    /\ cap = [opened |-> cap.opened, inner |-> cap.inner, size |-> cap.size]
    /\ pw = [st |-> pw.st, slot |-> pw.slot, quit |-> pw.quit, error |-> pw.error,
             failed |-> pw.failed, format |-> pw.format, late |-> pw.late]
    /\ pub.pc \in PubPcs /\ pub.next \in {"failed", "ended"}
    /\ pw.st \in {"none", "init", "setup", "running", "ended"}
    /\ cap.inner \in BOOLEAN /\ pw.slot \in BOOLEAN

OwnedThread ==
    /\ ~cap.inner => pw.st = "none" \/ pub.pc \in {"starting", "joining"}
    /\ cap.inner => pw.st # "none" /\ pub.pc \notin {"dialog", "starting", "joining", "ended"}
    /\ pw.slot => pw.st \in {"setup", "running"}

ThreadInv == ThreadShapes /\ OwnedThread

\* At first no thread runs.
LEMMA ThreadInit == Init => ThreadInv
BY CaptureAssumption DEF Init, ThreadInv, ThreadShapes, OwnedThread, PubPcs, NoThread

\* Every step keeps the PipeWire thread with the capture that owns it.
LEMMA ThreadStep == ThreadInv /\ [Next]_vars => ThreadInv'
<1> SUFFICES ASSUME ThreadInv, [Next]_vars PROVE ThreadInv'
  OBVIOUS
<1> USE DEF ThreadInv, ThreadShapes, OwnedThread, PubPcs
<1>1. CASE UNCHANGED vars
  BY <1>1 DEF vars, thread
<1>2. CASE Publisher
  <2>1. CASE Source
    BY <2>1 DEF Source, Goto, Spawn, thread, NoThread
  <2>2. CASE Started
    BY <2>2 DEF Started, Goto, thread
  <2>3. CASE NotStarted
    BY <2>3 DEF NotStarted, StopAndJoin, Stop
  <2>4. CASE Joined
    BY <2>4 DEF Joined, Goto, NoThread
  <2>5. CASE Connect
    BY <2>5 DEF Connect, Goto, thread
  <2>6. CASE NextFrame
    BY <2>6 DEF NextFrame, SpawnEncoder, Fail, Waiting, thread
  <2>7. CASE CaptureFailed
    BY <2>7 DEF CaptureFailed, DropCapture, StopAndJoin, Stop, Waiting
  <2>8. CASE FrameTimeout
    BY <2>8 DEF FrameTimeout, DropCapture, StopAndJoin, Stop, NoFrame, Waiting
  <2>9. CASE Top
    BY <2>9 DEF Top, Finish, Goto, StopAndJoin, Stop, thread
  <2>10. CASE ShutdownWhileWaiting
    BY <2>10 DEF ShutdownWhileWaiting, Finish, Goto, StopAndJoin, Stop, thread
  <2>11. CASE Encode
    BY <2>11 DEF Encode, Fail, thread
  <2>12. CASE PublishCursor
    BY <2>12 DEF PublishCursor, Fail, Goto, thread
  <2>13. CASE Sleep
    BY <2>13 DEF Sleep, Goto, thread
  <2>14. CASE Retry
    BY <2>14 DEF Retry, Finish, Goto, StopAndJoin, Stop, thread
  <2>15. CASE Delay
    BY <2>15 DEF Delay, Finish, Goto, StopAndJoin, Stop, thread
  <2> QED
    BY <1>2, <2>1, <2>2, <2>3, <2>4, <2>5, <2>6, <2>7, <2>8, <2>9, <2>10, <2>11, <2>12,
       <2>13, <2>14, <2>15 DEF Publisher
<1>3. CASE PipeWire
  BY <1>3 DEF PipeWire, PwPublish, PwRun, PwQuit, Negotiate, Ended, RecordError
<1>4. CASE Faults
  <2>1. CASE SizeUnreported \/ PortalFails \/ OpenFails \/ RelayFails \/ EncodeFails
    BY <2>1 DEF SizeUnreported, Spawn, NoThread, PortalFails, OpenFails, RelayFails, EncodeFails, Fail,
                thread
  <2>2. CASE StartTimeout
    BY <2>2 DEF StartTimeout, Stop
  <2>3. CASE PwStartFails
    BY <2>3 DEF PwStartFails, Ended
  <2>4. CASE StreamError \/ MetadataMissing \/ MmapFails
    BY <2>4 DEF StreamError, MetadataMissing, MmapFails, RecordError
  <2>5. CASE SlowFrame
    BY <2>5 DEF SlowFrame, DropCapture, StopAndJoin, Stop, NoFrame, Waiting
  <2>6. CASE SourceResized \/ DriverDegrades
    BY <2>6 DEF SourceResized, DriverDegrades, thread
  <2> QED
    BY <1>4, <2>1, <2>2, <2>3, <2>4, <2>5, <2>6 DEF Faults
<1>5. CASE DialogAccepted
  BY <1>5 DEF DialogAccepted, Spawn, NoThread
<1>6. CASE ProcessEarly \/ ProcessFrame
  BY <1>6 DEF ProcessEarly, ProcessFrame, RecordError, thread
<1>7. CASE Done \/ Signal
  BY <1>7 DEF Done, Signal, vars, thread
<1> QED
  BY <1>1, <1>2, <1>3, <1>4, <1>5, <1>6, <1>7 DEF Next

\* One step of NoThreadOutlivesCapture.
LaterStartFindsNone ==
    (pw.st # "init" /\ pw'.st = "init") \/ pub'.pc = "ended" => pw.st \in {"none", "ended"}

\* Only Source, DialogAccepted and SizeUnreported start a thread, all without an inner
\* capture;
\* only Finish and Joined end the publisher thread.
LEMMA LaterStart == ThreadInv /\ [Next]_vars => [LaterStartFindsNone]_vars
<1> SUFFICES ASSUME ThreadInv, Next PROVE LaterStartFindsNone
  OBVIOUS
<1> USE DEF ThreadInv, ThreadShapes, OwnedThread, PubPcs, LaterStartFindsNone
<1>2. CASE Publisher
  <2>1. CASE Source
    BY <2>1 DEF Source, Goto, Spawn, thread, NoThread
  <2>2. CASE Started \/ Connect \/ Encode \/ PublishCursor \/ Sleep
    BY <2>2 DEF Started, Connect, Encode, PublishCursor, Sleep, Goto, Fail, thread
  <2>3. CASE NotStarted
    BY <2>3 DEF NotStarted, StopAndJoin, Stop
  <2>4. CASE Joined
    BY <2>4 DEF Joined, Goto, NoThread
  <2>6. CASE NextFrame
    BY <2>6 DEF NextFrame, SpawnEncoder, Fail, Waiting, thread
  <2>7. CASE CaptureFailed \/ FrameTimeout
    BY <2>7 DEF CaptureFailed, FrameTimeout, DropCapture, StopAndJoin, Stop, NoFrame, Waiting
  <2>9. CASE Top \/ ShutdownWhileWaiting
    BY <2>9 DEF Top, ShutdownWhileWaiting, Finish, Goto, StopAndJoin, Stop, thread
  <2>14. CASE Retry \/ Delay
    BY <2>14 DEF Retry, Delay, Finish, Goto, StopAndJoin, Stop, thread
  <2> QED
    BY <1>2, <2>1, <2>2, <2>3, <2>4, <2>6, <2>7, <2>9, <2>14 DEF Publisher
<1>3. CASE PipeWire
  BY <1>3 DEF PipeWire, PwPublish, PwRun, PwQuit, Negotiate, Ended, RecordError
<1>4. CASE Faults
  <2>1. CASE SizeUnreported \/ PortalFails \/ OpenFails \/ RelayFails \/ EncodeFails
    BY <2>1 DEF SizeUnreported, Spawn, NoThread, PortalFails, OpenFails, RelayFails, EncodeFails, Fail,
                thread
  <2>2. CASE StartTimeout \/ PwStartFails
    BY <2>2 DEF StartTimeout, PwStartFails, Stop, Ended
  <2>4. CASE StreamError \/ MetadataMissing \/ MmapFails
    BY <2>4 DEF StreamError, MetadataMissing, MmapFails, RecordError
  <2>5. CASE SlowFrame
    BY <2>5 DEF SlowFrame, DropCapture, StopAndJoin, Stop, NoFrame, Waiting
  <2>6. CASE SourceResized \/ DriverDegrades
    BY <2>6 DEF SourceResized, DriverDegrades, thread
  <2> QED
    BY <1>4, <2>1, <2>2, <2>4, <2>5, <2>6 DEF Faults
<1>5. CASE DialogAccepted
  BY <1>5 DEF DialogAccepted, Spawn, NoThread
<1>6. CASE ProcessEarly \/ ProcessFrame
  BY <1>6 DEF ProcessEarly, ProcessFrame, RecordError, Listened, Running, thread
<1>7. CASE Done \/ Signal
  BY <1>7 DEF Done, Signal, vars, thread
<1> QED
  BY <1>2, <1>3, <1>4, <1>5, <1>6, <1>7 DEF Next

(***************************************************************************)
(* A PipeWire thread never outlives its capture, for every desktop and     *)
(* number of failures: start_pipewire_thread is only reached, and the      *)
(* publisher thread only returns, after the last thread was joined.        *)
(***************************************************************************)
THEOREM ThreadNeverOutlivesCapture == Spec => NoThreadOutlivesCapture
<1>1. Spec => []ThreadInv
  BY ThreadInit, ThreadStep, PTL DEF Spec
<1>2. NoThreadOutlivesCapture <=> [][LaterStartFindsNone]_vars
  BY DEF NoThreadOutlivesCapture, LaterStartFindsNone
<1> QED
  BY <1>1, <1>2, LaterStart, PTL DEF Spec

-----------------------------------------------------------------------------
(* Frame sizes *)

Positive == Nat \ {0}

Size == Positive \X Positive

\* The larger of two numbers.
LEMMA MaxOfTwo ==
    ASSUME NEW a \in Int, NEW b \in Int
    PROVE  Max({a, b}) = IF a >= b THEN a ELSE b
<1> DEFINE m == IF a >= b THEN a ELSE b
<1>1. m \in {a, b} /\ \A y \in {a, b} : m >= y
  OBVIOUS
<1>2. \A x \in {a, b} : (\A y \in {a, b} : x >= y) => x = m
  OBVIOUS
<1> QED
  BY <1>1, <1>2 DEF Max

\* The smaller of two numbers.
LEMMA MinOfTwo ==
    ASSUME NEW a \in Int, NEW b \in Int
    PROVE  Min({a, b}) = IF a <= b THEN a ELSE b
<1> DEFINE m == IF a <= b THEN a ELSE b
<1>1. m \in {a, b} /\ \A y \in {a, b} : m <= y
  OBVIOUS
<1>2. \A x \in {a, b} : (\A y \in {a, b} : x <= y) => x = m
  OBVIOUS
<1> QED
  BY <1>1, <1>2 DEF Min

\* Division of a natural number by a positive one.
LEMMA DivNat ==
    ASSUME NEW a \in Nat, NEW d \in Positive
    PROVE  a \div d \in Nat
BY DEF Positive

\* A product of sizes.
LEMMA TimesNat ==
    ASSUME NEW a \in Nat, NEW b \in Nat
    PROVE  a * b \in Nat
OBVIOUS

\* The scale is a ratio of positive numbers.
LEMMA ScaleIsRatio ==
    ASSUME NEW s \in Size, NEW l \in Size
    PROVE  Scale(s, l) \in Size
BY DEF Scale, Size

\* fit_dimensions gives at least two pixels a side.
LEMMA FitEvenIsSize ==
    ASSUME NEW s \in Size, NEW l \in Size
    PROVE  FitEven(s, l) \in Size
<1> DEFINE m == <<Max({l[1], 2}), Max({l[2], 2})>>
           r == IF Fits(s, m) THEN <<1, 1>> ELSE Scale(s, m)
           L(i) == Max({(s[i] * r[1]) \div r[2], 2})
           N(i) == Min({L(i), m[i]})
           Even(i) == Max({N(i) - (N(i) % 2), 2})
<1>1. m \in Size
  BY MaxOfTwo DEF Size, Positive
<1>2. r \in Size
  BY <1>1, ScaleIsRatio DEF Size, Positive
<1> HIDE DEF m, r
<1>3. ASSUME NEW i \in {1, 2} PROVE Even(i) \in Positive
  <2>1. s[i] \in Nat /\ r[1] \in Nat /\ r[2] \in Positive /\ m[i] \in Nat
    BY <1>1, <1>2 DEF Size, Positive
  <2>2. (s[i] * r[1]) \div r[2] \in Nat
    BY <2>1, TimesNat, DivNat
  <2>3. L(i) \in Nat
    BY <2>2, MaxOfTwo
  <2> HIDE DEF L
  <2>4. N(i) \in Nat
    BY <2>1, <2>3, MinOfTwo
  <2> HIDE DEF N
  <2>5. N(i) - (N(i) % 2) \in Int
    BY <2>4
  <2> QED
    BY <2>5, MaxOfTwo DEF Positive
<1>4. FitEven(s, l) = <<Even(1), Even(2)>>
  BY DEF FitEven, m, r
<1> HIDE DEF Even
<1> QED
  BY <1>3, <1>4 DEF Size

\* resize_to_fit gives at least one pixel a side.
LEMMA ResizeToFitIsSize ==
    ASSUME NEW s \in Size, NEW l \in Size
    PROVE  ResizeToFit(s, l) \in Size
<1> DEFINE r == Scale(s, l)
           Round(i) == Max({(2 * s[i] * r[1] + r[2]) \div (2 * r[2]), 1})
<1>1. r \in Size
  BY ScaleIsRatio
<1> HIDE DEF r
<1>2. ASSUME NEW i \in {1, 2} PROVE Round(i) \in Positive
  <2>1. s[i] \in Nat /\ r[1] \in Nat /\ r[2] \in Positive
    BY <1>1 DEF Size, Positive
  <2>2. 2 * s[i] * r[1] \in Nat /\ 2 * r[2] \in Positive
    <3>1. 2 * s[i] \in Nat
      BY <2>1
    <3> QED
      BY <3>1, <2>1, TimesNat DEF Positive
  <2>3. 2 * s[i] * r[1] + r[2] \in Nat
    BY <2>1, <2>2 DEF Positive
  <2>4. (2 * s[i] * r[1] + r[2]) \div (2 * r[2]) \in Nat
    BY <2>2, <2>3, DivNat
  <2> QED
    BY <2>4, MaxOfTwo DEF Positive
<1>3. ResizeToFit(s, l) = IF Fits(s, l) THEN s ELSE <<Round(1), Round(2)>>
  BY DEF ResizeToFit, r
<1> HIDE DEF Round
<1> QED
  BY <1>2, <1>3 DEF Size

\* The sizes a frame can have, before and after the frame limits.
FrameSizes == Sources \union Range(Fitted)

\* A frame has the size of a source or one a source is fitted to.
LEMMA FrameSizesAreSizes ==
    /\ FrameSizes \subseteq Size
    /\ \A s \in Sources : Fitted[s] \in FrameSizes
    /\ \A s \in FrameSizes : Resized[s] \in Size
<1>1. Sources \subseteq Size /\ Limit \in Size
  BY CaptureAssumption DEF Size, Positive
<1>2. \A s \in Sources : Fitted[s] = FitEven(s, Limit)
  BY DEF Fitted
<1>3. \A s \in Sources : Fitted[s] \in Size
  BY <1>1, <1>2, FitEvenIsSize
<1>4. Range(Fitted) = {Fitted[s] : s \in Sources}
  BY DEF Range, Fitted
<1>5. FrameSizes \subseteq Size /\ \A s \in Sources : Fitted[s] \in FrameSizes
  BY <1>1, <1>3, <1>4 DEF FrameSizes
<1>6. \A s \in FrameSizes : Resized[s] = ResizeToFit(s, Limit)
  BY DEF Resized, FrameSizes
<1> QED
  BY <1>1, <1>5, <1>6, ResizeToFitIsSize

-----------------------------------------------------------------------------
(* Cursor samples *)

MaybeImage == Images \union {None}

\* The last state is the image the compositor shows, with its bitmap if that was
\* decoded; an unread sample says the same of its image.
SampleInv ==
    /\ comp \in [sent : MaybeImage, decoded : BOOLEAN]
    /\ last = None \/ last \in [id : Images, bitmap : MaybeImage]
    /\ last # None => comp.sent = last.id
    /\ comp.decoded => last # None /\ last.bitmap = last.id
    /\ sample = None \/ sample \in [taken : BOOLEAN, visible : BOOLEAN, bitmap : MaybeImage,
                                    image : MaybeImage, decoded : BOOLEAN]
    /\ sample # None =>
         /\ sample.visible /\ sample.decoded => sample.bitmap = sample.image /\ sample.image # None
         /\ sample.bitmap # None => sample.visible

\* What a step can do to the cursor channels.
ChannelsCleared == sample' = None /\ last' = None /\ comp' = [sent |-> None, decoded |-> FALSE]

SampleTaken ==
    sample # None /\ sample' = [sample EXCEPT !.taken = TRUE] /\ UNCHANGED <<comp, last>>

CursorStep == ChannelsCleared \/ SampleTaken \/ EmitCursor

\* The cursor channels change in three ways only.
LEMMA CursorsMove == ASSUME Next PROVE CursorStep
<1> USE DEF CursorStep
<1>1. CASE Publisher
  <2>1. CASE Source
    BY <2>1 DEF Source, Spawn, NoChannels, ChannelsCleared, EmitCursor
  <2>2. CASE Started \/ Connect \/ Encode \/ Sleep \/ Joined \/ NextFrame
    BY <2>2 DEF Started, Connect, Encode, Sleep, Joined, NextFrame, EmitCursor
  <2>3. CASE NotStarted \/ CaptureFailed \/ FrameTimeout
    BY <2>3 DEF NotStarted, CaptureFailed, FrameTimeout, DropCapture, StopAndJoin, NoChannels,
                ChannelsCleared
  <2>4. CASE Top \/ ShutdownWhileWaiting \/ Retry \/ Delay
    BY <2>4 DEF Top, ShutdownWhileWaiting, Retry, Delay, Finish, StopAndJoin, NoChannels,
                ChannelsCleared, EmitCursor
  <2>5. CASE PublishCursor
    BY <2>5 DEF PublishCursor, SampleTaken, EmitCursor, cursors
  <2> QED
    BY <1>1, <2>1, <2>2, <2>3, <2>4, <2>5 DEF Publisher
<1>2. CASE PipeWire
  BY <1>2 DEF PipeWire, PwPublish, PwRun, PwQuit, Negotiate, EmitCursor
<1>3. CASE Faults
  <2>1. CASE SlowFrame
    BY <2>1 DEF SlowFrame, DropCapture, StopAndJoin, NoChannels, ChannelsCleared
  <2>2. CASE MmapFails \/ SizeUnreported
    BY <2>2 DEF MmapFails, SizeUnreported, Spawn, NoChannels, ChannelsCleared
  <2> QED
    BY <1>3, <2>1, <2>2 DEF Faults, PortalFails, OpenFails, StartTimeout, PwStartFails, StreamError,
       MetadataMissing, RelayFails, EncodeFails, SourceResized, DriverDegrades, EmitCursor
<1>4. CASE DialogAccepted
  BY <1>4 DEF DialogAccepted, Spawn, NoChannels, ChannelsCleared
<1>5. CASE ProcessEarly \/ ProcessFrame
  BY <1>5 DEF ProcessEarly, ProcessFrame
<1>6. CASE Done \/ Signal
  BY <1>6 DEF Done, Signal, vars, EmitCursor
<1> QED
  BY <1>1, <1>2, <1>3, <1>4, <1>5, <1>6 DEF Next

\* At first no cursor was sampled.
LEMMA SampleInit == Init => SampleInv
BY CaptureAssumption DEF Init, SampleInv, MaybeImage

\* Every step keeps the sample, the cache and the sent image in agreement.
LEMMA SampleStep == SampleInv /\ [Next]_vars => SampleInv'
<1> SUFFICES ASSUME SampleInv, [Next]_vars PROVE SampleInv'
  OBVIOUS
<1>1. CASE UNCHANGED cursors
  BY <1>1 DEF cursors, SampleInv
<1>2. CASE ChannelsCleared
  BY <1>2, CaptureAssumption DEF ChannelsCleared, SampleInv, MaybeImage
<1>3. CASE SampleTaken
  BY <1>3 DEF SampleTaken, SampleInv
<1>4. ASSUME NEW u \in CursorUpdates, CursorSample(u), comp' = CompAfter(u)
      PROVE  SampleInv'
  <2>1. u \in Update
    BY DEF CursorUpdates
  <2>2. CASE ~u.visible
    <3>1. comp' = [comp EXCEPT !.decoded = FALSE] /\ last' = None
      BY <1>4, <2>2 DEF CursorSample, CompAfter
    <3>2. sample' = sample
          \/ sample' = [taken |-> FALSE, visible |-> FALSE, bitmap |-> None,
                        image |-> None, decoded |-> FALSE]
      BY <1>4, <2>2 DEF CursorSample
    <3>3. comp' \in [sent : MaybeImage, decoded : BOOLEAN] /\ comp'.decoded = FALSE
      BY <3>1 DEF SampleInv
    <3>4. CASE sample' = sample
      BY <3>1, <3>3, <3>4 DEF SampleInv
    <3>5. CASE sample' = [taken |-> FALSE, visible |-> FALSE, bitmap |-> None,
                          image |-> None, decoded |-> FALSE]
      <4>1. sample' \in [taken : BOOLEAN, visible : BOOLEAN, bitmap : MaybeImage,
                         image : MaybeImage, decoded : BOOLEAN]
            /\ ~sample'.visible /\ sample'.bitmap = None
        BY <3>5 DEF MaybeImage
      <4> QED
        BY <3>1, <3>3, <4>1 DEF SampleInv
    <3> QED
      BY <3>2, <3>4, <3>5
  <2>3. CASE u.visible
    <3> DEFINE state == [id |-> u.id, bitmap |-> Carried(u)]
    <3>1. u.bitmap \in {u.id, None}
      BY <2>1, <2>3 DEF CursorUpdates
    <3>2. u.id \in Images /\ u.bitmap \in MaybeImage /\ Carried(u) \in MaybeImage
      BY <2>1 DEF Update, Carried, SampleInv, MaybeImage
    <3>3. state \in [id : Images, bitmap : MaybeImage] /\ state # None
      BY <3>2, CaptureAssumption DEF MaybeImage
    <3>4. comp' = [sent |-> u.id, 
                     decoded |-> u.bitmap # None \/ (comp.decoded /\ comp.sent = u.id)]
      BY <1>4, <2>3 DEF CompAfter
    <3>5. comp'.decoded => Carried(u) = u.id
      <4>1. CASE u.bitmap = u.id
        BY <4>1, <3>2, CaptureAssumption DEF Carried
      <4>2. CASE u.bitmap = None
        BY <4>2, <3>4 DEF Carried, SampleInv
      <4> QED
        BY <3>1, <4>1, <4>2
    <3>6. last' = state
      BY <1>4, <2>3 DEF CursorSample
    <3>7. sample' = sample
          \/ sample' = [taken |-> FALSE, visible |-> TRUE, bitmap |-> Carried(u),
                        image |-> u.id, decoded |-> comp'.decoded]
      BY <1>4, <2>3 DEF CursorSample
    <3>8. comp' \in [sent : MaybeImage, decoded : BOOLEAN]
      BY <3>4, <3>2 DEF SampleInv, MaybeImage
    <3>9. CASE sample' = sample
      BY <3>9, <3>2, <3>3, <3>4, <3>5, <3>6, <3>8 DEF SampleInv
    <3>10. CASE sample' = [taken |-> FALSE, visible |-> TRUE, bitmap |-> Carried(u),
                           image |-> u.id, decoded |-> comp'.decoded]
      BY <3>10, <3>2, <3>3, <3>4, <3>5, <3>6, <3>8, CaptureAssumption DEF SampleInv, MaybeImage
    <3> QED
      BY <3>7, <3>9, <3>10
  <2> QED
    BY <2>2, <2>3, <2>1 DEF Update
<1> QED
  BY <1>1, <1>2, <1>3, <1>4, CursorsMove DEF CursorStep, EmitCursor, vars

-----------------------------------------------------------------------------
(* The desktop, and the sizes of frames *)

Drivers == [device : BOOLEAN, gbm : BOOLEAN, egl : BOOLEAN, scale : BOOLEAN]

DesktopInv ==
    /\ shutdown \in BOOLEAN /\ faults \in 0..MaxFaults
    /\ env \in [backend : {"portal", "mutter"}, source : Sources, kind : {"mapped", "dmabuf"},
                driver : Drivers]

\* What a step can do to the desktop.
DesktopStep ==
    \/ UNCHANGED <<faults, env>>
    \/ Fault /\ (SourceResized \/ DriverDegrades \/ UNCHANGED env)

\* The desktop changes as DesktopStep says, and a shutdown is final.
LEMMA DesktopMoves == ASSUME Next PROVE DesktopStep /\ (shutdown' = shutdown \/ shutdown' = TRUE)
<1> USE DEF DesktopStep
<1>1. CASE Publisher
  BY <1>1 DEF Publisher, Source, Started, NotStarted, Joined, Connect, NextFrame, CaptureFailed,
     FrameTimeout, Top, ShutdownWhileWaiting, Encode, PublishCursor, Sleep, Retry, Delay, desktop
<1>2. CASE PipeWire
  BY <1>2 DEF PipeWire, PwPublish, PwRun, PwQuit, Negotiate, desktop
<1>3. CASE Faults
  BY <1>3 DEF Faults, SizeUnreported, Spawn, PortalFails, OpenFails, StartTimeout, PwStartFails,
     StreamError, MetadataMissing, MmapFails, RelayFails, SlowFrame, EncodeFails, SourceResized, DriverDegrades
<1>4. CASE Done \/ DialogAccepted \/ ProcessEarly \/ ProcessFrame \/ Signal
  BY <1>4 DEF Done, DialogAccepted, ProcessEarly, ProcessFrame, Signal, vars, desktop
<1> QED
  BY <1>1, <1>2, <1>3, <1>4 DEF Next

\* The desktop is well formed at first.
LEMMA DesktopInit == Init => DesktopInv
<1> SUFFICES ASSUME Init PROVE DesktopInv
  OBVIOUS
<1>1. shutdown \in BOOLEAN
  BY DEF Init
<1>2. faults \in 0..MaxFaults
  <2>1. faults = MaxFaults
    BY DEF Init
  <2>2. MaxFaults \in Nat
    BY CaptureAssumption
  <2> QED
    BY <2>1, <2>2
<1>3. env \in [backend : {"portal", "mutter"}, source : Sources, kind : {"mapped", "dmabuf"},
               driver : Drivers]
  <2>1. env \in Desktops
    BY DEF Init
  <2> QED
    BY <2>1, CaptureAssumption DEF Drivers
<1> QED
  BY <1>1, <1>2, <1>3 DEF DesktopInv

\* Every step keeps it so.
LEMMA DesktopKept == DesktopInv /\ [Next]_vars => DesktopInv'
<1> SUFFICES ASSUME DesktopInv, [Next]_vars PROVE DesktopInv'
  OBVIOUS
<1> USE DEF DesktopInv, Drivers
<1>1. CASE UNCHANGED vars
  BY <1>1 DEF vars, desktop
<1>2. CASE Next
  <2>1. shutdown' \in BOOLEAN /\ DesktopStep
    BY <1>2, DesktopMoves
  <2>2. faults' \in 0..MaxFaults
    BY <2>1, CaptureAssumption DEF DesktopStep, Fault
  <2>3. CASE UNCHANGED env
    BY <2>1, <2>2, <2>3
  <2>4. CASE SourceResized
    BY <2>1, <2>2, <2>4 DEF SourceResized
  <2>5. CASE DriverDegrades
    <3>1. PICK d \in {"device", "gbm", "egl", "scale"} : env' = [env EXCEPT !.driver[d] = FALSE]
      BY <2>5 DEF DriverDegrades
    <3>2. env' = [env EXCEPT !.driver = [env.driver EXCEPT ![d] = FALSE]]
      BY <3>1
    <3>3. [env.driver EXCEPT ![d] = FALSE] \in Drivers
      BY DEF Drivers
    <3> QED
      BY <2>1, <2>2, <3>2, <3>3
  <2> QED
    BY <2>1, <2>3, <2>4, <2>5 DEF DesktopStep
<1> QED
  BY <1>1, <1>2

\* Frames have sizes that Resized is defined on, and from the first frame of
\* an epoch to its end the encoder has one.
SizeInv ==
    /\ frame = None \/ frame \in [size : FrameSizes, taken : BOOLEAN]
    /\ pub.pc \in {"top", "frame", "encode", "cursor", "sleep"} => encoder \in Size
    /\ cap.size \in Sources \union {<<1, 1>>}

\* What a step can do to the frame channel.
FrameStep ==
    \/ UNCHANGED frame
    \/ frame' = None
    \/ frame' = [size |-> ReadSize, taken |-> FALSE]
    \/ frame # None /\ frame' = [frame EXCEPT !.taken = TRUE]

\* The frame in hand changes as FrameStep says.
LEMMA FramesMove == ASSUME Next PROVE FrameStep
<1> USE DEF FrameStep
<1>1. CASE Publisher
  <2>1. CASE NextFrame
    BY <2>1 DEF NextFrame, NewFrame
  <2> QED
    BY <1>1, <2>1 DEF Publisher, Source, Spawn, Started, NotStarted, Joined, Connect, CaptureFailed,
     FrameTimeout, DropCapture, Top, ShutdownWhileWaiting, Encode, PublishCursor, Sleep, Retry,
     Delay, Finish, StopAndJoin, NoChannels
<1>2. CASE PipeWire
  BY <1>2 DEF PipeWire, PwPublish, PwRun, PwQuit, Negotiate
<1>3. CASE Faults
  BY <1>3 DEF Faults, SizeUnreported, Spawn, PortalFails, OpenFails, StartTimeout, PwStartFails,
     StreamError, MetadataMissing, MmapFails, RelayFails, SlowFrame, DropCapture, StopAndJoin, NoChannels,
     EncodeFails, SourceResized, DriverDegrades
<1>4. CASE Done \/ DialogAccepted \/ ProcessEarly \/ ProcessFrame \/ Signal
  BY <1>4 DEF Done, DialogAccepted, Spawn, NoChannels, ProcessEarly, ProcessFrame, Signal, vars
<1> QED
  BY <1>1, <1>2, <1>3, <1>4 DEF Next

\* At first there is no frame and no encoder.
LEMMA SizeInit == Init => SizeInv
BY CaptureAssumption DEF Init, SizeInv, OpenedSize

\* What a step can do to the encoder and to the capture's size.
EncoderStep ==
    \/ pub'.pc \notin {"top", "frame", "encode", "cursor", "sleep"}
    \/ UNCHANGED encoder /\ pub.pc \in {"top", "frame", "encode", "cursor", "sleep"}
    \/ frame # None /\ encoder' = Resized[frame.size]

\* An encoder is made for the size of the frame in hand.
LEMMA EncoderMoves == ASSUME ThreadInv, Next PROVE EncoderStep
<1> USE DEF EncoderStep, ThreadInv, ThreadShapes, PubPcs
<1>1. CASE Publisher
  <2>1. CASE NextFrame
    BY <2>1 DEF NextFrame, NewFrame, SpawnEncoder, Fail, Waiting
  <2>2. CASE Source
    BY <2>2 DEF Source, Spawn, Goto
  <2>3. CASE Started \/ NotStarted \/ Joined \/ Connect
    BY <2>3 DEF Started, NotStarted, Joined, Connect, Goto, StopAndJoin
  <2>4. CASE CaptureFailed \/ FrameTimeout
    BY <2>4 DEF CaptureFailed, FrameTimeout, DropCapture, StopAndJoin
  <2>5. CASE Top
    BY <2>5 DEF Top, Finish, StopAndJoin, Goto, epoch
  <2>6. CASE ShutdownWhileWaiting
    BY <2>6 DEF ShutdownWhileWaiting, Finish, StopAndJoin, Goto
  <2>7. CASE Encode \/ Sleep
    BY <2>7 DEF Encode, Sleep, Goto, Fail, epoch
  <2>8. CASE PublishCursor
    BY <2>8 DEF PublishCursor, Goto, Fail
  <2>9. CASE Retry \/ Delay
    BY <2>9 DEF Retry, Delay, Finish, StopAndJoin, Goto
  <2> QED
    BY <1>1, <2>1, <2>2, <2>3, <2>4, <2>5, <2>6, <2>7, <2>8, <2>9 DEF Publisher
<1>2. CASE PipeWire
  BY <1>2 DEF PipeWire, PwPublish, PwRun, PwQuit, Negotiate, epoch
<1>3. CASE Faults
  BY <1>3 DEF Faults, SizeUnreported, Spawn, PortalFails, OpenFails, StartTimeout, PwStartFails,
     StreamError, MetadataMissing, MmapFails, RelayFails, SlowFrame, DropCapture, StopAndJoin, Fail,
     EncodeFails, SourceResized, DriverDegrades, epoch
<1>4. CASE Done \/ DialogAccepted \/ ProcessEarly \/ ProcessFrame \/ Signal
  BY <1>4 DEF Done, DialogAccepted, Spawn, ProcessEarly, ProcessFrame, Signal, vars, epoch
<1> QED
  BY <1>1, <1>2, <1>3, <1>4 DEF Next

\* A capture has the size it had, the one its source has now, or none that is
\* known.
LEMMA CaptureSizeMoves ==
    ASSUME ThreadInv, Next
    PROVE  cap'.size \in {cap.size, env.source, <<1, 1>>}
<1> USE DEF ThreadInv, ThreadShapes
<1>1. CASE Publisher
  BY <1>1 DEF Publisher, Source, Spawn, OpenedSize, Started, NotStarted, Joined, Connect,
     NextFrame, CaptureFailed, FrameTimeout, DropCapture, Top, ShutdownWhileWaiting, Encode,
     PublishCursor, Sleep, Retry, Delay, Finish
<1>2. CASE PipeWire
  BY <1>2 DEF PipeWire, PwPublish, PwRun, PwQuit, Negotiate
<1>3. CASE Faults
  <2>1. CASE SizeUnreported
    BY <2>1 DEF SizeUnreported, Spawn, OpenedSize
  <2> QED
    BY <1>3, <2>1 DEF Faults, PortalFails, OpenFails, StartTimeout, PwStartFails, StreamError,
       MetadataMissing, MmapFails, RelayFails, SlowFrame, DropCapture, EncodeFails, SourceResized,
       DriverDegrades
<1>4. CASE Done \/ DialogAccepted \/ ProcessEarly \/ ProcessFrame \/ Signal
  BY <1>4 DEF Done, DialogAccepted, Spawn, OpenedSize, ProcessEarly, ProcessFrame, Signal, vars
<1> QED
  BY <1>1, <1>2, <1>3, <1>4 DEF Next

\* Every step keeps the sizes of source, frame and encoder in agreement.
LEMMA SizeStep == ThreadInv /\ DesktopInv /\ SizeInv /\ [Next]_vars => SizeInv'
<1> SUFFICES ASSUME ThreadInv, DesktopInv, SizeInv, [Next]_vars PROVE SizeInv'
  OBVIOUS
<1>1. CASE UNCHANGED vars
  BY <1>1 DEF vars, epoch, SizeInv
<1>2. CASE Next
  <2>1. env.source \in Sources
    BY DEF DesktopInv
  <2>2. ReadSize \in FrameSizes
    BY <2>1, FrameSizesAreSizes DEF ReadSize, Wanted, FrameSizes
  <2>3. frame' = None \/ frame' \in [size : FrameSizes, taken : BOOLEAN]
    <3>1. CASE frame' = [size |-> ReadSize, taken |-> FALSE]
      BY <2>2, <3>1
    <3>2. CASE frame # None /\ frame' = [frame EXCEPT !.taken = TRUE]
      BY <3>2 DEF SizeInv
    <3>3. CASE UNCHANGED frame \/ frame' = None
      BY <3>3 DEF SizeInv
    <3>4. FrameStep
      BY <1>2, FramesMove
    <3> QED
      BY <3>1, <3>2, <3>3, <3>4 DEF FrameStep
  <2>4. cap'.size \in Sources \union {<<1, 1>>}
    BY <1>2, <2>1, CaptureSizeMoves DEF SizeInv
  <2>5. frame # None => Resized[frame.size] \in Size
    BY FrameSizesAreSizes DEF SizeInv
  <2>6. pub'.pc \in {"top", "frame", "encode", "cursor", "sleep"} => encoder' \in Size
    BY <1>2, <2>5, EncoderMoves DEF EncoderStep, SizeInv
  <2> QED
    BY <2>3, <2>4, <2>6 DEF SizeInv
<1> QED
  BY <1>1, <1>2

-----------------------------------------------------------------------------
(* The bitmaps of one epoch *)

\* A bitmap remembered as sent is the one the viewer shows.
EpochInv ==
    /\ bitmaps # None => shown = bitmaps
    /\ {bitmaps, shown} \subseteq MaybeImage
    /\ CursorImageRight

\* What a step can do to them.
EpochStep ==
    \/ UNCHANGED <<bitmaps, shown, event>>
    \/ EndEpoch
    \/ PublishCursor

\* What a step does to the epoch and to the events under it.
LEMMA EpochMoves == ASSUME Next PROVE EpochStep
<1> USE DEF EpochStep, epoch
<1>1. CASE Publisher
  BY <1>1 DEF Publisher, Source, Started, NotStarted, Joined, Connect, NextFrame, CaptureFailed,
     FrameTimeout, Top, ShutdownWhileWaiting, Finish, Encode, Sleep, Retry, Delay
<1>2. CASE PipeWire
  BY <1>2 DEF PipeWire, PwPublish, PwRun, PwQuit, Negotiate
<1>3. CASE Faults
  BY <1>3 DEF Faults, SizeUnreported, Spawn, PortalFails, OpenFails, StartTimeout, PwStartFails,
     StreamError, MetadataMissing, MmapFails, RelayFails, SlowFrame, EncodeFails, SourceResized, DriverDegrades
<1>4. CASE Done \/ DialogAccepted \/ ProcessEarly \/ ProcessFrame \/ Signal
  BY <1>4 DEF Done, DialogAccepted, ProcessEarly, ProcessFrame, Signal, vars
<1> QED
  BY <1>1, <1>2, <1>3, <1>4 DEF Next

\* A cursor batch is always valid: scaled_cursor_coordinate stays within the
\* encoder's size, and only a visible sample has a bitmap.
LEMMA BatchIsValid ==
    ASSUME SampleInv, SizeInv, pub.pc = "cursor", sample # None
    PROVE  EncodeBatch(sample)
<1>1. encoder \in Size /\ cap.size \in Size
  <2>1. <<1, 1>> \in Size
    BY DEF Size, Positive
  <2> QED
    BY <2>1, FrameSizesAreSizes DEF SizeInv, FrameSizes
<1>2. ASSUME NEW i \in {1, 2} PROVE ScaledCoordinate(sample, i) \in 0..encoder[i]
  <2>1. encoder[i] \in Nat /\ cap.size[i] \in Positive /\ CursorAt[i] \in Int
    BY <1>1, CaptureAssumption DEF Size, Positive
  <2>2. Max({CursorAt[i], 0}) \in Nat
    BY <2>1, MaxOfTwo
  <2>3. Min({Max({CursorAt[i], 0}), cap.size[i]}) \in Nat
    <3> DEFINE m == Max({CursorAt[i], 0})
    <3>1. m \in Nat
      BY <2>2
    <3> HIDE DEF m
    <3>2. Min({m, cap.size[i]}) \in Nat
      BY <2>1, <3>1, MinOfTwo DEF Positive
    <3> QED
      BY <3>2 DEF m
  <2>4. ClampedPosition[i] \in Nat
    BY <2>3 DEF ClampedPosition
  <2>5. (ClampedPosition[i] * encoder[i]) \div cap.size[i] \in Nat
    BY <2>1, <2>4, TimesNat, DivNat
  <2>6. Min({(ClampedPosition[i] * encoder[i]) \div cap.size[i], encoder[i]}) \in 0..encoder[i]
    BY <2>1, <2>5, MinOfTwo
  <2>7. 0 \in 0..encoder[i]
    BY <2>1
  <2> QED
    BY <2>6, <2>7 DEF ScaledCoordinate
<1>3. \A i \in {1, 2} : ~sample.visible => ScaledCoordinate(sample, i) = 0
  BY DEF ScaledCoordinate
<1>4. encoder[1] > 0 /\ encoder[2] > 0
  BY <1>1 DEF Size, Positive
<1>5. sample.bitmap # None => sample.visible
  BY DEF SampleInv
<1> DEFINE at == [i \in {1, 2} |-> ScaledCoordinate(sample, i)]
<1>6. \A i \in {1, 2} : at[i] \in IF sample.visible THEN 0..encoder[i] ELSE {0}
  BY <1>2, <1>3
<1> HIDE DEF at
<1>7. ValidBatch(sample, at)
  BY <1>4, <1>5, <1>6 DEF ValidBatch
<1> QED
  BY <1>7 DEF EncodeBatch, at

\* At first nothing was published.
LEMMA EpochInit == Init => EpochInv
BY DEF Init, EpochInv, CursorImageRight, MaybeImage

\* Every step keeps the published events in agreement with the epoch.
LEMMA EpochKept == SampleInv /\ SizeInv /\ EpochInv /\ [Next]_vars => EpochInv'
<1> SUFFICES ASSUME SampleInv, SizeInv, EpochInv, [Next]_vars PROVE EpochInv'
  OBVIOUS
<1>1. CASE UNCHANGED <<bitmaps, shown, event>>
  BY <1>1 DEF EpochInv, CursorImageRight
<1>2. CASE EndEpoch
  BY <1>2 DEF EndEpoch, EpochInv, CursorImageRight, MaybeImage
<1>3. CASE PublishCursor /\ ~UNCHANGED <<bitmaps, shown, event>>
  <2>1. pub.pc = "cursor" /\ sample # None
    BY <1>3 DEF PublishCursor
  <2>2. PICK due \in BOOLEAN : ToEvent(sample, due)
    BY <1>3 DEF PublishCursor
  <2>3. event' = [visible |-> sample.visible, image |-> sample.image, decoded |-> sample.decoded]
    BY <1>3, <2>1, BatchIsValid DEF PublishCursor
  <2>4. /\ sample.bitmap \in MaybeImage
        /\ sample.visible /\ sample.decoded => sample.bitmap = sample.image /\ sample.image # None
    BY <2>1 DEF SampleInv
  <2>5. /\ bitmaps' = IF sample.bitmap = None THEN bitmaps ELSE sample.bitmap
        /\ shown' = IF sample.bitmap = None \/ (sample.bitmap = bitmaps /\ ~due) THEN shown
                    ELSE sample.bitmap
    BY <2>2 DEF ToEvent
  <2>6. /\ bitmaps' # None => shown' = bitmaps'
        /\ {bitmaps', shown'} \subseteq MaybeImage
        /\ sample.bitmap # None => shown' = sample.bitmap
    BY <2>4, <2>5 DEF EpochInv
  <2>7. event'.visible /\ event'.decoded => shown' = event'.image
    BY <2>3, <2>4, <2>6
  <2> QED
    BY <2>6, <2>7 DEF EpochInv, CursorImageRight
<1> QED
  BY <1>1, <1>2, <1>3, EpochMoves DEF EpochStep, vars, epoch

-----------------------------------------------------------------------------
(* The inductive invariant, and what follows from it *)

CaptureInv == ThreadInv /\ SampleInv /\ DesktopInv /\ SizeInv /\ EpochInv

\* The parts together are an invariant of the pipeline.
LEMMA CaptureInvariant == Spec => []CaptureInv
<1>1. Init => CaptureInv
  BY ThreadInit, SampleInit, DesktopInit, SizeInit, EpochInit DEF CaptureInv
<1>2. CaptureInv /\ [Next]_vars => CaptureInv'
  BY ThreadStep, SampleStep, DesktopKept, SizeStep, EpochKept DEF CaptureInv
<1> QED
  BY <1>1, <1>2, PTL DEF Spec

(***************************************************************************)
(* The types of the capture pipeline, whatever fails and in whichever      *)
(* order the two threads run.                                              *)
(***************************************************************************)
THEOREM CaptureTypes == Spec => []TypeOK
<1>1. CaptureInv => TypeOK
  BY DEF CaptureInv, ThreadInv, ThreadShapes, OwnedThread, PubPcs, DesktopInv, Drivers, EpochInv,
         MaybeImage, TypeOK
<1> QED
  BY <1>1, CaptureInvariant, PTL

(***************************************************************************)
(* A published event that shows the cursor names the image the compositor  *)
(* shows, if that image was decoded since the cursor last changed or was   *)
(* hidden (cursor_to_event, pipewire_cursor_sample), for every set of      *)
(* images, every position and every order of updates, refused bitmaps,     *)
(* frames and epochs.  It needs that no batch is refused: cursor_to_event  *)
(* has already recorded the bitmap as sent when the batch is encoded.      *)
(***************************************************************************)
THEOREM CursorImageAlwaysRight == Spec => []CursorImageRight
<1>1. CaptureInv => CursorImageRight
  BY DEF CaptureInv, EpochInv
<1> QED
  BY <1>1, CaptureInvariant, PTL

=============================================================================
