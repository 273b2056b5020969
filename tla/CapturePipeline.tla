--------------------------- MODULE CapturePipeline ---------------------------
(***************************************************************************)
(* One capture target of the publisher: the thread run_client starts for   *)
(* it, the PipeWire thread that thread starts, stops and restarts, the     *)
(* encoder, and the cursor images they pass on                             *)
(* (crates/publisher/src/lib.rs, native_publish.rs, encoder.rs and         *)
(* egl_readback.rs).  The compositor, the portal and the GPU driver are    *)
(* the environment.  KeyDelivery models what the same publish loop does    *)
(* with keys; here it stands for one frame and one cursor event per turn.  *)
(*                                                                         *)
(* Serial numbers are only ever compared for "taken before or not", so a   *)
(* frame or a cursor sample carries that bit.  A cursor event always names *)
(* the newest bitmap id, so what a viewer of the epoch draws is the bitmap *)
(* last sent.  Frames are CPU frames: should_capture_dmabuf is FALSE.      *)
(***************************************************************************)
EXTENDS Integers, FiniteSetsExt, Functions

CONSTANTS
    None,            \* an absent Option
    Sources,         \* sizes <<width, height>> the source may have
    Desktops,        \* the desktops the publisher may be started on
    Limit,           \* <<max_frame_width, max_frame_height>>
    RequireMetadata, \* --require-cursor-metadata
    Images,          \* cursor images
    CursorAt,        \* where the compositor says the cursor is, <<x, y>>
    MaxFaults        \* bound on failures of the environment

ASSUME CaptureAssumption ==
    /\ Sources \subseteq (Nat \ {0}) \X (Nat \ {0}) /\ Limit \in (Nat \ {0}) \X (Nat \ {0})
    /\ Desktops \subseteq [backend : {"portal", "mutter"}, source : Sources,
                           kind : {"mapped", "dmabuf"},
                           driver : [device : BOOLEAN, gbm : BOOLEAN, egl : BOOLEAN,
                                     scale : BOOLEAN]]
    /\ CursorAt \in Int \X Int
    /\ RequireMetadata \in BOOLEAN /\ MaxFaults \in Nat
    /\ None \notin Images /\ None \notin [id : Images, bitmap : Images \union {None}]

VARIABLES
    shutdown, \* the shutdown channel of run_client
    faults,   \* failures of the environment still to come
    env,      \* the desktop: backend, source size, buffer kind, driver
    pub,      \* the publisher thread
    cap,      \* WaylandPipewireCapture: opened grant, inner capture, its source size
    pw,       \* the PipeWire thread and what it shares with its capture
    readback, \* GpuReadback
    frame,    \* the `latest` channel
    encoder,  \* size the encoder was built for
    comp,     \* the cursor image the compositor shows, and whether it was decoded
    last,     \* last_cursor_state
    sample,   \* the `cursor_latest` channel
    bitmaps,  \* CursorBitmapState.last
    shown,    \* the bitmap a viewer of this epoch has been sent
    event     \* the cursor event last published in this epoch

desktop == <<faults, env>>
thread == <<pw, readback>>
cursors == <<comp, last, sample>>
epoch == <<encoder, bitmaps, shown, event>>
vars == <<shutdown, desktop, pub, cap, thread, frame, cursors, epoch>>

(***************************************************************************)
(* Frame sizes.  The floating-point scale is the exact ratio here.         *)
(***************************************************************************)
Scale(s, l) ==
    IF l[1] * s[2] <= l[2] * s[1] THEN <<l[1], s[1]>> ELSE <<l[2], s[2]>>

Fits(s, l) == s[1] <= l[1] /\ s[2] <= l[2]

FitEven(s, l) ==
    LET m == <<Max({l[1], 2}), Max({l[2], 2})>>
        r == IF Fits(s, m) THEN <<1, 1>> ELSE Scale(s, m)
        Even(i) == LET n == Min({Max({(s[i] * r[1]) \div r[2], 2}), m[i]})
                   IN  Max({n - (n % 2), 2})
    IN  <<Even(1), Even(2)>>

ResizeToFit(s, l) ==
    LET r == Scale(s, l)
        Round(i) == Max({(2 * s[i] * r[1] + r[2]) \div (2 * r[2]), 1})
    IN  IF Fits(s, l) THEN s ELSE <<Round(1), Round(2)>>

\* What either makes of the sizes a frame can have.
Fitted == [s \in Sources |-> FitEven(s, Limit)]
Resized == [s \in Sources \union Range(Fitted) |-> ResizeToFit(s, Limit)]

ValidDimensions(s) == \A i \in {1, 2} : s[i] > 0 /\ s[i] % 2 = 0

(***************************************************************************)
(* Reading one buffer back.  A driver path that fails is latched off for   *)
(* the life of the PipeWire thread.                                        *)
(***************************************************************************)
FreshReadback == [gbm_unusable |-> FALSE, egl_unusable |-> FALSE, scale_unavailable |-> FALSE]

NeedsGpu == env.kind = "dmabuf"

\* The render node both paths go through.
DeviceOpens == env.driver.device

WithGbm == ~readback.gbm_unusable /\ DeviceOpens /\ env.driver.gbm

\* A context with the extensions the import needs, on that device.
EglOpens == DeviceOpens /\ env.driver.egl

WithEgl == ~readback.egl_unusable /\ EglOpens

Wanted == Fitted[env.source]

Scaling == Wanted # env.source /\ Wanted[1] <= env.source[1] /\ Wanted[2] <= env.source[2]

\* The shaders compile and link, and the draw reports no error.
ScalePassBuilds == env.driver.scale

ScaleDraws == env.driver.scale

Scaled == Scaling /\ ~readback.scale_unavailable /\ ScalePassBuilds /\ ScaleDraws

Latched ==
    IF WithGbm THEN readback
    ELSE [gbm_unusable |-> TRUE,
          egl_unusable |-> readback.egl_unusable \/ ~EglOpens,
          scale_unavailable |-> readback.scale_unavailable \/ (WithEgl /\ Scaling /\ ~Scaled)]

ReadSize == IF NeedsGpu /\ ~WithGbm /\ Scaled THEN Wanted ELSE env.source

(***************************************************************************)
(* The publisher thread.  pub.fatal is is_fatal_publisher_error of the     *)
(* error the turn ended with, pub.image the size of the frame in hand.     *)
(***************************************************************************)
NoThread ==
    [st |-> "none", slot |-> FALSE, quit |-> FALSE, error |-> FALSE, failed |-> None,
     format |-> FALSE, late |-> FALSE]

Goto(pc) == pub' = [pub EXCEPT !.pc = pc]

Fail(fatal) == pub' = [pub EXCEPT !.pc = "failed", !.fatal = fatal, !.image = None]

\* Mutant of Stop: the pointer is taken and the loop not told.
StopUnheard(p) == [p EXCEPT !.slot = FALSE]

\* PipewireThreadStop::stop: a pointer in the slot is taken and told to quit.
Stop(p) == [p EXCEPT !.quit = @ \/ p.slot, !.slot = FALSE]

\* The channels of a capture that has just been started, or dropped.
NoChannels ==
    /\ frame' = None /\ sample' = None /\ last' = None
    /\ comp' = [sent |-> None, decoded |-> FALSE]

\* Drop the capture: stop the PipeWire thread and wait for it, then go on to next.
StopAndJoin(next, fatal) ==
    /\ pub' = [pub EXCEPT !.pc = "joining", !.next = next, !.fatal = fatal, !.image = None]
    /\ pw' = Stop(pw)
    /\ NoChannels
    /\ UNCHANGED readback

\* Mutant of Joined: the thread's handle is dropped without waiting.
JoinedAtOnce ==
    /\ pub.pc = "joining"
    /\ Goto(pub.next)
    /\ UNCHANGED <<shutdown, desktop, cap, thread, frame, cursors, epoch>>

Joined ==
    /\ pub.pc = "joining" /\ pw.st = "ended"
    /\ Goto(pub.next)
    /\ pw' = NoThread /\ readback' = FreshReadback
    /\ UNCHANGED <<shutdown, desktop, cap, frame, cursors, epoch>>

Fault == faults > 0 /\ faults' = faults - 1

(***************************************************************************)
(* Opening the source.  A grant opened before the threads started is used  *)
(* once; afterwards the portal asks the user again.                        *)
(***************************************************************************)
\* The size the stream says it has when it is opened, if it says so.
OpenedSize(reported) == IF reported THEN env.source ELSE <<1, 1>>

\* A grant opened before keeps the size it had then.
Spawn(reported) ==
    /\ pub' = [pub EXCEPT !.pc = "starting"]
    /\ cap' = [cap EXCEPT !.opened = FALSE,
                          !.size = IF cap.opened THEN @ ELSE OpenedSize(reported)]
    /\ pw' = [NoThread EXCEPT !.st = "init"]
    /\ NoChannels
    /\ UNCHANGED readback

\* Every backend but Mutter's asks the user.
NeedsDialog == ~cap.opened /\ env.backend = "portal"

Source ==
    /\ pub.pc = "source"
    /\ \/ /\ cap.inner
          /\ Goto("connect")
          /\ UNCHANGED <<cap, thread, frame, cursors>>
       \/ /\ ~cap.inner /\ ~NeedsDialog
          /\ Spawn(TRUE)
       \/ /\ ~cap.inner /\ NeedsDialog
          /\ Goto("dialog")
          /\ UNCHANGED <<cap, thread, frame, cursors>>
    /\ UNCHANGED <<shutdown, desktop, epoch>>

DialogAccepted ==
    /\ pub.pc = "dialog"
    /\ Spawn(TRUE)
    /\ UNCHANGED <<shutdown, desktop, epoch>>

\* The stream opened now has no size among its properties.
SizeUnreported ==
    /\ Fault
    /\ \/ pub.pc = "source" /\ ~cap.inner /\ ~cap.opened /\ env.backend = "mutter"
       \/ pub.pc = "dialog"
    /\ Spawn(FALSE)
    /\ UNCHANGED <<shutdown, env, epoch>>

\* The dialog is dismissed, or the portal's answer has no stream or no remote;
\* without the Metadata cursor mode that was asked for the error is fatal.
PortalFails ==
    /\ Fault
    /\ pub.pc = "dialog"
    /\ \E fatal \in BOOLEAN : Fail(fatal)
    /\ UNCHANGED <<shutdown, env, cap, thread, frame, cursors, epoch>>

\* The compositor refuses to record.
OpenFails ==
    /\ Fault
    /\ pub.pc = "source" /\ ~cap.inner /\ ~cap.opened /\ env.backend = "mutter"
    /\ Fail(FALSE)
    /\ UNCHANGED <<shutdown, env, cap, thread, frame, cursors, epoch>>

\* start_pipewire_thread polls for the thread's error and for its pointer.
Started ==
    /\ pub.pc = "starting" /\ pw.slot
    /\ cap' = [cap EXCEPT !.inner = TRUE]
    /\ Goto("connect")
    /\ UNCHANGED <<shutdown, desktop, thread, frame, cursors, epoch>>

\* The thread failed, or its loop came and went between two polls.
NotStarted ==
    /\ pub.pc = "starting" /\ pw.st = "ended"
    /\ StopAndJoin("failed", FALSE)
    /\ UNCHANGED <<shutdown, desktop, cap, epoch>>

\* PIPEWIRE_START_TIMEOUT passes with neither: the slot holds nothing to quit.
StartTimeout ==
    /\ Fault
    /\ pub.pc = "starting" /\ pw.st = "init"
    /\ pub' = [pub EXCEPT !.pc = "joining", !.next = "failed", !.fatal = FALSE]
    /\ pw' = [Stop(pw) EXCEPT !.late = TRUE]
    /\ UNCHANGED <<shutdown, env, cap, readback, frame, cursors, epoch>>

(***************************************************************************)
(* The PipeWire thread.                                                    *)
(***************************************************************************)
\* Returning from run_pipewire_loop clears the slot before the loop is gone.
Ended(p) == [p EXCEPT !.st = "ended", !.slot = FALSE]

\* Connected and the node discovered: the main loop's pointer is published.
PwPublish ==
    /\ pw.st = "init"
    /\ pw' = [pw EXCEPT !.st = "setup", !.slot = TRUE]
    /\ UNCHANGED <<shutdown, desktop, pub, cap, readback, frame, cursors, epoch>>

\* The stream is created and connected; the main loop runs.
PwRun ==
    /\ pw.st = "setup"
    /\ pw' = [pw EXCEPT !.st = "running"]
    /\ UNCHANGED <<shutdown, desktop, pub, cap, readback, frame, cursors, epoch>>

\* Any step before the main loop runs may fail; only start_pipewire_thread
\* looks at the error.
PwStartFails ==
    /\ Fault
    /\ pw.st \in {"init", "setup"}
    /\ pw' = [Ended(pw) EXCEPT !.error = TRUE]
    /\ UNCHANGED <<shutdown, env, pub, cap, readback, frame, cursors, epoch>>

PwQuit ==
    /\ pw.st = "running" /\ pw.quit
    /\ pw' = Ended(pw)
    /\ UNCHANGED <<shutdown, desktop, pub, cap, readback, frame, cursors, epoch>>

\* record_pipewire_error: the capture is told, the loop quits itself.
RecordError(p, fatal) == [p EXCEPT !.failed = IF fatal THEN "fatal" ELSE "transient", !.quit = TRUE]

Running == pw.st = "running" /\ ~pw.quit

\* param_changed: a size other than the one opened is refused.
Negotiate ==
    /\ Running /\ ~pw.format
    /\ pw' = IF env.source = cap.size THEN [pw EXCEPT !.format = TRUE]
             ELSE RecordError(pw, FALSE)
    /\ UNCHANGED <<shutdown, desktop, pub, cap, readback, frame, cursors, epoch>>

\* state_changed to Error.
StreamError ==
    /\ Fault
    /\ Running
    /\ \E fatal \in BOOLEAN : pw' = RecordError(pw, fatal)
    /\ UNCHANGED <<shutdown, env, pub, cap, readback, frame, cursors, epoch>>

MetadataMissing ==
    /\ Fault
    /\ Running /\ pw.format /\ RequireMetadata
    /\ pw' = RecordError(pw, TRUE)
    /\ UNCHANGED <<shutdown, env, pub, cap, readback, frame, cursors, epoch>>

(***************************************************************************)
(* The cursor.  An update is what a buffer's cursor metadata says, with    *)
(* the bitmap as pipewire_cursor_bitmap decoded it: None if the compositor *)
(* left it out, and if its layout, size or format was refused.             *)
(***************************************************************************)
Update == [visible : BOOLEAN, id : Images, bitmap : Images \union {None}, moved : BOOLEAN]

CursorUpdates ==
    {u \in Update :
        IF u.visible THEN u.bitmap \in {u.id, None}
        ELSE u = [visible |-> FALSE, id |-> CHOOSE i \in Images : TRUE,
                  bitmap |-> None, moved |-> FALSE]}

\* The image the compositor shows has been decoded since it was last hidden or
\* another was shown.
CompAfter(u) ==
    IF u.visible
    THEN [sent |-> u.id, decoded |-> u.bitmap # None \/ (comp.decoded /\ comp.sent = u.id)]
    ELSE [comp EXCEPT !.decoded = FALSE]

\* The bitmap of a cursor that keeps its id is carried over.
Carried(u) ==
    IF u.bitmap = None /\ last # None /\ last.id = u.id THEN last.bitmap ELSE u.bitmap

\* pipewire_cursor_sample: a hidden cursor forgets the image, a repetition is dropped.
CursorSample(u) ==
    IF ~u.visible
    THEN /\ last' = None
         /\ sample' = IF last = None THEN sample
                      ELSE [taken |-> FALSE, visible |-> FALSE, bitmap |-> None,
                            image |-> None, decoded |-> FALSE]
    ELSE LET state == [id |-> u.id, bitmap |-> Carried(u)]
         IN  /\ last' = state
             /\ sample' = IF last = state /\ ~u.moved THEN sample
                          ELSE [taken |-> FALSE, visible |-> TRUE, bitmap |-> state.bitmap,
                                image |-> u.id, decoded |-> CompAfter(u).decoded]

EmitCursor ==
    \/ UNCHANGED cursors
    \/ \E u \in CursorUpdates :
          CursorSample(u) /\ comp' = CompAfter(u)

\* What a thread nobody listens to any more sends has no effect.
Listened == Running /\ pw.format /\ ~pw.late

\* A buffer within min_frame_interval of the last copy: the cursor only.
ProcessEarly ==
    /\ Listened
    /\ EmitCursor
    /\ UNCHANGED <<shutdown, desktop, pub, cap, thread, frame, epoch>>

ProcessFrame ==
    /\ Listened
    /\ IF NeedsGpu
       THEN /\ readback' = Latched
            /\ IF WithGbm \/ WithEgl
               THEN frame' = [size |-> ReadSize, taken |-> FALSE] /\ UNCHANGED pw
               ELSE pw' = RecordError(pw, TRUE) /\ UNCHANGED frame
       ELSE /\ frame' = [size |-> ReadSize, taken |-> FALSE]
            /\ UNCHANGED thread
    /\ UNCHANGED <<shutdown, desktop, pub, cap, epoch>>
    /\ EmitCursor

\* A buffer PipeWire has not mapped cannot be mapped here either.
MmapFails ==
    /\ Fault
    /\ Listened /\ ~NeedsGpu
    /\ EmitCursor
    /\ pw' = RecordError(pw, FALSE)
    /\ UNCHANGED <<shutdown, env, pub, cap, readback, frame, epoch>>

(***************************************************************************)
(* The publish loop.                                                       *)
(***************************************************************************)
Connect ==
    /\ pub.pc = "connect"
    /\ Goto("first")
    /\ UNCHANGED <<shutdown, desktop, cap, thread, frame, cursors, epoch>>

\* Mutant of EndEpoch: the bitmap state outlives its epoch.
EndEpochOnly ==
    /\ encoder' = None /\ shown' = None /\ event' = None
    /\ UNCHANGED bitmaps

\* The encoder and CursorBitmapState live as long as one run_native_client.
EndEpoch ==
    /\ encoder' = None /\ bitmaps' = None /\ shown' = None /\ event' = None

\* Connecting, resuming or publishing fails: the capture is kept.
RelayFails ==
    /\ Fault
    /\ pub.pc \in {"connect", "encode", "cursor"}
    /\ Fail(FALSE)
    /\ UNCHANGED <<shutdown, env, cap, thread, frame, cursors, epoch>>

Waiting == pub.pc \in {"first", "frame"}

NewFrame == frame # None /\ ~frame.taken

\* The encoder takes even dimensions only.
EncoderBuilds(size) == ValidDimensions(size)

\* The first frame sizes the encoder, which its own thread builds.
SpawnEncoder(size) ==
    /\ encoder' = size
    /\ IF EncoderBuilds(size) THEN pub' = [pub EXCEPT !.pc = "top", !.image = size]
       ELSE Fail(TRUE)

\* next_frame and the scaling to the frame limits.
NextFrame ==
    /\ Waiting /\ pw.failed = None /\ NewFrame
    /\ frame' = [frame EXCEPT !.taken = TRUE]
    /\ LET size == Resized[frame.size]
       IN  IF pub.pc = "first"
           THEN SpawnEncoder(size)
           ELSE /\ pub' = [pub EXCEPT !.pc = "encode", !.image = size]
                /\ UNCHANGED encoder
    /\ UNCHANGED <<shutdown, desktop, cap, thread, cursors, bitmaps, shown, event>>

\* Mutant of DropCapture: the failed capture is kept.
KeepCapture(fatal) ==
    /\ Fail(fatal)
    /\ UNCHANGED <<cap, thread, frame, cursors>>

\* capture_frame returned an error: the inner capture is dropped.
DropCapture(fatal) ==
    /\ cap' = [cap EXCEPT !.inner = FALSE]
    /\ StopAndJoin("failed", fatal)

CaptureFailed ==
    /\ Waiting /\ pw.failed # None
    /\ DropCapture(pw.failed = "fatal")
    /\ UNCHANGED <<shutdown, desktop, epoch>>

NoFrame == Waiting /\ pw.failed = None /\ ~NewFrame

\* Ten seconds without a frame, from a thread that is gone ...
FrameTimeout ==
    /\ NoFrame /\ pw.st = "ended"
    /\ DropCapture(FALSE)
    /\ UNCHANGED <<shutdown, desktop, epoch>>

\* ... or from one that is merely slow.
SlowFrame ==
    /\ Fault
    /\ NoFrame /\ pw.st # "ended"
    /\ DropCapture(FALSE)
    /\ UNCHANGED <<shutdown, env, epoch>>

\* Returning drops the capture, and the PipeWire thread with it.
Finish ==
    /\ EndEpoch
    /\ IF cap.inner THEN cap' = [cap EXCEPT !.inner = FALSE] /\ StopAndJoin("ended", pub.fatal)
       ELSE Goto("ended") /\ UNCHANGED <<cap, thread, frame, cursors>>

Top ==
    /\ pub.pc = "top"
    /\ IF shutdown THEN Finish
       ELSE /\ Goto(IF pub.image # None THEN "encode" ELSE "frame")
            /\ UNCHANGED <<cap, thread, frame, cursors, epoch>>
    /\ UNCHANGED <<shutdown, desktop>>

ShutdownWhileWaiting ==
    /\ pub.pc = "frame" /\ shutdown
    /\ Finish
    /\ UNCHANGED <<shutdown, desktop>>

\* A frame of another size than the encoder's is fatal.
Encode ==
    /\ pub.pc = "encode"
    /\ IF pub.image = encoder THEN pub' = [pub EXCEPT !.pc = "cursor", !.image = None]
       ELSE Fail(TRUE)
    /\ UNCHANGED <<shutdown, desktop, cap, thread, frame, cursors, epoch>>

\* OpenH264 fails, which is fatal, or does not start a group with a keyframe.
EncodeFails ==
    /\ Fault
    /\ pub.pc = "encode"
    /\ \E fatal \in BOOLEAN : Fail(fatal)
    /\ UNCHANGED <<shutdown, env, cap, thread, frame, cursors, epoch>>

\* cursor_to_event: a new bitmap is sent at once, a known one when its refresh
\* is due.
ToEvent(s, due) ==
    /\ bitmaps' = IF s.bitmap = None THEN bitmaps ELSE s.bitmap
    /\ shown' = IF s.bitmap = None \/ (s.bitmap = bitmaps /\ ~due) THEN shown ELSE s.bitmap

\* A sample's position is clamped to the source, then scaled to the encoder's
\* size; a hidden cursor is at the origin.
ClampedPosition == [i \in {1, 2} |-> Min({Max({CursorAt[i], 0}), cap.size[i]})]

ScaledCoordinate(s, i) ==
    IF ~s.visible THEN 0
    ELSE Min({(ClampedPosition[i] * encoder[i]) \div cap.size[i], encoder[i]})

\* One event of one epoch.  pipewire_cursor_bitmap has checked the bitmap.
ValidBatch(s, at) ==
    /\ encoder[1] > 0 /\ encoder[2] > 0
    /\ \A i \in {1, 2} : at[i] \in IF s.visible THEN 0..encoder[i] ELSE {0}
    /\ s.bitmap # None => s.visible

EncodeBatch(s) == ValidBatch(s, [i \in {1, 2} |-> ScaledCoordinate(s, i)])

PublishCursor ==
    /\ pub.pc = "cursor"
    /\ IF sample = None \/ sample.taken
       THEN Goto("sleep") /\ UNCHANGED <<sample, bitmaps, shown, event>>
       ELSE /\ sample' = [sample EXCEPT !.taken = TRUE]
            /\ \E due \in BOOLEAN : ToEvent(sample, due)
            /\ IF EncodeBatch(sample)
               THEN /\ Goto("sleep")
                    /\ event' = [visible |-> sample.visible, image |-> sample.image,
                                 decoded |-> sample.decoded]
               ELSE Fail(FALSE) /\ UNCHANGED event
    /\ UNCHANGED <<shutdown, desktop, cap, thread, frame, comp, last, encoder>>

Sleep ==
    /\ pub.pc = "sleep"
    /\ Goto("top")
    /\ UNCHANGED <<shutdown, desktop, cap, thread, frame, cursors, epoch>>

(***************************************************************************)
(* run_client: a turn that failed is retried after a delay, unless the     *)
(* error is fatal or the process is shutting down.                         *)
(***************************************************************************)
Retry ==
    /\ pub.pc = "failed"
    /\ IF shutdown \/ pub.fatal THEN Finish
       ELSE Goto("delay") /\ EndEpoch /\ UNCHANGED <<cap, thread, frame, cursors>>
    /\ UNCHANGED <<shutdown, desktop>>

Delay ==
    /\ pub.pc = "delay"
    /\ IF shutdown THEN Finish
       ELSE Goto("source") /\ UNCHANGED <<cap, thread, frame, cursors, epoch>>
    /\ UNCHANGED <<shutdown, desktop>>

(***************************************************************************)
(* The environment: a signal, a source that changes size (the stream is    *)
(* negotiated again), a driver that loses an ability.                      *)
(***************************************************************************)
Signal ==
    /\ ~shutdown
    /\ shutdown' = TRUE
    /\ UNCHANGED <<desktop, pub, cap, thread, frame, cursors, epoch>>

SourceResized ==
    /\ Fault
    /\ \E s \in Sources \ {env.source} : env' = [env EXCEPT !.source = s]
    /\ pw' = [pw EXCEPT !.format = FALSE]
    /\ UNCHANGED <<shutdown, pub, cap, readback, frame, cursors, epoch>>

DriverDegrades ==
    /\ Fault
    /\ \E d \in {"device", "gbm", "egl", "scale"} :
          env.driver[d] /\ env' = [env EXCEPT !.driver[d] = FALSE]
    /\ UNCHANGED <<shutdown, pub, cap, thread, frame, cursors, epoch>>

(***************************************************************************)
(* resolve_publish_targets opens the portal's grant before the threads run. *)
(***************************************************************************)
Init ==
    /\ shutdown = FALSE /\ faults = MaxFaults
    /\ env \in Desktops
    /\ pub = [pc |-> "source", next |-> "failed", fatal |-> FALSE, image |-> None]
    /\ \E reported \in BOOLEAN :
          cap = [opened |-> env.backend = "portal", inner |-> FALSE, size |-> OpenedSize(reported)]
    /\ pw = NoThread
    /\ readback = FreshReadback
    /\ frame = None /\ sample = None /\ last = None
    /\ comp = [sent |-> None, decoded |-> FALSE]
    /\ encoder = None /\ bitmaps = None /\ shown = None /\ event = None

Publisher ==
    \/ Source \/ Started \/ NotStarted \/ Joined \/ Connect \/ NextFrame \/ CaptureFailed
    \/ FrameTimeout \/ Top \/ ShutdownWhileWaiting \/ Encode \/ PublishCursor
    \/ Sleep \/ Retry \/ Delay

PipeWire == PwPublish \/ PwRun \/ PwQuit \/ Negotiate

Faults ==
    \/ SizeUnreported \/ PortalFails \/ OpenFails \/ StartTimeout \/ PwStartFails
    \/ StreamError \/ MetadataMissing \/ MmapFails
    \/ RelayFails \/ SlowFrame \/ EncodeFails \/ SourceResized \/ DriverDegrades

\* The thread has ended, or waits for a PipeWire thread that was told nothing.
Done == (pub.pc = "ended" \/ pw.late) /\ UNCHANGED vars

Next ==
    \/ Publisher \/ PipeWire \/ Faults \/ Done
    \/ DialogAccepted \/ ProcessEarly \/ ProcessFrame \/ Signal

(***************************************************************************)
(* Threads are scheduled; the compositor keeps delivering buffers, and     *)
(* min_frame_interval lets one of them through again and again.  A poll    *)
(* every millisecond does not miss a pointer for ever.  Nothing makes a    *)
(* user answer a dialog.                                                   *)
(***************************************************************************)
Spec ==
    /\ Init /\ [][Next]_vars
    /\ WF_vars(Publisher) /\ WF_vars(PipeWire) /\ WF_vars(ProcessFrame)
    /\ SF_vars(Started)

TypeOK ==
    /\ shutdown \in BOOLEAN /\ faults \in 0..MaxFaults
    /\ env.source \in Sources /\ env.driver \in [device : BOOLEAN, gbm : BOOLEAN, egl : BOOLEAN, scale : BOOLEAN]
    /\ pub.pc \in {"source", "dialog", "starting", "joining", "connect", "first", "top", "frame",
                    "encode", "cursor", "sleep", "failed", "delay", "ended"}
    /\ pw.st \in {"none", "init", "setup", "running", "ended"}
    /\ pw.slot => pw.st \in {"setup", "running"}
    /\ cap.inner => pw.st # "none"
    /\ {bitmaps, shown} \subseteq Images \union {None}

(***************************************************************************)
(* A published event that shows the cursor names the image the compositor  *)
(* shows, whatever was overwritten in the channel unread and however often *)
(* the epoch began anew, if the publisher could decode that image since    *)
(* the cursor last changed or was hidden.  Otherwise the event names the   *)
(* image before it: pipewire_cursor_sample remembers a bitmap for as long  *)
(* as the cursor keeps its id, and cursor_to_event has no other to name.   *)
(***************************************************************************)
CursorImageRight ==
    event # None /\ event.visible /\ event.decoded => shown = event.image

(***************************************************************************)
(* A PipeWire thread never outlives its capture: none is alive when        *)
(* another is started, or when the publisher thread has ended              *)
(* (start_pipewire_thread calls the contrary a leak).                      *)
(***************************************************************************)
NoThreadOutlivesCapture ==
    [][(pw.st # "init" /\ pw'.st = "init") \/ pub'.pc = "ended"
        => pw.st \in {"none", "ended"}]_vars

(***************************************************************************)
(* A shutdown ends the publisher thread and its PipeWire thread, unless    *)
(* the portal's dialog is open, which is waited for without the shutdown   *)
(* channel, or start_pipewire_thread gave up on a thread that came up      *)
(* later: nothing can make that one quit, and it is joined.                *)
(***************************************************************************)
ShutdownCompletes == shutdown ~> (pub.pc \in {"ended", "dialog"} \/ pw.late)

(***************************************************************************)
(* After any failures that stop, frames are published again and again,     *)
(* unless the error was fatal, the process shuts down, or one of the waits *)
(* of ShutdownCompletes is not answered.                                   *)
(***************************************************************************)
CaptureRecovers == []<>(pub.pc \in {"sleep", "ended", "dialog"} \/ pw.late)
=============================================================================
