------------------------------ MODULE PageFlip ------------------------------
(***************************************************************************)
(* pvranimate: frames are rendered into three buffers in turn and shown by *)
(* page flips. At most one flip can be pending; the event that tells of    *)
(* its completion is read only when the program polls for it.              *)
(***************************************************************************)
EXTENDS DisplayRelease, Sequences, FiniteSets

CONSTANT Frames   \* frames to present (the argument; at least 1)

NBUF == 3

ASSUME PageFlipAssumption == Frames \in Nat \ {0} /\ Fbs = 0 .. NBUF - 1

VARIABLES
  pc,         \* where the main function is
  retry,      \* g_pace_retry: FALSE with PACE=gate
  frame,      \* the frame of the loop
  slot,       \* the buffer whose flips the last loop waits for
  issued,     \* flips_issued
  completed,  \* flips_completed
  pending,    \* flips_pending
  timeouts,   \* flip_timeouts # 0
  events,     \* flip events the kernel queued and nobody read
  gpu         \* the buffer the GPU renders into, or NoFb

counts == <<issued, completed, pending>>
mainVars == <<pc, retry, frame, slot, counts, timeouts, events, gpu>>
vars == <<displayVars, mainVars>>

\* Mutant: the buffers before the last are used in turn.
CurOneLess == frame % (NBUF - 1)

Cur == frame % NBUF

At(p) == InMain /\ pc = p
To(p) == pc' = p

MainInit ==
  /\ pc = "open" /\ retry \in BOOLEAN /\ frame = 0 /\ slot = 0 /\ timeouts = FALSE
  /\ issued = [b \in Fbs |-> 0] /\ completed = [b \in Fbs |-> 0] /\ pending = 0
  /\ events = <<>> /\ gpu = NoFb

Init == DisplayInit /\ MainInit

-----------------------------------------------------------------------------
\* DIE(), or main returning: pc says why.
Leave(why) == To(why) /\ Exit /\ UNCHANGED <<frame, slot, retry, counts, timeouts, events, gpu>>

\* The connector and its CRTC are found and the CRTC is armed for release.
Open ==
  /\ At("open")
  /\ To("setup") /\ Arm
  /\ UNCHANGED <<frame, slot, retry, counts, timeouts, events, gpu>>

\* The device, the buffers and their frame buffers, the pipeline: every one of
\* these calls ends the program when it fails.
SetUp ==
  /\ At("setup") /\ To("show")
  /\ UNCHANGED <<displayVars, frame, slot, retry, counts, timeouts, events, gpu>>

\* drmModeSetCrtc(): a flip needs a CRTC that is already active.
Show ==
  /\ At("show")
  /\ crtc' = 0 /\ To("wait")
  /\ UNCHANGED <<flip, turning, machine, armed, rel, blocked, life,
                 frame, slot, retry, counts, timeouts, events, gpu>>

Fail ==
  /\ fails /\ \E p \in {"open", "setup", "show", "drawing", "flip"}: At(p)
  /\ Leave("failed")

-----------------------------------------------------------------------------
\* The events waiting to be read that tell of a flip to a buffer.
Unread(b) == Cardinality({i \in 1 .. Len(events): events[i] = b})

\* Mutant: a flip that completes leaves the one in flight counted.
HandleEventsKeepPending ==
  /\ events # <<>>
  /\ completed' = [b \in Fbs |-> completed[b] + Unread(b)]
  /\ events' = <<>>
  /\ UNCHANGED <<issued, pending>>

\* page_flip_handler(), for every event that drmHandleEvent() reads.
HandleEvents ==
  /\ events # <<>>
  /\ completed' = [b \in Fbs |-> completed[b] + Unread(b)]
  /\ pending' = IF pending > Len(events) THEN pending - Len(events) ELSE 0
  /\ events' = <<>>
  /\ UNCHANGED issued

\* poll() gives up after a second.
PollTimesOut == events = <<>>

Quiet == UNCHANGED <<counts, events>>

\* Wait until this buffer's own flip has been heard of.
WaitBuffer ==
  /\ At("wait")
  /\ \/ /\ issued[Cur] > completed[Cur] /\ HandleEvents
        /\ UNCHANGED <<pc, timeouts>>
     \/ /\ issued[Cur] > completed[Cur] /\ PollTimesOut
        /\ timeouts' = TRUE /\ To("draw") /\ Quiet
     \/ /\ issued[Cur] <= completed[Cur]
        /\ To("draw") /\ Quiet /\ UNCHANGED timeouts
  /\ UNCHANGED <<displayVars, frame, slot, retry, gpu>>

\* The next frame, or the flips still in flight after the last one.
Presented == IF frame + 1 < Frames THEN frame' = frame + 1 /\ To("wait")
                                   ELSE frame' = frame /\ To("drain")

\* render_frame(): records and submits, then waits for the fence. The first
\* frame needs no flip.
Draw ==
  /\ At("draw") /\ gpu' = Cur /\ To("drawing")
  /\ UNCHANGED <<displayVars, frame, slot, retry, counts, timeouts, events>>

Drawn ==
  /\ At("drawing") /\ gpu' = NoFb
  /\ IF frame = 0 THEN Presented
     ELSE To(IF retry THEN "flip" ELSE "gate") /\ UNCHANGED frame
  /\ UNCHANGED <<displayVars, slot, retry, counts, timeouts, events>>

\* Mutant: the gate looks at this buffer's own flips.
GateOnOwnFlips ==
  /\ At("gate")
  /\ \/ issued[Cur] > completed[Cur] /\ HandleEvents /\ UNCHANGED <<pc, timeouts>>
     \/ issued[Cur] <= completed[Cur] /\ To("flip") /\ Quiet /\ UNCHANGED timeouts
  /\ UNCHANGED <<displayVars, frame, slot, retry, gpu>>

\* PACE=gate: not before the flip in flight has been heard of.
Gate ==
  /\ At("gate")
  /\ \/ pending > 0 /\ HandleEvents /\ UNCHANGED <<pc, timeouts>>
     \/ pending > 0 /\ PollTimesOut /\ timeouts' = TRUE /\ To("flip") /\ Quiet
     \/ pending = 0 /\ To("flip") /\ Quiet /\ UNCHANGED timeouts
  /\ UNCHANGED <<displayVars, frame, slot, retry, gpu>>

\* drmModePageFlip(), the first time or again: the kernel takes one flip at a time.
FlipTaken ==
  /\ At("flip") \/ At("again")
  /\ flip = NoFb /\ flip' = Cur
  /\ issued' = [issued EXCEPT ![Cur] = @ + 1] /\ pending' = pending + 1
  /\ Presented
  /\ UNCHANGED <<crtc, turning, machine, armed, rel, blocked, life,
                 slot, retry, completed, timeouts, events, gpu>>

FlipBusy ==
  /\ At("flip") /\ flip # NoFb /\ To("busy")
  /\ UNCHANGED <<displayVars, frame, slot, retry, counts, timeouts, events, gpu>>

\* One poll() for an event, then the flip once more.
AfterBusy ==
  /\ At("busy") /\ To("again")
  /\ HandleEvents \/ (PollTimesOut /\ Quiet)
  /\ UNCHANGED <<displayVars, frame, slot, retry, timeouts, gpu>>

StillBusy == At("again") /\ flip # NoFb /\ Leave("busy twice")

\* The flips still in flight are waited for, buffer by buffer.
Drain ==
  /\ At("drain")
  /\ \/ /\ slot < NBUF /\ issued[slot] > completed[slot] /\ HandleEvents
        /\ UNCHANGED <<pc, slot, timeouts>>
     \/ /\ slot < NBUF /\ issued[slot] > completed[slot] /\ PollTimesOut
        /\ timeouts' = TRUE /\ slot' = slot + 1 /\ Quiet /\ UNCHANGED pc
     \/ /\ slot < NBUF /\ issued[slot] <= completed[slot]
        /\ slot' = slot + 1 /\ Quiet /\ UNCHANGED <<pc, timeouts>>
     \/ slot = NBUF /\ To("tests") /\ Quiet /\ UNCHANGED <<slot, timeouts>>
  /\ UNCHANGED <<displayVars, frame, retry, gpu>>

\* The phase tests render into buffer 0, six times over, and read it back.
Tests ==
  /\ At("tests") /\ gpu' = 0 /\ To("testing")
  /\ UNCHANGED <<displayVars, frame, slot, retry, counts, timeouts, events>>

Tested ==
  /\ At("testing") /\ gpu' = NoFb /\ To("verdict") /\ Release("main")
  /\ UNCHANGED <<display, armed, blocked, life, frame, slot, retry, counts, timeouts, events>>

Verdict == At("verdict") /\ Leave("over")

-----------------------------------------------------------------------------
\* The kernel: the flip takes effect at the vertical blank and its event is queued.
Vblank ==
  /\ flip # NoFb
  /\ crtc' = flip /\ flip' = NoFb /\ events' = Append(events, flip)
  /\ UNCHANGED <<turning, machine, armed, rel, blocked, life,
                 pc, frame, slot, retry, counts, timeouts, gpu>>

Main ==
  \/ Open \/ SetUp \/ Show \/ WaitBuffer \/ Draw \/ Drawn \/ Gate \/ FlipTaken \/ FlipBusy
  \/ AfterBusy \/ StillBusy \/ Drain \/ Tests \/ Tested \/ Verdict

Releasing == (ReleaseStep \/ TurnOff) /\ UNCHANGED mainVars
Interrupted == (\E s \in Signals: Signal(s)) /\ UNCHANGED mainVars

Next == Main \/ Fail \/ Releasing \/ Interrupted \/ Vblank

Spec == Init /\ [][Next]_vars

-----------------------------------------------------------------------------
\* A frame is never rendered into the buffer the panel shows, nor into the one it
\* takes next, late events and timeouts included (the first frame alone is drawn
\* on screen). The loop does not look at the CRTC: that its count of flips, read
\* late, and the kernel's EBUSY suffice is why three buffers do.
NoTearing == pc = "drawing" /\ frame > 0 => gpu # crtc /\ gpu # flip

\* The flips to its three buffers.
FlipsIssued == issued[0] + issued[1] + issued[2]

\* A run that gets as far as its verdict without a timeout has heard of every flip
\* it issued, and has issued one for every frame but the first: the counts by
\* buffer and the count of flips in flight, decremented in one handler and tested
\* in three loops, agree.
AllFlipsLanded ==
  pc = "verdict" /\ ~timeouts =>
    /\ completed = issued /\ pending = 0
    /\ FlipsIssued = Frames - 1

\* With PACE=gate the CRTC is not busy when the program flips, unless a wait timed
\* out: "Should not happen with the gate above".
GateSuffices == pc \in {"busy", "busy twice"} => retry \/ timeouts
=============================================================================
