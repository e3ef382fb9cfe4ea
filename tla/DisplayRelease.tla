--------------------------- MODULE DisplayRelease ---------------------------
(***************************************************************************)
(* Handing the display back, as the two programs that put a Vulkan image   *)
(* on the panel do it (pvranimate.c, pvrscanout.c: arm_crtc_restore,       *)
(* release_display, restore_crtc, restore_crtc_on_signal).                 *)
(*                                                                         *)
(* The display engine scans the frame buffer its CRTC was given last, and  *)
(* the frame buffers go with the file descriptors of the process. So the   *)
(* CRTC is switched off first: before main returns, from atexit, from a    *)
(* signal handler and before an exec. A handler never returns to what it   *)
(* interrupted, so only the innermost release_display is kept (rel).       *)
(*                                                                         *)
(* The CRTC, its pending flip and the vertical blank are the kernel's.     *)
(***************************************************************************)
EXTENDS Naturals

CONSTANTS
  Fbs,        \* the frame buffers of this process
  Off,        \* the CRTC is switched off
  Others,     \* the CRTC scans somebody else's frame buffer
  NoFb,       \* no frame buffer
  Signals,    \* the signals that may be sent: SIGINT, SIGTERM
  Tries       \* how often the CRTC is looked at (50 in the code)

ASSUME DisplayReleaseAssumption ==
  /\ Tries \in Nat /\ "main" \notin Signals
  /\ {Off, Others, NoFb} \cap Fbs = {} /\ Off # Others /\ Off # NoFb /\ Others # NoFb

VARIABLES
  crtc,     \* what the CRTC scans
  flip,     \* the frame buffer it takes at the next vertical blank, or NoFb
  turning,  \* it has been told to switch off and still scans
  armed,    \* g_restore_crtc # 0
  rel,      \* the release_display that runs: where it is, what follows it
  blocked,  \* the signals whose handler runs
  life,     \* "runs" or "ended": all file descriptors closed
  lazy,     \* switching off takes effect after the call returned: never changes
  fails     \* a mode-setting call may fail: never changes

machine == <<lazy, fails>>
display == <<crtc, flip, turning, machine>>
displayVars == <<display, armed, rel, blocked, life>>

NoRelease == [at |-> "none", then |-> "main", left |-> 0]

\* The process is executing its main function.
InMain == life = "runs" /\ rel = NoRelease

\* release_display() is called; "then" says what comes after it: the main
\* function goes on, the process exits, or the handler of a signal calls _exit.
Release(then) == rel' = [at |-> "test", then |-> then, left |-> Tries]

\* exit(), or main returning: atexit(restore_crtc), once it is armed, releases.
Exit == Release("exit") /\ UNCHANGED <<display, armed, blocked, life>>

\* arm_crtc_restore()
Arm == armed' = TRUE /\ UNCHANGED <<display, rel, blocked, life>>

DisplayInit ==
  /\ crtc \in {Off, Others} /\ flip = NoFb /\ turning = FALSE
  /\ lazy \in BOOLEAN /\ fails \in BOOLEAN
  /\ armed = FALSE /\ rel = NoRelease /\ blocked = {} /\ life = "runs"

-----------------------------------------------------------------------------
\* A step of the release_display that runs.
Step(at) == life = "runs" /\ rel.at = at
Go(at) == rel' = [rel EXCEPT !.at = at]

\* Nothing to restore: not armed, or another call has been here.
SkipRelease ==
  Step("test") /\ ~armed /\ Go("done") /\ UNCHANGED <<display, armed, blocked, life>>

\* drmModeSetCrtc() with no frame buffer. The kernel waits for a flip under way.
SwitchOff ==
  /\ Step("test") /\ armed
  /\ \/ turning' = (crtc # Off)
     \/ fails /\ UNCHANGED turning
  /\ Go("call")
  /\ UNCHANGED <<crtc, flip, machine, armed, blocked, life>>

\* The call returned, and g_restore_crtc is cleared. 
Switched ==
  /\ Step("call") /\ (lazy \/ ~turning)
  /\ armed' = FALSE
  /\ Go("confirm")
  /\ UNCHANGED <<display, blocked, life>>

\* Mutant: the CRTC is looked at once, on or off.
ConfirmOnce == Step("confirm") /\ Go("done") /\ UNCHANGED <<display, armed, blocked, life>>

\* drmModeGetCrtc(): off, or not readable, or looked often enough; else once more.
Confirm ==
  /\ Step("confirm")
  /\ \/ (crtc = Off \/ rel.left = 0 \/ fails) /\ Go("done")
     \/ crtc # Off /\ rel.left > 0 /\ rel' = [rel EXCEPT !.left = @ - 1]
  /\ UNCHANGED <<display, armed, blocked, life>>

\* release_display() returns: the main function goes on, or the process is over.
Returned ==
  /\ Step("done")
  /\ IF rel.then = "main" THEN rel' = NoRelease /\ UNCHANGED life
                          ELSE life' = "ended" /\ UNCHANGED rel
  /\ UNCHANGED <<display, armed, blocked>>

\* A signal arrives. Until the handlers are installed it kills the process; a
\* process inside a mode-setting call takes it when the call returns; a handler
\* is not interrupted by its own signal.
Signal(s) ==
  /\ life = "runs" /\ s \notin blocked
  /\ ~(rel.at = "call" /\ turning /\ ~lazy)
  /\ IF armed \/ rel # NoRelease
       THEN Release(s) /\ blocked' = blocked \cup {s} /\ UNCHANGED life
       ELSE life' = "ended" /\ UNCHANGED <<rel, blocked>>
  /\ UNCHANGED <<display, armed>>

\* The display engine stops scanning.
TurnOff ==
  /\ turning /\ flip = NoFb
  /\ crtc' = Off /\ turning' = FALSE
  /\ UNCHANGED <<flip, machine, armed, rel, blocked, life>>

ReleaseStep == SkipRelease \/ SwitchOff \/ Switched \/ Confirm \/ Returned
=============================================================================
