----------------------------- MODULE PanelTest ------------------------------
(***************************************************************************)
(* display-fix-test.sh: with the desktop stopped, a short scan-out, a      *)
(* short animation and two more animations run one after the other on one  *)
(* panel, each as a process of its own. After each step the script counts  *)
(* the faults of the display engine, and stops at the first ones. A step   *)
(* that hangs or is interrupted is sent a signal; its exit status is not   *)
(* looked at.                                                              *)
(***************************************************************************)
EXTENDS PageFlip

CONSTANTS
  Modes,      \* the modes of the connector, each of a size of its own
  FirstMode,  \* the mode it lists first
  NoMode,     \* none chosen
  OtherSize   \* a mode, or the size of one, that the connector does not list

ASSUME PanelTestAssumption ==
  FirstMode \in Modes /\ {NoMode, OtherSize} \cap Modes = {} /\ NoMode # OtherSize

VARIABLES
  stage, size, mode, ran,   \* those of the scan-out
  step,                     \* the step of the script
  faults,                   \* the display engine has scanned freed memory
  cut                       \* history: a release stopped looking at a CRTC still on

Still == INSTANCE Scanout WITH Fb <- 0

stillVars == <<stage, size, mode, ran>>
testVars == <<vars, stillVars, step, faults, cut>>

TestInit ==
  /\ Init /\ retry /\ Still!MainInit
  /\ step = "scanout" /\ faults = FALSE /\ cut = FALSE

\* The display engine faults as long as it scans a buffer that is gone.
Faulting == life = "ended" /\ crtc \in Fbs

\* A release stops looking at a CRTC that is on: it has looked often enough, or a
\* handler takes over.
CutShort ==
  /\ rel.at = "confirm" /\ crtc # Off
  /\ (rel.left = 0 /\ rel'.at = "done") \/ rel'.at = "test"

\* What any step of a program or of the display adds to the faults counted since the
\* script began, and to the history of releases.
Counting == faults' = (faults \/ Faulting) /\ cut' = (cut \/ CutShort)

\* A program ended and its file descriptors are closed: the next one is started. The
\* kernel is through with what the last one asked of the CRTC before it takes more.
Begin(next) ==
  /\ step' = next /\ flip = NoFb /\ ~turning
  /\ armed' = FALSE /\ rel' = NoRelease /\ blocked' = {} /\ life' = "runs"
  /\ pc' = "open" /\ retry' \in BOOLEAN /\ frame' = 0 /\ slot' = 0 /\ timeouts' = FALSE
  /\ issued' = [b \in Fbs |-> 0] /\ completed' = issued' /\ pending' = 0
  /\ events' = <<>> /\ gpu' = NoFb
  /\ crtc' = IF Faulting THEN Others ELSE crtc
  /\ stage' = "over" /\ size' = OtherSize /\ mode' = NoMode /\ ran' = OtherSize
  /\ UNCHANGED <<flip, turning, machine>>

\* The faults are counted as soon as the program has ended.
Ended(s) == step = s /\ life = "ended" /\ Counting

\* TRIPWIRE, or the restore at the end of the script.
Stop(s) == step' = s /\ UNCHANGED <<vars, stillVars>>

AfterScanout ==
  /\ Ended("scanout")
  /\ IF faults' THEN Stop("stopped") ELSE Begin("animation")

AfterAnimation ==
  /\ Ended("animation")
  /\ IF faults' THEN Stop("stopped") ELSE Begin("first of two")

\* Between the two of the last step the faults are not looked at.
AfterFirst == Ended("first of two") /\ Begin("second of two")

AfterSecond == Ended("second of two") /\ Stop("result")

Animating == step \in {"animation", "first of two", "second of two"}

ScanoutStep == step = "scanout" /\ Still!Next /\ Counting /\ UNCHANGED <<mainVars, step>>
AnimationStep == Animating /\ Next /\ Counting /\ UNCHANGED <<stillVars, step>>
Script == AfterScanout \/ AfterAnimation \/ AfterFirst \/ AfterSecond
Over == step \in {"stopped", "result"} /\ UNCHANGED testVars

TestNext == ScanoutStep \/ AnimationStep \/ Script \/ Over

\* The processes and the script are scheduled, and vertical blanks come.
TestSpec ==
  /\ TestInit /\ [][TestNext]_testVars
  /\ WF_testVars(ScanoutStep /\ Still!Main) /\ WF_testVars(AnimationStep /\ Main)
  /\ WF_testVars(ScanoutStep /\ Still!Releasing) /\ WF_testVars(AnimationStep /\ Releasing)
  /\ WF_testVars(AnimationStep /\ Vblank) /\ WF_testVars(Script)

-----------------------------------------------------------------------------
\* "The display hand-back leaves no faults behind": on a machine whose calls succeed,
\* none of the four processes leaves the CRTC on a buffer that goes with it, whatever
\* signals it was sent. The one exception needs a CRTC still on when the call that
\* switches it off has returned, and a release that stopped looking at it: it looked
\* often enough, or a handler took over, which finds nothing armed and exits.
HandBackLeavesNoFaults == faults => fails \/ (lazy /\ cut)

\* However it goes, with calls that fail, panels slow to switch off, flips that are
\* late, a program that executes itself and signals at any time, each program ends
\* and the script gets to its end, where it restores the desktop.
ScriptEnds == <>(step \in {"stopped", "result"})
=============================================================================
