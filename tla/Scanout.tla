------------------------------- MODULE Scanout -------------------------------
(***************************************************************************)
(* pvrscanout: one image is rendered, verified, exported, imported by the  *)
(* display device and scanned out. When the panel runs at another size     *)
(* than the image, the display is released and the program executes itself *)
(* again with the panel's size; nothing but its arguments survives.        *)
(***************************************************************************)
EXTENDS DisplayRelease

CONSTANTS
  Fb,         \* the frame buffer of the image
  Modes,      \* the modes of the connector, each of a size of its own
  FirstMode,  \* the mode it lists first
  NoMode,     \* no mode: the CRTC is off
  OtherSize   \* a mode, or the size of one, that the connector does not list

VARIABLES
  stage,      \* where the main function is
  size,       \* the size asked for: its arguments
  mode,       \* the mode it will set
  ran         \* the mode the CRTC was set to last

mainVars == <<stage, size, mode, ran>>
vars == <<displayVars, mainVars>>

At(p) == InMain /\ stage = p
To(p) == stage' = p

MainInit ==
  /\ stage = "render" /\ size \in Modes \cup {OtherSize} /\ mode = NoMode
  /\ ran \in Modes \cup {OtherSize}

\* DIE(), or main returning: stage says why.
Leave(why) == To(why) /\ Exit /\ UNCHANGED <<size, mode, ran>>

\* The image is rendered, copied out and compared, and its memory exported. A
\* wrong image never gets near the display.
Render ==
  /\ At("render")
  /\ \/ To("open") /\ UNCHANGED <<displayVars, size, mode, ran>>
     \/ Leave("wrong image")

\* The connector, its CRTC and "the mode the panel is already running", if its
\* CRTC is on and the connector has that mode; the first one listed otherwise.
Open ==
  /\ At("open") /\ To("size") /\ Arm
  /\ mode' = IF crtc # Off /\ ran \in Modes THEN ran ELSE FirstMode
  /\ UNCHANGED <<size, ran>>

\* The panel is not of the image's size: release the display, then execl().
WrongSize ==
  /\ At("size") /\ mode # size
  /\ To("exec") /\ Release("main")
  /\ UNCHANGED <<display, armed, blocked, life, size, mode, ran>>

\* Mutant: the arguments are passed on as they were.
ExecSameSize ==
  /\ At("exec")
  /\ To("render") /\ mode' = NoMode /\ armed' = FALSE
  /\ UNCHANGED <<display, rel, blocked, life, ran, size>>

\* execl(): every file descriptor is closed, every variable and handler is lost.
Exec ==
  /\ At("exec")
  /\ To("render") /\ size' = mode /\ mode' = NoMode /\ armed' = FALSE
  /\ UNCHANGED <<display, rel, blocked, life, ran>>

\* drmModeAddFB2() and drmModeSetCrtc(), then drmModeGetCrtc() to see it committed.
Show ==
  /\ At("size") /\ mode = size
  /\ To("hold") /\ crtc' = Fb /\ ran' = mode /\ turning' = FALSE
  /\ UNCHANGED <<flip, machine, armed, rel, blocked, life, size, mode>>

\* The image stays on screen for some seconds.
Hold ==
  /\ At("hold") /\ To("verdict") /\ Release("main")
  /\ UNCHANGED <<display, armed, blocked, life, size, mode, ran>>

Verdict == At("verdict") /\ Leave("over")

Fail == fails /\ (\E p \in {"render", "open", "size", "exec"}: At(p)) /\ Leave("failed")

Main == Render \/ Open \/ WrongSize \/ Exec \/ Show \/ Hold \/ Verdict
Releasing == (ReleaseStep \/ TurnOff) /\ UNCHANGED mainVars
Interrupted == (\E s \in Signals: Signal(s)) /\ UNCHANGED mainVars

Next == Main \/ Fail \/ Releasing \/ Interrupted
=============================================================================
