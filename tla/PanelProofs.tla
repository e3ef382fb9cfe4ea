----------------------------- MODULE PanelProofs -----------------------------
(***************************************************************************)
(* The four programs that use the panel one after the other, for any       *)
(* number of frames, any modes and signals, and however often the CRTC is  *)
(* looked at.                                                              *)
(*                                                                         *)
(* Two arguments that do not need each other.  Frame by frame: the kernel  *)
(* takes a flip only when the one before has landed, so beside a frame's   *)
(* own buffer at most the two before it are on the panel or about to be    *)
(* (Paced), and the count of flips in flight is that of the kernel until a *)
(* wait gives up (Counted); the flips to a buffer are those heard of, the  *)
(* event to be read and the one with the kernel, and the end goes through  *)
(* the buffers until none is owed one (Booked).  And for the hand-back:    *)
(* while a buffer is on                                                    *)
(* the panel the CRTC is armed for release, and whatever ends the program  *)
(* releases it first (HandedBack).                                         *)
(***************************************************************************)
EXTENDS PanelTest, FiniteSetTheorems, SequenceTheorems, TLAPS

Starting == {"open", "setup", "show"}
Looping == {"wait", "draw", "drawing", "gate", "flip", "busy", "again"}
Ending == {"drain", "tests", "testing"}
Left == {"verdict", "failed", "busy twice", "over"}

\* The buffer of an earlier frame; the first frame is shown without a flip.
Earlier(n) == (frame - n) % NBUF
Shown == IF frame = 0 THEN 0 ELSE Earlier(1)

\* The panel shows the frame before, or the one before that and takes it next.
Paced ==
    /\ pc \in Starting \cup Looping \cup Ending \cup Left
    /\ frame \in Nat /\ flip \in Fbs \cup {NoFb}
    /\ pc \in Starting => frame = 0 /\ flip = NoFb
    /\ pc \in Looping =>
          \/ flip = NoFb /\ crtc \in {Off, Shown}
          \/ frame > 1 /\ flip = Earlier(1) /\ crtc \in {Off, Earlier(2)}
    /\ pc \in {"gate", "flip", "busy", "again"} => frame > 0
    /\ pc = "drawing" => gpu = Cur
    /\ step = "scanout" => pc = "open"

\* The flips in flight are those whose event was not read.
Outstanding ==
    /\ events \in Seq(Fbs)
    /\ pending = Len(events) + (IF flip = NoFb THEN 0 ELSE 1)

\* The program flips, and finds the CRTC busy, with one in flight for a reason.
Counted ==
    /\ Outstanding
    /\ pc = "flip" => retry \/ timeouts \/ flip = NoFb
    /\ pc \in {"busy", "again", "busy twice"} => retry \/ timeouts

\* The flips to a buffer: heard of, to be read, or with the kernel.
Balanced ==
    /\ issued \in [Fbs -> Nat] /\ completed \in [Fbs -> Nat]
    /\ \A b \in Fbs : issued[b] = completed[b] + Unread(b) + (IF flip = b THEN 1 ELSE 0)

\* One flip for every frame but the first, and none of the buffers that the end
\* has gone through is owed one.
Booked ==
    /\ Balanced /\ slot \in 0 .. NBUF
    /\ pc \in Starting \cup Looping =>
          /\ slot = 0 /\ frame < Frames
          /\ FlipsIssued = IF frame = 0 THEN 0 ELSE frame - 1
    /\ pc \in Ending \cup {"verdict"} =>
          /\ FlipsIssued = Frames - 1
          /\ timeouts \/ \A b \in Fbs : b < slot => completed[b] = issued[b]
    /\ pc \in {"tests", "testing", "verdict"} => slot = NBUF

\* Where a program has armed the CRTC, and where it has put a buffer on it.
MainArmed ==
    IF step = "scanout" THEN stage \in {"size", "hold"}
                        ELSE pc \in {"setup", "show"} \cup Looping \cup Ending
MainShows == IF step = "scanout" THEN stage = "hold" ELSE pc \in Looping \cup Ending

\* The mode-setting calls succeed, and what they do is done when they return, or every
\* release has looked at the CRTC until it was off.
Prompt == ~fails /\ (lazy => ~cut)

Rels == [at: {"none", "test", "call", "confirm", "done"}, then: {"main", "exit"} \cup Signals, left: Nat]

\* Where the programs are, and what a release is.
Kinds ==
    /\ step \in {"scanout", "animation", "first of two", "second of two", "stopped", "result"}
    /\ rel \in Rels /\ (rel.at = "none" <=> rel = NoRelease)
    /\ flip # NoFb => step # "scanout"
    /\ step = "scanout" => stage \in {"render", "wrong image", "open", "size", "exec", "hold", "verdict",
                                      "over", "failed"}

\* While the CRTC is told to switch off a release runs; it ends with the CRTC off.
HandedBack ==
  Prompt =>
    /\ flip # NoFb => crtc \in Fbs
    /\ turning => /\ crtc # Off
                  /\ \/ rel.at = "call"
                     \/ lazy /\ rel.at = "confirm"
                     \/ lazy /\ rel.at = "test" /\ armed
    /\ rel.at = "call" => armed /\ (turning \/ crtc = Off)
    /\ rel.at = "confirm" => crtc = Off \/ (lazy /\ turning)
    /\ ~armed => crtc \notin Fbs \/ rel.at = "confirm"
    /\ life = "ended" \/ rel.at = "done" => crtc \notin Fbs
    /\ rel.at # "none" /\ rel.then = "main" => ~MainArmed
    /\ rel.at = "none" /\ life = "runs" /\ MainArmed => armed
    /\ rel.at = "none" /\ life = "runs" /\ MainShows => crtc \in Fbs
    /\ step = "scanout" /\ stage \in {"render", "open", "size", "exec"} => crtc \notin Fbs

Unfaulted == Prompt => ~faults

IInv == Paced /\ Counted /\ Booked /\ Kinds /\ HandedBack /\ Unfaulted

USE DisplayReleaseAssumption, PageFlipAssumption, PanelTestAssumption

-----------------------------------------------------------------------------
\* The books of a program that starts.
LEMMA NothingBooked ==
  ASSUME flip = NoFb, events = <<>>, issued = [b \in Fbs |-> 0], completed = [b \in Fbs |-> 0]
  PROVE  Balanced /\ FlipsIssued = 0
  <1>1. \A b : {i \in 1 .. Len(events) : events[i] = b} = {}
    OBVIOUS
  <1>2. \A b : Unread(b) = 0
    BY <1>1, FS_EmptySet DEF Unread
  <1>3. 0 \in Fbs /\ 1 \in Fbs /\ 2 \in Fbs
    BY DEF NBUF
  <1>. QED  BY <1>2, <1>3 DEF Balanced, FlipsIssued

\* Who leaves the animation's variables and the kernel's flip alone keeps the books.
LEMMA BooksSame ==
  ASSUME Booked, UNCHANGED <<mainVars, flip>>
  PROVE  Booked'
  <1>1. UNCHANGED <<pc, frame, slot, issued, completed, timeouts, events, flip>>
    BY DEF mainVars, counts
  <1>. QED  BY <1>1 DEF Booked, Balanced, Unread, FlipsIssued

\* The programs start.
LEMMA InitHolds == TestInit => IInv
  <1>. SUFFICES ASSUME TestInit PROVE IInv
    OBVIOUS
  <1>1. Paced
    BY DEF TestInit, Init, MainInit, DisplayInit, Paced, Starting, Looping, Ending, Left
  <1>2. Counted
    BY DEF TestInit, Init, MainInit, DisplayInit, Counted, Outstanding
  <1>3. Kinds
    BY DEF TestInit, Init, DisplayInit, Still!MainInit, Kinds, Rels, NoRelease
  <1>4. HandedBack
    BY DEF TestInit, Init, DisplayInit, Still!MainInit, HandedBack, MainArmed, MainShows, NoRelease
  <1>5. Booked
    <2>1. /\ pc = "open" /\ slot = 0 /\ frame = 0 /\ flip = NoFb /\ events = <<>>
          /\ issued = [b \in Fbs |-> 0] /\ completed = [b \in Fbs |-> 0]
      BY DEF TestInit, Init, MainInit, DisplayInit
    <2>. QED  BY <2>1, NothingBooked DEF Booked, Starting, Looping, Ending, NBUF
  <1>6. Unfaulted
    BY DEF TestInit, Unfaulted
  <1>. QED  BY <1>1, <1>2, <1>3, <1>4, <1>5, <1>6 DEF IInv

\* What was cut short stays so, and the faults counted are those of a program that ended.
LEMMA CountingOn ==
  ASSUME Counting, UNCHANGED machine
  PROVE  /\ Prompt' => Prompt /\ (lazy => ~CutShort)
         /\ HandedBack /\ Unfaulted => Unfaulted'
  <1>1. Prompt' => Prompt /\ (lazy => ~CutShort)
    BY DEF Counting, Prompt, machine
  <1>2. Prompt /\ HandedBack => ~Faulting
    BY DEF HandedBack, Faulting
  <1>3. faults' = (faults \/ Faulting)
    BY DEF Counting
  <1>. QED  BY <1>1, <1>2, <1>3 DEF Unfaulted

-----------------------------------------------------------------------------
(* The buffers of three frames running. *)

\* A frame and the two before it have a buffer each.
LEMMA ThreeApart ==
  ASSUME frame \in Nat
  PROVE  /\ Cur \in Fbs
         /\ frame > 0 => Earlier(1) \in Fbs /\ Cur # Earlier(1)
         /\ frame > 1 => Earlier(2) \in Fbs /\ Cur # Earlier(2) /\ Earlier(1) # Earlier(2)
  BY DEF Cur, Earlier, NBUF

\* The loop goes on with the next frame or ends: what was the frame's own buffer
\* is then the earlier one.
LEMMA PresentedIs ==
  ASSUME Paced, Presented
  PROVE  /\ frame' \in Nat
         /\ \/ pc' = "wait" /\ frame' = frame + 1 /\ Shown' = Cur /\ Earlier(1)' = Cur
               /\ (frame > 0 => Earlier(2)' = Earlier(1))
            \/ pc' = "drain" /\ frame' = frame
  BY DEF Paced, Presented, To, Shown, Earlier, Cur, NBUF

-----------------------------------------------------------------------------
(* The scan-out: it flips nothing, and leaves the animations' variables alone. *)

\* What no step of the scan-out does.
LEMMA StillFrame ==
  ASSUME ScanoutStep
  PROVE  step = "scanout" /\ UNCHANGED <<mainVars, step, flip, machine>>
  BY DEF ScanoutStep, mainVars, counts, machine, displayVars, display,
         Still!Next, Still!Main, Still!Fail, Still!Releasing, Still!Interrupted,
         Still!Render, Still!Open, Still!WrongSize, Still!Exec, Still!Show, Still!Hold, Still!Verdict,
         Still!Leave, Still!Exit, Still!Arm, Still!ReleaseStep, Still!SkipRelease, Still!SwitchOff,
         Still!Switched, Still!Confirm, Still!Returned, Still!TurnOff, Still!Signal,
         Still!displayVars, Still!display, Still!machine


\* The counts and the pace are left as they are.
LEMMA StillPaces ==
  ASSUME Paced, Counted, ScanoutStep
  PROVE  Paced' /\ Counted'
  <1>1. /\ step = "scanout" /\ step' = step /\ flip' = flip /\ frame' = frame /\ pc' = pc /\ gpu' = gpu
        /\ events' = events /\ pending' = pending /\ retry' = retry /\ timeouts' = timeouts
    BY StillFrame DEF mainVars, counts
  <1>2. pc = "open"
    BY <1>1 DEF Paced
  <1>3. Paced'
    BY <1>1, <1>2 DEF Paced, Starting, Looping, Ending, Left
  <1>4. Counted'
    BY <1>1 DEF Counted, Outstanding
  <1>. QED  BY <1>3, <1>4


-----------------------------------------------------------------------------
(* The release runs by itself: its steps are the same for both programs. *)

\* A release begins.
LEMMA ReleaseIs ==
  ASSUME NEW then \in {"main", "exit"} \cup Signals, Release(then)
  PROVE  rel' \in Rels /\ rel'.at = "test" /\ rel'.then = then /\ rel' # NoRelease
  BY DEF Release, Rels, NoRelease

\* A release goes on.
LEMMA GoIs ==
  ASSUME NEW at \in {"test", "call", "confirm", "done"}, rel \in Rels, Go(at)
  PROVE  rel' \in Rels /\ rel'.at = at /\ rel'.then = rel.then /\ rel' # NoRelease
  BY DEF Go, Rels, NoRelease

\* The CRTC is looked at once more.
LEMMA LookIs ==
  ASSUME rel \in Rels, rel.at = "confirm", rel.left > 0, rel' = [rel EXCEPT !.left = @ - 1]
  PROVE  rel' \in Rels /\ rel'.at = "confirm" /\ rel'.then = rel.then /\ rel' # NoRelease
  <1>1. rel.left - 1 \in Nat
    BY DEF Rels
  <1>. DEFINE less == rel.left - 1
  <1>2. rel' = [rel EXCEPT !.left = less]
    OBVIOUS
  <1>3. less \in Nat
    BY <1>1
  <1>. HIDE DEF less
  <1>. QED  BY <1>2, <1>3 DEF Rels, NoRelease

\* No release is none that runs.
LEMMA NoneIs == NoRelease \in Rels /\ NoRelease.at = "none" /\ NoRelease.then = "main"
  BY DEF NoRelease, Rels

\* The steps of a release leave the programs where they are, and what they keep
\* of the CRTC holds all along.
LEMMA ReleaseGoesOn ==
  ASSUME Kinds, HandedBack, Counting, UNCHANGED <<stage, step, pc>>,
         \/ ReleaseStep \/ TurnOff \/ (\E s \in Signals: Signal(s))
  PROVE  Kinds' /\ HandedBack'
  <1>. USE DEF displayVars, display, machine, Kinds, Step
  <1>m. MainArmed' = MainArmed /\ MainShows' = MainShows
    BY DEF MainArmed, MainShows
  <1>n. rel \in Rels
    OBVIOUS
  <1>p. lazy' = lazy /\ fails' = fails
    BY DEF ReleaseStep, SkipRelease, SwitchOff, Switched, Confirm, Returned, TurnOff, Signal
  <1>q. Prompt' => Prompt /\ (lazy => ~CutShort)
    BY <1>p, CountingOn
  <1>. DEFINE Onward(at) == rel' \in Rels /\ rel'.at = at /\ rel'.then = rel.then /\ rel' # NoRelease
  <1>1. CASE SkipRelease
    <2>1. Onward("done")
      BY <1>n, <1>1, GoIs DEF SkipRelease
    <2>2. Kinds'
      BY <1>1, <2>1 DEF SkipRelease
    <2>3. HandedBack'
      BY <1>m, <1>p, <1>q, <1>1, <2>1 DEF SkipRelease, HandedBack
    <2>. QED  BY <2>2, <2>3
  <1>2. CASE SwitchOff
    <2>1. Onward("call")
      BY <1>n, <1>2, GoIs DEF SwitchOff
    <2>2. Kinds'
      BY <1>2, <2>1 DEF SwitchOff
    <2>3. UNCHANGED <<crtc, flip, armed, life>> /\ rel.at = "test" /\ life = "runs" /\ armed
      BY <1>2 DEF SwitchOff
    <2>4. Prompt => turning' = (crtc # Off)
      BY <1>2 DEF SwitchOff, Prompt
    <2>5. HandedBack'
      BY <1>m, <1>p, <1>q, <2>1, <2>3, <2>4 DEF HandedBack
    <2>. QED  BY <2>2, <2>5
  <1>3. CASE Switched
    <2>1. Onward("confirm")
      BY <1>n, <1>3, GoIs DEF Switched
    <2>2. Kinds'
      BY <1>3, <2>1 DEF Switched
    <2>3. /\ UNCHANGED <<crtc, flip, turning, life>> /\ rel.at = "call" /\ life = "runs"
          /\ lazy \/ ~turning
      BY <1>3 DEF Switched
    <2>4. HandedBack'
      BY <1>m, <1>p, <1>q, <2>1, <2>3 DEF HandedBack
    <2>. QED  BY <2>2, <2>4
  <1>4. CASE Confirm
    <2>1. Onward("confirm") \/ Onward("done")
      BY <1>n, <1>4, GoIs, LookIs DEF Confirm
    <2>2. Kinds'
      BY <1>4, <2>1 DEF Confirm
    <2>3. UNCHANGED <<crtc, flip, turning, armed, life>> /\ rel.at = "confirm" /\ life = "runs"
      BY <1>4 DEF Confirm
    <2>4. Prompt' => crtc = Off \/ rel'.at = "confirm"
      <3>. SUFFICES ASSUME Prompt', crtc # Off, rel'.at # "confirm" PROVE FALSE
        OBVIOUS
      <3>1. rel'.at = "done" /\ ~fails /\ lazy /\ ~CutShort
        BY <1>q, <2>1, <2>3 DEF HandedBack, Prompt
      <3>2. \/ crtc = Off \/ rel.left = 0 \/ fails
            \/ rel' = [rel EXCEPT !.left = @ - 1]
        BY <1>4 DEF Confirm
      <3>3. rel' # [rel EXCEPT !.left = @ - 1]
        BY <1>n, <2>3, <3>1 DEF Rels
      <3>. QED  BY <2>3, <3>1, <3>2, <3>3 DEF CutShort
    <2>5. CASE Onward("confirm")
      <3>0. rel'.at = rel.at /\ rel'.then = rel.then
        BY <2>3, <2>5
      <3>1. HandedBack'
        BY <1>m, <1>p, <1>q, <2>3, <3>0 DEF HandedBack
      <3>. QED  BY <2>2, <3>1
    <2>6. CASE Onward("done")
      <3>1. HandedBack'
        BY <1>m, <1>p, <1>q, <2>3, <2>4, <2>6 DEF HandedBack
      <3>. QED  BY <2>2, <3>1
    <2>. QED  BY <2>1, <2>5, <2>6
  <1>5. CASE Returned
    <2>1. Kinds'
      BY <1>5, NoneIs DEF Returned
    <2>2. CASE rel.then = "main" /\ rel' = NoRelease /\ UNCHANGED life
      <3>1. rel'.at = "none" /\ rel.at = "done" /\ life = "runs"
            /\ UNCHANGED <<crtc, flip, turning, lazy, fails, armed>>
        BY <1>5, <2>2, NoneIs DEF Returned
      <3>2. Prompt => ~MainArmed /\ ~MainShows
        BY <2>2, <3>1 DEF HandedBack, MainArmed, MainShows
      <3>3. HandedBack'
        BY <1>m, <1>p, <1>q, <2>2, <3>1, <3>2 DEF HandedBack
      <3>. QED  BY <2>1, <3>3
    <2>3. CASE life' = "ended" /\ UNCHANGED rel
      <3>1. rel.at = "done" /\ life = "runs" /\ UNCHANGED <<crtc, flip, turning, lazy, fails, armed>>
        BY <1>5 DEF Returned
      <3>2. HandedBack'
        BY <1>m, <1>p, <1>q, <2>3, <3>1 DEF HandedBack
      <3>. QED  BY <2>1, <3>2
    <2>. QED  BY <1>5, <2>1, <2>2, <2>3 DEF Returned
  <1>6. CASE TurnOff
    <2>1. Kinds'
      BY <1>6 DEF TurnOff
    <2>2. HandedBack'
      BY <1>m, <1>p, <1>q, <1>6 DEF TurnOff, HandedBack
    <2>. QED  BY <2>1, <2>2
  <1>7. ASSUME NEW s \in Signals, Signal(s)
        PROVE  Kinds' /\ HandedBack'
    <2>1. CASE Release(s) /\ (armed \/ rel # NoRelease) /\ UNCHANGED life
      <3>1. rel' \in Rels /\ rel'.at = "test" /\ rel'.then = s /\ rel' # NoRelease
        BY <2>1, ReleaseIs
      <3>2. Kinds'
        BY <1>7, <3>1 DEF Signal
      <3>3. UNCHANGED <<crtc, flip, turning, armed, life>> /\ life = "runs"
            /\ ~(rel.at = "call" /\ turning /\ ~lazy)
        BY <1>7, <2>1 DEF Signal
      <3>4. Prompt' /\ rel.at = "confirm" => crtc = Off
        BY <1>p, <1>q, <3>1, <3>3 DEF CutShort, HandedBack
      <3>5. s # "main"
        OBVIOUS
      <3>6. HandedBack'
        BY <1>m, <1>p, <1>q, <3>1, <3>3, <3>4, <3>5 DEF HandedBack
      <3>. QED  BY <3>2, <3>6
    <2>2. CASE ~armed /\ rel = NoRelease /\ life' = "ended" /\ UNCHANGED rel
      <3>1. Kinds'
        BY <1>7, <2>2 DEF Signal
      <3>2. HandedBack'
        BY <1>m, <1>p, <1>q, <1>7, <2>2 DEF Signal, HandedBack
      <3>. QED  BY <3>1, <3>2
    <2>. QED  BY <1>7, <2>1, <2>2 DEF Signal
  <1>. QED  BY <1>1, <1>2, <1>3, <1>4, <1>5, <1>6, <1>7 DEF ReleaseStep


-----------------------------------------------------------------------------
(* The scan-out's way of using them. *)

\* It releases the display as the animation does.
LEMMA StillReleases ==
  /\ Still!NoRelease = NoRelease
  /\ \A then: Still!Release(then) => Release(then)
  /\ Still!ReleaseStep => ReleaseStep
  /\ Still!TurnOff => TurnOff
  /\ \A s: Still!Signal(s) => Signal(s)
  <1>. USE DEF Still!displayVars, Still!display, Still!machine, displayVars, display, machine,
               Still!NoRelease, NoRelease, Still!Release, Release,
               Still!Step, Step, Still!Go, Go
  <1>1. Still!NoRelease = NoRelease /\ (\A then: Still!Release(then) => Release(then))
    OBVIOUS
  <1>2. (Still!SkipRelease => SkipRelease) /\ (Still!SwitchOff => SwitchOff)
    BY DEF Still!SkipRelease, SkipRelease, Still!SwitchOff, SwitchOff
  <1>3. (Still!Switched => Switched) /\ (Still!Confirm => Confirm)
    BY DEF Still!Switched, Switched, Still!Confirm, Confirm
  <1>4. (Still!Returned => Returned) /\ (Still!TurnOff => TurnOff)
    BY DEF Still!Returned, Returned, Still!TurnOff, TurnOff
  <1>5. \A s: Still!Signal(s) => Signal(s)
    BY DEF Still!Signal, Signal
  <1>. QED  BY <1>1, <1>2, <1>3, <1>4, <1>5 DEF Still!ReleaseStep, ReleaseStep

\* The main function runs when no release does.
LEMMA StillAt ==
  ASSUME NEW p, Still!At(p), Kinds
  PROVE  rel = NoRelease /\ rel.at = "none" /\ life = "runs" /\ stage = p
  BY StillReleases DEF Still!At, Still!InMain, Kinds

\* On the way out it releases the display.
LEMMA StillLeaves ==
  ASSUME NEW why, Still!Leave(why)
  PROVE  /\ stage' = why
         /\ rel' \in Rels /\ rel'.at = "test" /\ rel'.then = "exit" /\ rel' # NoRelease
         /\ UNCHANGED <<crtc, flip, turning, lazy, fails, armed, life>>
  <1>1. stage' = why /\ Still!Release("exit") /\ UNCHANGED <<crtc, flip, turning, lazy, fails, armed, life>>
    BY DEF Still!Leave, Still!Exit, Still!To, Still!display, Still!machine
  <1>. QED  BY <1>1, StillReleases, ReleaseIs

\* Each action of the main function keeps the CRTC armed while its image is there.
LEMMA StillHandsBack ==
  ASSUME Kinds, HandedBack, ScanoutStep
  PROVE  Kinds' /\ HandedBack'
  <1>1. /\ step = "scanout" /\ step' = step /\ flip' = flip /\ pc' = pc /\ flip = NoFb
        /\ lazy' = lazy /\ fails' = fails /\ (Prompt' => Prompt) /\ Counting
    BY StillFrame, CountingOn DEF mainVars, counts, machine, Kinds, ScanoutStep
  <1>. DEFINE Same == UNCHANGED <<crtc, turning, armed, life>>
  <1>. DEFINE Onward(then) ==
         rel' \in Rels /\ rel'.at = "test" /\ rel'.then = then /\ rel' # NoRelease
  <1>2. ASSUME NEW p \in {"render", "open", "size", "exec", "verdict"}, NEW why \in {"wrong image", "failed", "over"},
               Still!At(p), Still!Leave(why)
        PROVE  Kinds' /\ HandedBack'
    <2>1. stage = p /\ life = "runs" /\ rel.at = "none" /\ Same /\ Onward("exit") /\ stage' = why
      BY <1>2, StillAt, StillLeaves
    <2>2. Kinds'
      BY <1>1, <2>1 DEF Kinds
    <2>3. HandedBack'
      BY <1>1, <2>1 DEF HandedBack
    <2>. QED  BY <2>2, <2>3
  <1>3. CASE Still!Render
    <2>1. CASE Still!Leave("wrong image")
      BY <1>2, <1>3, <2>1 DEF Still!Render
    <2>2. CASE stage' = "open" /\ UNCHANGED Still!displayVars
      <3>1. stage = "render" /\ life = "runs" /\ rel.at = "none" /\ Same /\ UNCHANGED rel
        BY <1>3, <2>2, StillAt DEF Still!Render, Still!displayVars, Still!display
      <3>2. Kinds'
        BY <1>1, <2>2, <3>1 DEF Kinds
      <3>3. HandedBack'
        BY <1>1, <2>2, <3>1 DEF HandedBack, MainArmed, MainShows
      <3>. QED  BY <3>2, <3>3
    <2>. QED  BY <1>3, <2>1, <2>2 DEF Still!Render, Still!To
  <1>4. CASE Still!Open
    <2>1. /\ stage = "open" /\ life = "runs" /\ rel.at = "none"
          /\ stage' = "size" /\ armed' = TRUE /\ UNCHANGED <<crtc, turning, life, rel>>
      BY <1>4, StillAt DEF Still!Open, Still!To, Still!Arm, Still!display
    <2>2. Kinds'
      BY <1>1, <2>1 DEF Kinds
    <2>3. HandedBack'
      BY <1>1, <2>1 DEF HandedBack, MainArmed, MainShows
    <2>. QED  BY <2>2, <2>3
  <1>5. CASE Still!WrongSize
    <2>1. stage = "size" /\ life = "runs" /\ rel.at = "none" /\ stage' = "exec" /\ Same /\ Still!Release("main")
      BY <1>5, StillAt DEF Still!WrongSize, Still!To, Still!display
    <2>2. Onward("main")
      BY <2>1, StillReleases, ReleaseIs
    <2>3. Kinds'
      BY <1>1, <2>1, <2>2 DEF Kinds
    <2>4. HandedBack'
      BY <1>1, <2>1, <2>2 DEF HandedBack, MainArmed, MainShows
    <2>. QED  BY <2>3, <2>4
  <1>6. CASE Still!Exec
    <2>1. /\ stage = "exec" /\ life = "runs" /\ rel.at = "none"
          /\ stage' = "render" /\ armed' = FALSE /\ UNCHANGED <<crtc, turning, life, rel>>
      BY <1>6, StillAt DEF Still!Exec, Still!To, Still!display
    <2>2. Kinds'
      BY <1>1, <2>1 DEF Kinds
    <2>3. HandedBack'
      BY <1>1, <2>1 DEF HandedBack, MainArmed, MainShows
    <2>. QED  BY <2>2, <2>3
  <1>7. CASE Still!Show
    <2>1. /\ stage = "size" /\ life = "runs" /\ rel.at = "none"
          /\ stage' = "hold" /\ crtc' = 0 /\ turning' = FALSE /\ UNCHANGED <<armed, life, rel>>
      BY <1>7, StillAt DEF Still!Show, Still!To
    <2>2. 0 \in Fbs
      BY DEF NBUF
    <2>3. Kinds'
      BY <1>1, <2>1 DEF Kinds
    <2>4. HandedBack'
      BY <1>1, <2>1, <2>2 DEF HandedBack, MainArmed, MainShows
    <2>. QED  BY <2>3, <2>4
  <1>8. CASE Still!Hold
    <2>1. stage = "hold" /\ life = "runs" /\ rel.at = "none" /\ stage' = "verdict" /\ Same /\ Still!Release("main")
      BY <1>8, StillAt DEF Still!Hold, Still!To, Still!display
    <2>2. Onward("main")
      BY <2>1, StillReleases, ReleaseIs
    <2>3. Kinds'
      BY <1>1, <2>1, <2>2 DEF Kinds
    <2>4. HandedBack'
      BY <1>1, <2>1, <2>2 DEF HandedBack, MainArmed, MainShows
    <2>. QED  BY <2>3, <2>4
  <1>9. CASE Still!Verdict
    BY <1>2, <1>9 DEF Still!Verdict
  <1>10. CASE Still!Fail
    BY <1>2, <1>10 DEF Still!Fail
  <1>11. CASE Still!Releasing \/ Still!Interrupted
    <2>1. UNCHANGED <<stage, step, pc>>
      BY <1>1, <1>11 DEF Still!Releasing, Still!Interrupted, Still!mainVars
    <2>2. ReleaseStep \/ TurnOff \/ (\E s \in Signals: Signal(s))
      BY <1>11, StillReleases DEF Still!Releasing, Still!Interrupted
    <2>. QED  BY <1>1, <2>1, <2>2, ReleaseGoesOn
  <1>. QED
    BY <1>3, <1>4, <1>5, <1>6, <1>7, <1>8, <1>9, <1>10, <1>11
    DEF ScanoutStep, Still!Next, Still!Main


-----------------------------------------------------------------------------
(* The animation: its pace. *)

\* The release takes no part in the pace: it can only switch the CRTC off.
LEMMA ReleaseKeepsPace ==
  ASSUME Paced, Counted, Releasing \/ Interrupted, step' = step
  PROVE  Paced' /\ Counted'
  <1>1. UNCHANGED <<pc, frame, gpu, retry, pending, timeouts, events>>
    BY DEF Releasing, Interrupted, mainVars, counts
  <1>2. flip' = flip /\ (crtc' = crtc \/ (crtc' = Off /\ flip = NoFb))
    BY DEF Releasing, Interrupted, ReleaseStep, SkipRelease, SwitchOff, Switched, Confirm, Returned,
           TurnOff, Signal, display, machine
  <1>3. Shown' = Shown /\ Earlier(1)' = Earlier(1) /\ Earlier(2)' = Earlier(2) /\ Cur' = Cur
    BY <1>1 DEF Shown, Earlier, Cur
  <1>4. Paced'
    BY <1>1, <1>2, <1>3 DEF Paced
  <1>5. Counted'
    BY <1>1, <1>2 DEF Counted, Outstanding
  <1>. QED  BY <1>4, <1>5

\* An action that leaves the display alone and keeps to the frame.
LEMMA FrameGoesOn ==
  ASSUME Paced, Animating, step' = step, UNCHANGED <<crtc, flip, frame>>,
         pc \in Looping => pc' \in Looping \cup Ending \cup Left,
         pc \notin Looping => pc' \in Starting \cup Ending \cup Left,
         pc \notin Starting => pc' \notin Starting,
         pc' \in {"gate", "flip", "busy", "again"} => frame > 0,
         pc' = "drawing" => gpu' = Cur
  PROVE  Paced'
  <1>1. Shown' = Shown /\ Earlier(1)' = Earlier(1) /\ Earlier(2)' = Earlier(2) /\ Cur' = Cur
    BY DEF Shown, Earlier, Cur
  <1>. QED  BY <1>1 DEF Paced, Starting, Looping, Ending, Left, Animating

\* The next frame finds the one before on the panel, or taken next.
LEMMA NextFrame ==
  ASSUME Animating, step' = step, pc' = "wait", frame' \in Nat,
         \/ flip' = NoFb /\ crtc' \in {Off, Shown'}
         \/ frame' > 1 /\ flip' \in Fbs /\ flip' = Earlier(1)' /\ crtc' \in {Off, Earlier(2)'}
  PROVE  Paced'
  <1>1. step' # "scanout" /\ flip' \in Fbs \cup {NoFb}
    BY DEF Animating
  <1>2. pc' \in Looping /\ pc' \notin Starting
        /\ pc' \notin {"gate", "flip", "busy", "again"} /\ pc' # "drawing"
    BY DEF Looping, Starting
  <1>. QED  BY <1>1, <1>2 DEF Paced

\* Each action of the animation keeps to the pace.
LEMMA AnimationPaces ==
  ASSUME Paced, Counted, AnimationStep
  PROVE  Paced'
  <1>0. Animating /\ step' = step
    BY DEF AnimationStep
  <1>. USE <1>0
  <1>. DEFINE Same == UNCHANGED <<crtc, flip, frame>>
  <1>1. ASSUME NEW why \in {"failed", "busy twice", "over"}, Leave(why)
        PROVE  Paced'
    <2>1. Same /\ pc' = why
      BY <1>1 DEF Leave, To, Exit, display
    <2>. QED  BY <2>1, FrameGoesOn DEF Left, Starting, Looping
  <1>2. CASE Open \/ SetUp
    <2>1. Same /\ pc \in {"open", "setup"} /\ pc' \in {"setup", "show"}
      BY <1>2 DEF Open, SetUp, At, To, Arm, displayVars, display
    <2>. QED  BY <2>1, FrameGoesOn DEF Starting, Looping
  <1>3. CASE Show
    <2>1. pc = "show" /\ pc' = "wait" /\ crtc' = 0 /\ UNCHANGED <<flip, frame, gpu>>
      BY <1>3 DEF Show, At, To
    <2>2. frame' = 0 /\ flip' = NoFb /\ Shown' = 0
      BY <2>1 DEF Paced, Starting, Shown
    <2>. QED  BY <2>1, <2>2 DEF Paced, Starting, Looping, Animating, Ending, Left
  <1>4. CASE WaitBuffer \/ Draw \/ Gate \/ FlipBusy \/ AfterBusy
    <2>1. Same
      BY <1>4 DEF WaitBuffer, Draw, Gate, FlipBusy, AfterBusy, displayVars, display
    <2>2. \/ pc = "wait" /\ pc' \in {"wait", "draw"}
          \/ pc = "draw" /\ pc' = "drawing" /\ gpu' = Cur
          \/ pc \in {"gate", "flip", "busy"} /\ pc' \in {"gate", "flip", "busy", "again"}
      BY <1>4 DEF WaitBuffer, Draw, Gate, FlipBusy, AfterBusy, At, To
    <2>3. pc' \in {"gate", "flip", "busy", "again"} => frame > 0
      BY <2>2 DEF Paced
    <2>. QED  BY <2>1, <2>2, <2>3, FrameGoesOn DEF Starting, Looping
  <1>5. CASE Drawn
    <2>1. pc = "drawing" /\ UNCHANGED <<crtc, flip>>
      BY <1>5 DEF Drawn, At, displayVars, display
    <2>2. CASE frame = 0
      <3>1. Presented
        BY <1>5, <2>2 DEF Drawn
      <3>2. flip = NoFb /\ crtc \in {Off, 0} /\ Cur = 0
        BY <2>1, <2>2 DEF Paced, Looping, Shown, Cur, NBUF
      <3>3. flip' = NoFb /\ crtc' \in {Off, 0} /\ flip' \in Fbs \cup {NoFb}
        BY <2>1, <3>2
      <3>4. CASE pc' = "wait" /\ frame' = frame + 1 /\ Shown' = Cur
        <4>1. frame' = 1 /\ crtc' \in {Off, Shown'}
          BY <2>2, <3>2, <3>3, <3>4
        <4>. QED  BY <3>3, <3>4, <4>1, NextFrame
      <3>5. CASE pc' = "drain" /\ frame' = frame
        BY <2>1, <3>5, FrameGoesOn DEF Starting, Looping, Ending
      <3>. QED  BY <3>1, <3>4, <3>5, PresentedIs
    <2>3. CASE frame # 0
      <3>1. frame > 0 /\ Same /\ pc' \in {"flip", "gate"}
        BY <1>5, <2>1, <2>3 DEF Drawn, To, Paced
      <3>. QED  BY <2>1, <3>1, FrameGoesOn DEF Starting, Looping
    <2>. QED  BY <2>2, <2>3
  <1>6. CASE FlipTaken
    <2>1. pc \in {"flip", "again"} /\ flip = NoFb /\ flip' = Cur /\ crtc' = crtc /\ Presented
      BY <1>6 DEF FlipTaken, At
    <2>2. frame > 0 /\ frame \in Nat /\ crtc \in {Off, Shown} /\ Cur \in Fbs /\ Shown = Earlier(1)
      BY <2>1, ThreeApart DEF Paced, Looping, Shown
    <2>3. CASE pc' = "wait" /\ frame' = frame + 1 /\ Earlier(1)' = Cur /\ Earlier(2)' = Earlier(1)
      <3>1. frame' \in Nat /\ frame' > 1
        BY <2>2, <2>3
      <3>. QED  BY <2>1, <2>2, <2>3, <3>1, NextFrame
    <2>4. CASE pc' = "drain" /\ frame' = frame
      <3>1. flip' \in Fbs \cup {NoFb} /\ step' # "scanout"
        BY <2>1, <2>2 DEF Animating
      <3>. QED  BY <2>2, <2>4, <3>1 DEF Paced, Starting, Looping, Ending
    <2>. QED  BY <2>1, <2>2, <2>3, <2>4, PresentedIs
  <1>7. CASE Drain \/ Tests \/ Tested
    <2>1. Same /\ pc \in Ending /\ pc' \in Ending \cup {"verdict"}
      BY <1>7 DEF Drain, Tests, Tested, At, To, displayVars, display, Ending
    <2>. QED  BY <2>1, FrameGoesOn DEF Ending, Starting, Looping, Left
  <1>8. CASE Vblank
    <2>1. flip # NoFb /\ crtc' = flip /\ flip' = NoFb /\ UNCHANGED <<pc, frame, gpu>>
      BY <1>8 DEF Vblank
    <2>2. Shown' = Shown /\ Earlier(1)' = Earlier(1) /\ Earlier(2)' = Earlier(2) /\ Cur' = Cur
      BY <2>1 DEF Shown, Earlier, Cur
    <2>3. pc \in Looping => crtc' = Shown
      BY <2>1 DEF Paced, Shown
    <2>. QED  BY <2>1, <2>2, <2>3 DEF Paced
  <1>9. CASE Releasing \/ Interrupted
    BY <1>9, ReleaseKeepsPace
  <1>. QED
    BY <1>1, <1>2, <1>3, <1>4, <1>5, <1>6, <1>7, <1>8, <1>9
    DEF AnimationStep, Next, Main, Fail, StillBusy, Verdict


-----------------------------------------------------------------------------
(* The animation: its count of flips. *)

\* What is counted: the events to be read, and the flip the kernel has.
LEMMA OutstandingIs ==
  ASSUME Outstanding
  PROVE  /\ events \in Seq(Fbs) /\ Len(events) \in Nat
         /\ flip = NoFb => pending = Len(events)
         /\ flip # NoFb => pending = Len(events) + 1
         /\ pending = 0 => flip = NoFb
  <1>1. events \in Seq(Fbs) /\ pending = Len(events) + (IF flip = NoFb THEN 0 ELSE 1)
    BY DEF Outstanding
  <1>2. Len(events) \in Nat
    BY <1>1
  <1>. QED  BY <1>1, <1>2

\* Reading the events takes as many off the count as there are.
LEMMA EventsRead ==
  ASSUME Outstanding, HandleEvents, flip' = flip
  PROVE  Outstanding'
  <1>1. events' = <<>> /\ pending' = IF pending > Len(events) THEN pending - Len(events) ELSE 0
    BY DEF HandleEvents
  <1>2. events' \in Seq(Fbs) /\ Len(events') = 0
    BY <1>1
  <1>3. pending' = IF flip = NoFb THEN 0 ELSE 1
    BY <1>1, OutstandingIs
  <1>. QED  BY <1>2, <1>3 DEF Outstanding

\* An action that takes no flip counts none, and goes on to the flip only when
\* there is none, or with a retry, or after a wait that gave up.
LEMMA CountGoesOn ==
  ASSUME Counted, flip' = flip, retry' = retry, timeouts => timeouts',
         (Quiet \/ HandleEvents),
         pc' = "flip" => pc = "flip" \/ retry \/ timeouts' \/ pending = 0,
         pc' \in {"busy", "again", "busy twice"} =>
            \/ pc \in {"busy", "again", "busy twice"}
            \/ pc = "flip" /\ flip # NoFb
  PROVE  Counted'
  <1>1. Outstanding
    BY DEF Counted
  <1>2. Outstanding'
    <2>1. CASE Quiet
      BY <1>1, <2>1 DEF Quiet, counts, Outstanding
    <2>2. CASE HandleEvents
      BY <1>1, <2>2, EventsRead
    <2>. QED  BY <2>1, <2>2
  <1>3. pending = 0 => flip = NoFb
    BY <1>1, OutstandingIs
  <1>. QED  BY <1>2, <1>3 DEF Counted

\* Each action of the animation keeps the count.
LEMMA AnimationCounts ==
  ASSUME Paced, Counted, AnimationStep
  PROVE  Counted'
  <1>. USE DEF Quiet, counts
  <1>0. step' = step
    BY DEF AnimationStep
  <1>. DEFINE Same == UNCHANGED <<flip, retry>> /\ (timeouts => timeouts')
  <1>1. ASSUME NEW why \in {"failed", "busy twice", "over"}, Leave(why), why = "busy twice" => pc = "again"
        PROVE  Counted'
    <2>1. Same /\ Quiet /\ pc' = why
      BY <1>1 DEF Leave, To, Exit, display
    <2>. QED  BY <1>1, <2>1, CountGoesOn
  <1>2. CASE Open \/ SetUp \/ Show \/ Draw
    <2>1. Same /\ Quiet /\ pc' \in {"setup", "show", "wait", "drawing"}
      BY <1>2 DEF Open, SetUp, Show, Draw, To, Arm, displayVars, display
    <2>. QED  BY <2>1, CountGoesOn
  <1>3. CASE WaitBuffer \/ Drain \/ Tests \/ Tested
    <2>1. Same /\ (Quiet \/ HandleEvents)
      BY <1>3 DEF WaitBuffer, Drain, Tests, Tested, displayVars, display
    <2>2. pc' \in {"wait", "draw", "drain", "tests", "testing", "verdict"}
      BY <1>3 DEF WaitBuffer, Drain, Tests, Tested, At, To
    <2>. QED  BY <2>1, <2>2, CountGoesOn
  <1>4. CASE Drawn
    <2>1. Same /\ Quiet /\ (pc' \in {"wait", "drain", "gate"} \/ (pc' = "flip" /\ retry))
      BY <1>4 DEF Drawn, Presented, To, displayVars, display
    <2>. QED  BY <2>1, CountGoesOn
  <1>5. CASE Gate
    <2>1. Same /\ (Quiet \/ HandleEvents) /\ pc = "gate"
          /\ (pc' = "gate" \/ (pc' = "flip" /\ (timeouts' \/ pending = 0)))
      BY <1>5 DEF Gate, At, To, displayVars, display
    <2>. QED  BY <2>1, CountGoesOn
  <1>6. CASE FlipTaken
    <2>0. Outstanding
      BY DEF Counted
    <2>1. /\ flip = NoFb /\ flip' = Cur /\ pending' = pending + 1 /\ events' = events
          /\ pc' \in {"wait", "drain"}
      BY <1>6 DEF FlipTaken, Presented, To
    <2>2. Cur # NoFb
      BY ThreeApart DEF Paced
    <2>3. events \in Seq(Fbs) /\ pending' = Len(events) + 1
      BY <2>0, <2>1, OutstandingIs
    <2>4. Outstanding'
      BY <2>1, <2>2, <2>3 DEF Outstanding
    <2>. QED  BY <2>1, <2>4 DEF Counted
  <1>7. CASE FlipBusy \/ AfterBusy
    <2>1. Same /\ (Quiet \/ HandleEvents) /\ pc' \in {"busy", "again"}
      BY <1>7 DEF FlipBusy, AfterBusy, To, displayVars, display
    <2>2. pc = "busy" \/ (pc = "flip" /\ flip # NoFb)
      BY <1>7 DEF FlipBusy, AfterBusy, At
    <2>. QED  BY <2>1, <2>2, CountGoesOn
  <1>8. CASE Vblank
    <2>0. Outstanding
      BY DEF Counted
    <2>1. flip # NoFb /\ flip' = NoFb /\ events' = Append(events, flip) /\ UNCHANGED <<pc, retry, pending, timeouts>>
      BY <1>8 DEF Vblank
    <2>2. flip \in Fbs
      BY <2>1 DEF Paced
    <2>3. events' \in Seq(Fbs) /\ Len(events') = Len(events) + 1
      BY <2>0, <2>1, <2>2, OutstandingIs
    <2>4. pending' = Len(events')
      BY <2>0, <2>1, <2>3, OutstandingIs
    <2>5. Outstanding'
      BY <2>1, <2>3, <2>4 DEF Outstanding
    <2>. QED  BY <2>1, <2>5 DEF Counted
  <1>9. CASE Releasing \/ Interrupted
    BY <1>0, <1>9, ReleaseKeepsPace
  <1>10. CASE Fail
    BY <1>1, <1>10 DEF Fail
  <1>11. CASE StillBusy \/ Verdict
    BY <1>1, <1>11 DEF StillBusy, Verdict, At
  <1>. QED
    BY <1>2, <1>3, <1>4, <1>5, <1>6, <1>7, <1>8, <1>9, <1>10, <1>11
    DEF AnimationStep, Next, Main


-----------------------------------------------------------------------------
(* The animation: its books of the flips to each buffer. *)

\* How many events are unread: a number, and none for no buffer only if there is none.
LEMMA UnreadIs ==
  ASSUME events \in Seq(Fbs)
  PROVE  /\ \A b : Unread(b) \in Nat
         /\ events = <<>> => \A b : Unread(b) = 0
         /\ (\A b \in Fbs : Unread(b) = 0) => Len(events) = 0
  <1>. DEFINE At_(b) == {i \in 1 .. Len(events) : events[i] = b}
  <1>1. Len(events) \in Nat /\ \A i \in 1 .. Len(events) : events[i] \in Fbs
    BY LenProperties, ElementOfSeq
  <1>2. ASSUME NEW b
        PROVE  IsFiniteSet(At_(b)) /\ Cardinality(At_(b)) \in Nat
    <2>1. IsFiniteSet(1 .. Len(events)) /\ At_(b) \subseteq 1 .. Len(events)
      BY <1>1, FS_Interval
    <2>. HIDE DEF At_
    <2>. QED  BY <2>1, FS_Subset, FS_CardinalityType
  <1>3. \A b : Unread(b) = Cardinality(At_(b))
    BY DEF Unread
  <1>4. ASSUME events = <<>>
        PROVE  \A b : Unread(b) = 0
    <2>1. \A b : At_(b) = {}
      BY <1>4
    <2>. HIDE DEF At_
    <2>. QED  BY <1>3, <2>1, FS_EmptySet
  <1>5. ASSUME \A b \in Fbs : Unread(b) = 0
        PROVE  Len(events) = 0
    <2>. SUFFICES ASSUME Len(events) # 0 PROVE FALSE
      OBVIOUS
    <2>1. events[1] \in Fbs /\ 1 \in At_(events[1])
      BY <1>1
    <2>. HIDE DEF At_
    <2>2. At_(events[1]) = {}
      BY <1>2, <1>3, <1>5, <2>1, FS_EmptySet
    <2>. QED  BY <2>1, <2>2
  <1>. HIDE DEF At_
  <1>. QED  BY <1>2, <1>3, <1>4, <1>5

\* One more event is unread.
LEMMA OneMoreUnread ==
  ASSUME events \in Seq(Fbs), NEW f \in Fbs, events' = Append(events, f), NEW b \in Fbs
  PROVE  (f = b => Unread(b)' = Unread(b) + 1) /\ (f # b => Unread(b)' = Unread(b))
  <1>. DEFINE n == Len(events)
              S == {i \in 1 .. n : events[i] = b}
  <1>1. /\ n \in Nat /\ Len(events') = n + 1 /\ events'[n + 1] = f
        /\ \A i \in 1 .. n : events'[i] = events[i]
    OBVIOUS
  <1>2. IsFiniteSet(S) /\ n + 1 \notin S
    <2>1. S \subseteq 1 .. n
      OBVIOUS
    <2>. HIDE DEF n, S
    <2>2. n + 1 \notin 1 .. n
      BY <1>1
    <2>3. IsFiniteSet(1 .. n)
      BY <1>1, FS_Interval
    <2>. QED  BY <2>1, <2>2, <2>3, FS_Subset
  <1>3. {i \in 1 .. Len(events') : events'[i] = b} = IF f = b THEN S \cup {n + 1} ELSE S
    <2>1. 1 .. Len(events') = (1 .. n) \cup {n + 1}
      BY <1>1
    <2>. QED  BY <1>1, <2>1
  <1>4. Unread(b)' = Cardinality({i \in 1 .. Len(events') : events'[i] = b}) /\ Unread(b) = Cardinality(S)
    BY DEF Unread
  <1>5. Cardinality(S) \in Nat /\ Cardinality(S \cup {n + 1}) = Cardinality(S) + 1
    <2>. HIDE DEF S
    <2>. QED  BY <1>2, FS_CardinalityType, FS_AddElement
  <1>6. f = b => Unread(b)' = Unread(b) + 1
    BY <1>3, <1>4, <1>5
  <1>7. f # b => Unread(b)' = Unread(b)
    BY <1>3, <1>4
  <1>. QED  BY <1>6, <1>7

\* What was not read is still not read.
LEMMA UnreadSame ==
  ASSUME events' = events
  PROVE  \A b : Unread(b)' = Unread(b)
  BY DEF Unread

\* Reading the events enters each of them in the books of its buffer; a buffer
\* whose flips were all heard of has nothing more to hear of.
LEMMA BooksGoOn ==
  ASSUME Balanced, events \in Seq(Fbs), Quiet \/ HandleEvents, flip' = flip
  PROVE  /\ Balanced' /\ issued' = issued /\ FlipsIssued' = FlipsIssued
         /\ \A b \in Fbs : completed[b] = issued[b] => completed'[b] = issued'[b]
         /\ \A b \in Fbs : issued[b] <= completed[b] => completed[b] = issued[b]
  <1>0. \A b : Unread(b) \in Nat
    BY UnreadIs
  <1>1. \A b \in Fbs : issued[b] <= completed[b] => completed[b] = issued[b]
    BY <1>0 DEF Balanced
  <1>2. CASE Quiet
    <2>1. UNCHANGED <<issued, completed, events>>
      BY <1>2 DEF Quiet, counts
    <2>. QED  BY <1>1, <2>1, UnreadSame DEF Balanced, FlipsIssued
  <1>3. CASE HandleEvents
    <2>1. /\ issued' = issued /\ events' = <<>>
          /\ completed' = [b \in Fbs |-> completed[b] + Unread(b)]
      BY <1>3 DEF HandleEvents
    <2>2. \A b : Unread(b)' = 0
      <3>1. \A b : {i \in 1 .. Len(events') : events'[i] = b} = {}
        BY <2>1
      <3>2. \A b : Unread(b)' = Cardinality({i \in 1 .. Len(events') : events'[i] = b})
        BY DEF Unread
      <3>. QED  BY <3>1, <3>2, FS_EmptySet
    <2>3. completed' \in [Fbs -> Nat] /\ \A b \in Fbs : completed'[b] = completed[b] + Unread(b)
      BY <1>0, <2>1 DEF Balanced
    <2>4. Balanced'
      BY <1>0, <2>1, <2>2, <2>3 DEF Balanced
    <2>5. ASSUME NEW b \in Fbs, completed[b] = issued[b]
          PROVE  completed'[b] = issued'[b]
      BY <1>0, <2>1, <2>3, <2>5 DEF Balanced
    <2>. QED  BY <1>1, <2>1, <2>4, <2>5 DEF FlipsIssued
  <1>. QED  BY <1>2, <1>3

\* The loop goes on, without a new frame.
LEMMA LoopGoesOn ==
  ASSUME Booked, Balanced', FlipsIssued' = FlipsIssued, UNCHANGED <<slot, frame>>,
         pc \in Starting \cup Looping, pc' \in Starting \cup Looping
  PROVE  Booked'
  BY DEF Booked, Starting, Looping, Ending

\* The next frame, or the end, with the flips of the frames so far.
LEMMA FrameBooked ==
  ASSUME Booked, Balanced', Presented, slot' = slot, pc \in Starting \cup Looping, frame \in Nat,
         FlipsIssued' = frame
  PROVE  Booked'
  <1>1. frame < Frames /\ slot = 0
    BY DEF Booked
  <1>2. CASE frame + 1 < Frames
    <2>1. frame' = frame + 1 /\ pc' = "wait"
      BY <1>2 DEF Presented, To
    <2>. QED  BY <1>1, <1>2, <2>1 DEF Booked, Starting, Looping, Ending
  <1>3. CASE ~(frame + 1 < Frames)
    <2>1. pc' = "drain" /\ frame = Frames - 1
      BY <1>1, <1>3 DEF Presented, To
    <2>2. \A b \in Fbs : ~(b < 0)
      OBVIOUS
    <2>. QED  BY <1>1, <2>1, <2>2 DEF Booked, Starting, Looping, Ending
  <1>. QED  BY <1>2, <1>3

\* A flip the kernel takes is entered for its buffer.
LEMMA FlipBooked ==
  ASSUME Balanced, events \in Seq(Fbs), FlipTaken, Cur \in Fbs
  PROVE  Balanced' /\ FlipsIssued' = FlipsIssued + 1
  <1>1. /\ flip = NoFb /\ flip' = Cur /\ issued' = [issued EXCEPT ![Cur] = @ + 1]
        /\ UNCHANGED <<completed, events>>
    BY DEF FlipTaken
  <1>2. PICK c \in Fbs : c = Cur
    OBVIOUS
  <1>3. /\ issued' \in [Fbs -> Nat] /\ issued'[c] = issued[c] + 1
        /\ \A b \in Fbs : b # c => issued'[b] = issued[b]
    BY <1>1, <1>2 DEF Balanced
  <1>4. \A b : Unread(b) \in Nat /\ Unread(b)' = Unread(b)
    BY <1>1, UnreadIs, UnreadSame
  <1>5. Balanced'
    BY <1>1, <1>2, <1>3, <1>4 DEF Balanced
  <1>6. Fbs = {0, 1, 2} /\ issued[0] \in Nat /\ issued[1] \in Nat /\ issued[2] \in Nat
    BY DEF NBUF, Balanced
  <1>7. FlipsIssued' = issued'[0] + issued'[1] + issued'[2]
    BY DEF FlipsIssued
  <1>8. c = 0 \/ c = 1 \/ c = 2
    BY <1>6
  <1>9. /\ issued'[0] = IF c = 0 THEN issued[0] + 1 ELSE issued[0]
        /\ issued'[1] = IF c = 1 THEN issued[1] + 1 ELSE issued[1]
        /\ issued'[2] = IF c = 2 THEN issued[2] + 1 ELSE issued[2]
    BY <1>3, <1>6
  <1>10. \A x, y, z \in Nat : /\ (x + 1) + y + z = (x + y + z) + 1
                              /\ x + (y + 1) + z = (x + y + z) + 1
                              /\ x + y + (z + 1) = (x + y + z) + 1
    OBVIOUS
  <1>11. FlipsIssued' = (issued[0] + issued[1] + issued[2]) + 1
    <2>1. CASE c = 0
      BY <1>6, <1>7, <1>9, <1>10, <2>1
    <2>2. CASE c = 1
      BY <1>6, <1>7, <1>9, <1>10, <2>2
    <2>3. CASE c = 2
      BY <1>6, <1>7, <1>9, <1>10, <2>3
    <2>. QED  BY <1>8, <2>1, <2>2, <2>3
  <1>. QED  BY <1>5, <1>11 DEF FlipsIssued

\* Each action of the animation keeps the books.
LEMMA AnimationBooks ==
  ASSUME Paced, Counted, Booked, AnimationStep
  PROVE  Booked'
  <1>0. events \in Seq(Fbs) /\ Balanced
    BY DEF Counted, Outstanding, Booked
  <1>1. ASSUME NEW why \in {"failed", "busy twice", "over"}, Leave(why)
        PROVE  Booked'
    <2>1. Quiet /\ UNCHANGED <<flip, slot>> /\ pc' = why
      BY <1>1 DEF Leave, To, Exit, display, Quiet
    <2>2. Balanced'
      BY <1>0, <2>1, BooksGoOn
    <2>. QED  BY <2>1, <2>2 DEF Booked, Starting, Looping, Ending
  <1>2. CASE Open \/ SetUp \/ Show \/ WaitBuffer \/ Draw \/ Gate \/ FlipBusy \/ AfterBusy
    <2>1. (Quiet \/ HandleEvents) /\ UNCHANGED <<flip, slot, frame>>
      BY <1>2 DEF Open, SetUp, Show, WaitBuffer, Draw, Gate, FlipBusy, AfterBusy, Arm, displayVars,
                  display, Quiet
    <2>2. pc \in Starting \cup Looping /\ pc' \in Starting \cup Looping
      BY <1>2 DEF Open, SetUp, Show, WaitBuffer, Draw, Gate, FlipBusy, AfterBusy, At, To,
                  Starting, Looping
    <2>3. Balanced' /\ FlipsIssued' = FlipsIssued
      BY <1>0, <2>1, BooksGoOn
    <2>. QED  BY <2>1, <2>2, <2>3, LoopGoesOn
  <1>3. CASE Drawn
    <2>1. Quiet /\ UNCHANGED <<flip, slot>> /\ pc = "drawing" /\ frame \in Nat
      BY <1>3 DEF Drawn, At, displayVars, display, Quiet, Paced
    <2>2. Balanced' /\ FlipsIssued' = FlipsIssued
      BY <1>0, <2>1, BooksGoOn
    <2>3. pc \in Looping
      BY <2>1 DEF Looping
    <2>4. CASE frame = 0
      <3>1. Presented /\ FlipsIssued' = frame
        BY <1>3, <2>2, <2>3, <2>4 DEF Drawn, Booked
      <3>. QED  BY <2>1, <2>2, <2>3, <3>1, FrameBooked
    <2>5. CASE frame # 0
      <3>1. frame' = frame /\ pc' \in Looping
        BY <1>3, <2>5 DEF Drawn, To, Looping
      <3>. QED  BY <2>1, <2>2, <2>3, <3>1, LoopGoesOn
    <2>. QED  BY <2>4, <2>5
  <1>4. CASE FlipTaken
    <2>1. Presented /\ slot' = slot /\ pc \in {"flip", "again"}
      BY <1>4 DEF FlipTaken, At
    <2>2. pc \in Looping /\ frame \in Nat /\ frame > 0 /\ Cur \in Fbs
      BY <2>1, ThreeApart DEF Looping, Paced
    <2>3. Balanced' /\ FlipsIssued' = FlipsIssued + 1
      BY <1>0, <1>4, <2>2, FlipBooked
    <2>4. FlipsIssued = frame - 1
      BY <2>2 DEF Booked
    <2>5. FlipsIssued' = frame
      BY <2>2, <2>3, <2>4
    <2>. QED  BY <2>1, <2>2, <2>3, <2>5, FrameBooked
  <1>5. CASE Drain
    <2>1. (Quiet \/ HandleEvents) /\ UNCHANGED <<flip, frame>> /\ pc = "drain"
      BY <1>5 DEF Drain, At, displayVars, display
    <2>2. /\ Balanced' /\ FlipsIssued' = FlipsIssued
          /\ \A b \in Fbs : completed[b] = issued[b] => completed'[b] = issued'[b]
          /\ \A b \in Fbs : issued[b] <= completed[b] => completed[b] = issued[b]
      BY <1>0, <2>1, BooksGoOn
    <2>3. /\ FlipsIssued = Frames - 1 /\ slot \in 0 .. NBUF
          /\ timeouts \/ \A b \in Fbs : b < slot => completed[b] = issued[b]
      BY <2>1 DEF Booked, Ending
    <2>4. CASE pc' = pc /\ slot' = slot /\ timeouts' = timeouts
      BY <2>1, <2>2, <2>3, <2>4 DEF Booked, Starting, Looping, Ending
    <2>5. CASE pc' = pc /\ slot < NBUF /\ slot' = slot + 1 /\ timeouts'
      BY <2>1, <2>2, <2>3, <2>5 DEF Booked, Starting, Looping, Ending, NBUF
    <2>6. CASE pc' = pc /\ slot < NBUF /\ slot' = slot + 1 /\ timeouts' = timeouts /\ issued[slot] <= completed[slot]
      <3>1. slot \in Fbs
        BY <2>3, <2>6 DEF NBUF
      <3>2. completed[slot] = issued[slot]
        BY <2>2, <2>6, <3>1
      <3>3. \A b \in Fbs : b < slot + 1 => b < slot \/ b = slot
        BY <3>1
      <3>4. timeouts' \/ \A b \in Fbs : b < slot' => completed'[b] = issued'[b]
        BY <2>2, <2>3, <2>6, <3>2, <3>3
      <3>5. slot' \in 0 .. NBUF
        BY <2>3, <2>6 DEF NBUF
      <3>. QED  BY <2>1, <2>2, <2>3, <2>6, <3>4, <3>5 DEF Booked, Starting, Looping, Ending
    <2>7. CASE slot = NBUF /\ pc' = "tests" /\ slot' = slot /\ timeouts' = timeouts
      BY <2>2, <2>3, <2>7 DEF Booked, Starting, Looping, Ending
    <2>. QED  BY <1>5, <2>4, <2>5, <2>6, <2>7 DEF Drain, To
  <1>6. CASE Tests \/ Tested
    <2>1. Quiet /\ UNCHANGED <<flip, slot, frame, timeouts, issued, completed>>
      BY <1>6 DEF Tests, Tested, displayVars, display, Quiet, counts
    <2>2. pc \in {"tests", "testing"} /\ pc' \in {"testing", "verdict"}
      BY <1>6 DEF Tests, Tested, At, To
    <2>3. Balanced' /\ FlipsIssued' = FlipsIssued
      BY <1>0, <2>1, BooksGoOn
    <2>. QED  BY <2>1, <2>2, <2>3 DEF Booked, Starting, Looping, Ending
  <1>7. CASE Vblank
    <2>1. /\ flip # NoFb /\ flip' = NoFb /\ events' = Append(events, flip)
          /\ UNCHANGED <<pc, frame, slot, timeouts, issued, completed>>
      BY <1>7 DEF Vblank, counts
    <2>2. flip \in Fbs
      BY <2>1 DEF Paced
    <2>3. \A b : Unread(b) \in Nat
      BY <1>0, UnreadIs
    <2>4. Balanced'
      <3>1. ASSUME NEW b \in Fbs
            PROVE  issued[b] = completed[b] + Unread(b)' + 0
        <4>0. /\ flip = b => Unread(b)' = Unread(b) + 1
              /\ flip # b => Unread(b)' = Unread(b)
          BY <1>0, <2>1, <2>2, OneMoreUnread
        <4>1. /\ issued[b] = completed[b] + Unread(b) + (IF flip = b THEN 1 ELSE 0)
              /\ issued[b] \in Nat /\ completed[b] \in Nat /\ Unread(b) \in Nat
          BY <1>0, <2>3 DEF Balanced
        <4>2. CASE flip = b
          <5>1. Unread(b)' = Unread(b) + 1
            BY <4>0, <4>2
          <5>2. issued[b] = completed[b] + Unread(b) + 1
            BY <4>1, <4>2
          <5>. QED  BY <4>1, <5>1, <5>2
        <4>3. CASE flip # b
          <5>1. Unread(b)' = Unread(b)
            BY <4>0, <4>3
          <5>2. issued[b] = completed[b] + Unread(b) + 0
            BY <4>1, <4>3
          <5>. QED  BY <5>1, <5>2
        <4>. QED  BY <4>2, <4>3
      <3>2. \A b \in Fbs : flip' # b
        BY <2>1
      <3>. QED  BY <1>0, <2>1, <3>1, <3>2 DEF Balanced
    <2>5. FlipsIssued' = FlipsIssued
      BY <2>1 DEF FlipsIssued
    <2>. QED  BY <2>1, <2>4, <2>5 DEF Booked
  <1>8. CASE Releasing \/ Interrupted
    <2>1. UNCHANGED mainVars /\ flip' = flip
      BY <1>8 DEF Releasing, Interrupted, ReleaseStep, SkipRelease, SwitchOff, Switched, Confirm, Returned,
                  TurnOff, Signal, display, machine
    <2>. QED  BY <2>1, BooksSame
  <1>9. CASE Fail
    BY <1>1, <1>9 DEF Fail
  <1>10. CASE StillBusy \/ Verdict
    BY <1>1, <1>10 DEF StillBusy, Verdict
  <1>. QED
    BY <1>2, <1>3, <1>4, <1>5, <1>6, <1>7, <1>8, <1>9, <1>10 DEF AnimationStep, Next, Main


-----------------------------------------------------------------------------
(* The animation: what it keeps of the CRTC. *)

\* An action that leaves the display alone arms nothing and shows nothing new.
LEMMA DisplayKept ==
  ASSUME Kinds, HandedBack, Prompt' => Prompt, UNCHANGED <<stage, step>>,
         UNCHANGED <<crtc, flip, turning, lazy, fails, armed, rel, life>>,
         MainArmed' => MainArmed, MainShows' => MainShows
  PROVE  Kinds' /\ HandedBack'
  <1>1. Kinds'
    BY DEF Kinds
  <1>2. HandedBack'
    BY DEF HandedBack
  <1>. QED  BY <1>1, <1>2

\* On the way out the display is released.
LEMMA ReleaseBegins ==
  ASSUME Kinds, HandedBack, Prompt' => Prompt, UNCHANGED <<stage, step>>, rel.at = "none", life = "runs",
         UNCHANGED <<crtc, flip, turning, lazy, fails, armed, life>>, step # "scanout",
         NEW then \in {"main", "exit"}, Release(then),
         then = "main" => pc' \in Left
  PROVE  Kinds' /\ HandedBack'
  <1>1. rel' \in Rels /\ rel'.at = "test" /\ rel'.then = then /\ rel' # NoRelease
    BY ReleaseIs
  <1>2. Kinds'
    BY <1>1 DEF Kinds
  <1>3. then = "main" => ~MainArmed'
    BY DEF MainArmed, Left, Looping, Ending
  <1>4. HandedBack'
    BY <1>1, <1>3 DEF HandedBack
  <1>. QED  BY <1>2, <1>4

\* Nothing that happens changes what kind of machine it is.
LEMMA NextKeepsMachine == Next => UNCHANGED machine
  BY DEF Next, Main, Releasing, Interrupted, ReleaseStep, displayVars, display, Fail, Leave, Exit, Arm,
         Open, SetUp, Show, WaitBuffer, Draw, Drawn, Gate, FlipTaken, FlipBusy, AfterBusy, StillBusy,
         Drain, Tests, Tested, Verdict, Vblank, SkipRelease, SwitchOff, Switched, Confirm, Returned,
         TurnOff, Signal

\* Each action of the animation keeps the CRTC armed while a buffer is there.
LEMMA AnimationHandsBack ==
  ASSUME Paced, Kinds, HandedBack, AnimationStep
  PROVE  Kinds' /\ HandedBack'
  <1>0. step # "scanout" /\ UNCHANGED <<stage, step>> /\ (Prompt' => Prompt) /\ Counting
    BY CountingOn, NextKeepsMachine DEF AnimationStep, Animating, stillVars
  <1>. DEFINE Same == UNCHANGED <<crtc, flip, turning, lazy, fails, armed, life>>
  <1>a. ASSUME NEW p, At(p)
        PROVE  pc = p /\ rel = NoRelease /\ rel.at = "none" /\ life = "runs"
    BY <1>a DEF At, InMain, Kinds
  <1>1. ASSUME NEW p, At(p), NEW why, Leave(why)
        PROVE  Kinds' /\ HandedBack'
    <2>1. rel.at = "none" /\ life = "runs" /\ Same /\ Release("exit")
      BY <1>a, <1>1 DEF Leave, Exit, display, machine
    <2>. QED  BY <1>0, <2>1, ReleaseBegins
  <1>2. CASE Open
    <2>1. pc = "open" /\ rel.at = "none" /\ life = "runs" /\ pc' = "setup" /\ armed' = TRUE
          /\ UNCHANGED <<crtc, flip, turning, lazy, fails, rel, life>>
      BY <1>a, <1>2 DEF Open, Arm, To, display, machine
    <2>2. Kinds'
      BY <1>0, <2>1 DEF Kinds
    <2>3. ~MainShows'
      BY <1>0, <2>1 DEF MainShows, Looping, Ending
    <2>4. HandedBack'
      BY <1>0, <2>1, <2>3 DEF HandedBack
    <2>. QED  BY <2>2, <2>4
  <1>3. CASE Show
    <2>1. pc = "show" /\ rel.at = "none" /\ life = "runs" /\ pc' = "wait" /\ crtc' = 0
          /\ UNCHANGED <<flip, turning, lazy, fails, armed, rel, life>>
      BY <1>a, <1>3 DEF Show, To, machine
    <2>2. 0 \in Fbs /\ MainArmed
      BY <1>0, <2>1 DEF NBUF, MainArmed
    <2>3. Kinds'
      BY <1>0, <2>1 DEF Kinds
    <2>4. Prompt => armed
      BY <2>1, <2>2 DEF HandedBack
    <2>5. HandedBack'
      BY <1>0, <2>1, <2>2, <2>4 DEF HandedBack
    <2>. QED  BY <2>3, <2>5
  <1>4. CASE SetUp \/ WaitBuffer \/ Draw \/ Drawn \/ Gate \/ FlipBusy \/ AfterBusy \/ Drain \/ Tests
    <2>1. Same /\ rel' = rel
      BY <1>4 DEF SetUp, WaitBuffer, Draw, Drawn, Gate, FlipBusy, AfterBusy, Drain, Tests,
                  displayVars, display, machine
    <2>2. \/ pc = "setup" /\ pc' = "show"
          \/ pc \in Looping \cup Ending
      BY <1>4 DEF SetUp, WaitBuffer, Draw, Drawn, Gate, FlipBusy, AfterBusy, Drain, Tests,
                  At, To, Looping, Ending
    <2>3. (MainArmed' => MainArmed) /\ (MainShows' => MainShows)
      BY <1>0, <2>2 DEF MainArmed, MainShows, Looping, Ending
    <2>. QED  BY <1>0, <2>1, <2>3, DisplayKept
  <1>5. CASE FlipTaken
    <2>1. pc \in {"flip", "again"} /\ rel.at = "none" /\ life = "runs"
      BY <1>a, <1>5 DEF FlipTaken
    <2>2. UNCHANGED <<crtc, turning, lazy, fails, armed, rel, life>>
      BY <1>5 DEF FlipTaken, machine
    <2>3. MainShows /\ MainArmed
      BY <1>0, <2>1 DEF MainShows, MainArmed, Looping
    <2>4. Prompt => crtc \in Fbs /\ armed
      BY <2>1, <2>3 DEF HandedBack
    <2>5. Kinds'
      BY <1>0, <2>2 DEF Kinds
    <2>6. HandedBack'
      BY <1>0, <2>1, <2>2, <2>4 DEF HandedBack
    <2>. QED  BY <2>5, <2>6
  <1>6. CASE Tested
    <2>1. rel.at = "none" /\ life = "runs" /\ Same /\ Release("main") /\ pc' = "verdict"
      BY <1>a, <1>6 DEF Tested, To, display, machine
    <2>. QED  BY <1>0, <2>1, ReleaseBegins DEF Left
  <1>7. CASE Vblank
    <2>1. flip # NoFb /\ crtc' = flip /\ flip' = NoFb
          /\ UNCHANGED <<pc, turning, lazy, fails, armed, rel, life>>
      BY <1>7 DEF Vblank, machine
    <2>2. flip \in Fbs /\ (Prompt => crtc \in Fbs)
      BY <2>1 DEF Paced, HandedBack
    <2>3. Kinds'
      BY <1>0, <2>1 DEF Kinds
    <2>4. MainArmed' = MainArmed /\ MainShows' = MainShows
      BY <1>0, <2>1 DEF MainArmed, MainShows
    <2>5. crtc \in Fbs => crtc # Off
      OBVIOUS
    <2>6. HandedBack'
      BY <1>0, <2>1, <2>2, <2>4, <2>5 DEF HandedBack
    <2>. QED  BY <2>3, <2>6
  <1>8. CASE Releasing \/ Interrupted
    <2>1. pc' = pc
      BY <1>8 DEF Releasing, Interrupted, mainVars
    <2>. QED  BY <1>0, <1>8, <2>1, ReleaseGoesOn DEF Releasing, Interrupted
  <1>9. CASE Fail \/ StillBusy \/ Verdict
    BY <1>1, <1>9 DEF Fail, StillBusy, Verdict
  <1>. QED
    BY <1>2, <1>3, <1>4, <1>5, <1>6, <1>7, <1>8, <1>9 DEF AnimationStep, Next, Main

-----------------------------------------------------------------------------
(* The script. *)

\* A program that starts has flipped nothing.
LEMMA NothingCounted ==
  ASSUME events' = <<>>, pending' = 0, flip' = NoFb
  PROVE  Outstanding'
  <1>1. events' \in Seq(Fbs) /\ Len(events') = 0
    OBVIOUS
  <1>. QED  BY <1>1 DEF Outstanding

\* Nor has it anything in its books.
LEMMA NothingBookedNext ==
  ASSUME flip' = NoFb, events' = <<>>, issued' = [b \in Fbs |-> 0], completed' = [b \in Fbs |-> 0]
  PROVE  Balanced' /\ FlipsIssued' = 0
  <1>1. \A b : {i \in 1 .. Len(events') : events'[i] = b} = {}
    OBVIOUS
  <1>2. \A b : Unread(b)' = Cardinality({i \in 1 .. Len(events') : events'[i] = b})
    BY DEF Unread
  <1>3. \A b : Unread(b)' = 0
    BY <1>1, <1>2, FS_EmptySet
  <1>4. 0 \in Fbs /\ 1 \in Fbs /\ 2 \in Fbs
    BY DEF NBUF
  <1>. QED  BY <1>3, <1>4 DEF Balanced, FlipsIssued

\* Its books are those of the first frame.
LEMMA FirstBooked ==
  ASSUME Balanced', FlipsIssued' = 0, pc' = "open", frame' = 0, slot' = 0
  PROVE  Booked'
  BY DEF Booked, Starting, Looping, Ending, NBUF

\* A program starts as the first one did, on the CRTC its predecessor left.
LEMMA BeginHolds ==
  ASSUME IInv, NEW s, Ended(s), NEW next \in {"animation", "first of two", "second of two"},
         Begin(next)
  PROVE  IInv'
  <1>1. /\ flip = NoFb /\ flip' = NoFb /\ ~turning /\ turning' = turning /\ life = "ended"
        /\ lazy' = lazy /\ fails' = fails /\ Counting
    BY DEF Ended, Begin, machine
  <1>2. /\ step' = next /\ pc' = "open" /\ frame' = 0 /\ events' = <<>> /\ pending' = 0
        /\ armed' = FALSE /\ rel' = NoRelease /\ life' = "runs"
        /\ crtc' = IF Faulting THEN Others ELSE crtc
    BY DEF Begin
  <1>3. crtc' \notin Fbs
    BY <1>1, <1>2 DEF Faulting
  <1>4. Paced'
    BY <1>1, <1>2 DEF Paced, Starting, Looping, Ending, Left
  <1>5. Counted'
    <2>1. events' = <<>> /\ pending' = 0 /\ flip' = NoFb
      BY <1>1, <1>2
    <2>2. Outstanding'
      BY <2>1, NothingCounted
    <2>. QED  BY <1>2, <2>2 DEF Counted
  <1>6. Booked'
    <2>1. /\ issued' = [b \in Fbs |-> 0] /\ completed' = [b \in Fbs |-> 0] /\ slot' = 0
      BY DEF Begin
    <2>2. Balanced' /\ FlipsIssued' = 0
      BY <1>1, <1>2, <2>1, NothingBookedNext
    <2>. QED  BY <1>2, <2>1, <2>2, FirstBooked
  <1>7. Kinds'
    BY <1>1, <1>2, NoneIs DEF Kinds
  <1>8. ~MainArmed' /\ ~MainShows'
    BY <1>2 DEF MainArmed, MainShows, Looping, Ending
  <1>9. Unfaulted'
    BY <1>1, CountingOn DEF IInv, machine
  <1>10. HandedBack'
    BY <1>1, <1>2, <1>3, <1>8, NoneIs DEF HandedBack
  <1>. QED  BY <1>4, <1>5, <1>7, <1>10, <1>6, <1>9 DEF IInv

\* When the script stops the last program has ended and everything else stays.
LEMMA StopHolds ==
  ASSUME IInv, NEW s, Ended(s), NEW last \in {"stopped", "result"}, Stop(last)
  PROVE  IInv'
  <1>1. step' = last /\ UNCHANGED <<vars, stage>> /\ life = "ended" /\ Counting
    BY DEF Stop, stillVars, Ended
  <1>2. UNCHANGED <<crtc, flip, turning, lazy, fails, armed, rel, life, pc, frame, gpu,
                    events, pending, retry, timeouts>>
    BY <1>1 DEF vars, displayVars, display, machine, mainVars, counts
  <1>3. Shown' = Shown /\ Earlier(1)' = Earlier(1) /\ Earlier(2)' = Earlier(2) /\ Cur' = Cur
    BY <1>2 DEF Shown, Earlier, Cur
  <1>4. Paced'
    BY <1>1, <1>2, <1>3 DEF IInv, Paced
  <1>5. Counted'
    BY <1>2 DEF IInv, Counted, Outstanding
  <1>6. Kinds'
    BY <1>1, <1>2 DEF IInv, Kinds
  <1>7. (Prompt' => Prompt) /\ Unfaulted'
    BY <1>1, <1>2, CountingOn DEF IInv, machine
  <1>8. HandedBack'
    <2>1. step = "scanout" => pc = "open"
      BY DEF IInv, Paced
    <2>2. MainArmed' => step # "scanout" /\ MainArmed
      BY <1>1, <1>2, <2>1 DEF MainArmed, Looping, Ending
    <2>. QED  BY <1>1, <1>2, <1>7, <2>2 DEF IInv, HandedBack
  <1>9. Booked'
    BY <1>1, BooksSame DEF IInv, vars, displayVars, display
  <1>. QED  BY <1>4, <1>5, <1>6, <1>7, <1>8, <1>9 DEF IInv

\* Each step of the script, which looks at the faults between the programs.
LEMMA ScriptHolds ==
  ASSUME IInv, Script
  PROVE  IInv'
  <1>1. CASE AfterScanout
    BY <1>1, BeginHolds, StopHolds DEF AfterScanout
  <1>2. CASE AfterAnimation
    BY <1>2, BeginHolds, StopHolds DEF AfterAnimation
  <1>3. CASE AfterFirst
    BY <1>3, BeginHolds DEF AfterFirst
  <1>4. CASE AfterSecond
    BY <1>4, StopHolds DEF AfterSecond
  <1>. QED  BY <1>1, <1>2, <1>3, <1>4 DEF Script

-----------------------------------------------------------------------------
\* A step that changes nothing.
LEMMA StutterHolds ==
  ASSUME IInv, UNCHANGED testVars
  PROVE  IInv'
  <1>1. UNCHANGED <<crtc, flip, turning, lazy, fails, armed, rel, life, pc, frame, gpu, events, pending,
                    retry, timeouts, stage, step, faults, cut>>
    BY DEF testVars, vars, displayVars, display, machine, mainVars, counts, stillVars
  <1>2. Shown' = Shown /\ Earlier(1)' = Earlier(1) /\ Earlier(2)' = Earlier(2) /\ Cur' = Cur
    BY <1>1 DEF Shown, Earlier, Cur
  <1>3. Paced'
    BY <1>1, <1>2 DEF IInv, Paced
  <1>4. Counted'
    BY <1>1 DEF IInv, Counted, Outstanding
  <1>5. Kinds' /\ HandedBack' /\ Unfaulted'
    BY <1>1, DisplayKept DEF IInv, MainArmed, MainShows, Prompt, Unfaulted
  <1>6. Booked'
    BY BooksSame DEF IInv, testVars, vars, displayVars, display
  <1>. QED  BY <1>3, <1>4, <1>5, <1>6 DEF IInv

\* IInv holds whenever the script runs.
LEMMA Invariance == TestSpec => []IInv
  <1>1. TestInit => IInv
    BY InitHolds
  <1>2. IInv /\ [TestNext]_testVars => IInv'
    <2>. SUFFICES ASSUME IInv, [TestNext]_testVars
                  PROVE  IInv'
      OBVIOUS
    <2>1. CASE ScanoutStep
      <3>1. Booked'
        BY <2>1, StillFrame, BooksSame DEF IInv
      <3>2. Unfaulted'
        BY <2>1, StillFrame, CountingOn DEF IInv, ScanoutStep
      <3>. QED  BY <2>1, <3>1, <3>2, StillPaces, StillHandsBack DEF IInv
    <2>2. CASE AnimationStep
      <3>1. Unfaulted'
        BY <2>2, NextKeepsMachine, CountingOn DEF IInv, AnimationStep
      <3>. QED
        BY <2>2, <3>1, AnimationPaces, AnimationCounts, AnimationBooks, AnimationHandsBack DEF IInv
    <2>3. CASE Script
      BY <2>3, ScriptHolds
    <2>4. CASE Over \/ UNCHANGED testVars
      BY <2>4, StutterHolds DEF Over
    <2>. QED  BY <2>1, <2>2, <2>3, <2>4 DEF TestNext
  <1>. QED  BY <1>1, <1>2, PTL DEF TestSpec

-----------------------------------------------------------------------------
\* However late the vertical blanks, the events and the waits that give up are, no
\* frame is rendered into the buffer on the panel or into the one it takes next:
\* when a frame is drawn these are the buffers of the one or two frames before it,
\* since the kernel takes a flip only when the last one has landed.
THEOREM NothingTears == TestSpec => []NoTearing
  <1>1. IInv => NoTearing
    <2>. SUFFICES ASSUME IInv, pc = "drawing", frame > 0
                  PROVE  gpu # crtc /\ gpu # flip
      BY DEF NoTearing
    <2>1. gpu = Cur /\ frame \in Nat
      BY DEF IInv, Paced
    <2>2. crtc \in {Off, Earlier(1)} \/ (frame > 1 /\ crtc = Earlier(2))
      BY DEF IInv, Paced, Looping, Shown
    <2>3. flip \in {NoFb, Earlier(1)}
      BY DEF IInv, Paced, Looping
    <2>4. Off # Cur /\ NoFb # Cur
      BY <2>1, ThreeApart
    <2>. QED  BY <2>1, <2>2, <2>3, <2>4, ThreeApart
  <1>. QED  BY <1>1, Invariance, PTL

\* With PACE=gate the CRTC is found busy only after a wait that gave up: the count
\* of flips that the gate reads is that of the kernel.
THEOREM GateIsEnough == TestSpec => []GateSuffices
  <1>1. IInv => GateSuffices
    BY DEF IInv, Counted, GateSuffices
  <1>. QED  BY <1>1, Invariance, PTL

\* A run that ends without a wait that gave up has heard of every flip, one for every
\* frame but the first: the end waits for each buffer's count, and with all of them
\* even nothing is unread and nothing in flight.
THEOREM EveryFlipLands == TestSpec => []AllFlipsLanded
  <1>1. IInv => AllFlipsLanded
    <2>. SUFFICES ASSUME IInv, pc = "verdict", ~timeouts
                  PROVE  completed = issued /\ pending = 0 /\ FlipsIssued = Frames - 1
      BY DEF AllFlipsLanded
    <2>1. Balanced /\ slot = NBUF /\ FlipsIssued = Frames - 1
          /\ \A b \in Fbs : b < slot => completed[b] = issued[b]
      BY DEF IInv, Booked
    <2>2. \A b \in Fbs : completed[b] = issued[b]
      BY <2>1 DEF NBUF
    <2>3. completed = issued
      <3>1. DOMAIN completed = Fbs /\ DOMAIN issued = Fbs
            /\ completed = [b \in Fbs |-> completed[b]] /\ issued = [b \in Fbs |-> issued[b]]
        BY <2>1 DEF Balanced
      <3>. QED  BY <2>2, <3>1
    <2>4. Outstanding /\ events \in Seq(Fbs) /\ flip \in Fbs \cup {NoFb}
      BY DEF IInv, Counted, Outstanding, Paced
    <2>5. \A b \in Fbs : Unread(b) = 0 /\ flip # b
      <3>1. \A b : Unread(b) \in Nat
        BY <2>4, UnreadIs
      <3>2. ASSUME NEW b \in Fbs
            PROVE  Unread(b) = 0 /\ flip # b
        <4>1. /\ issued[b] = completed[b] + Unread(b) + (IF flip = b THEN 1 ELSE 0)
              /\ issued[b] \in Nat /\ completed[b] \in Nat
          BY <2>1 DEF Balanced
        <4>. QED  BY <2>2, <3>1, <4>1
      <3>. QED  BY <3>2
    <2>6. flip = NoFb /\ Len(events) = 0
      BY <2>4, <2>5, UnreadIs
    <2>7. pending = 0
      BY <2>4, <2>6, OutstandingIs
    <2>. QED  BY <2>1, <2>3, <2>7
  <1>. QED  BY <1>1, Invariance, PTL

\* On a machine whose calls succeed, none of the programs leaves the CRTC on a buffer
\* that goes with it, whatever signals it was sent and however often the release is
\* begun again, unless the CRTC was still on when the call returned and a release
\* stopped looking at it.
THEOREM NoFaultIsLeft == TestSpec => []HandBackLeavesNoFaults
  <1>1. IInv => HandBackLeavesNoFaults
    BY DEF IInv, Unfaulted, Prompt, HandBackLeavesNoFaults
  <1>. QED  BY <1>1, Invariance, PTL

==============================================================================
