---------------------------- MODULE FrameWindow ----------------------------
(***************************************************************************)
(* What the Agora master promises about frames, without counters, queues  *)
(* or workers: frames are scheduled one at a time, at most one ahead of    *)
(* the oldest unfinished frame; they retire one at a time, in order, each  *)
(* only after it was scheduled; the run ends exactly when the last frame   *)
(* of the test retires, or, where the radio may overrun the window or an  *)
(* exit signal may arrive, at any time by a shutdown.  Nothing advances    *)
(* after the end.                                                          *)
(***************************************************************************)
EXTENDS Naturals

CONSTANTS
  FramesToTest,   \* frames of the run
  CanStopEarly    \* whether a shutdown may end the run early

VARIABLES
  sche,           \* the frame being scheduled
  proc,           \* the oldest frame not yet retired
  done            \* the run has ended

fwvars == <<sche, proc, done>>

Init == sche = 0 /\ proc = 0 /\ done = FALSE

(* The frame being scheduled has both directions scheduled *)
Schedule ==
  /\ ~done /\ sche = proc /\ sche < FramesToTest
  /\ sche' = sche + 1
  /\ UNCHANGED <<proc, done>>

(* The oldest frame retires; retiring the last one ends the run *)
Retire ==
  /\ ~done /\ proc < sche
  /\ proc' = proc + 1
  /\ done' = (proc + 1 = FramesToTest)
  /\ UNCHANGED sche

(* Shutdown on a packet beyond the frame window, or on the exit signal *)
Shutdown ==
  /\ CanStopEarly /\ ~done
  /\ done' = TRUE
  /\ UNCHANGED <<sche, proc>>

Next == Schedule \/ Retire \/ Shutdown

Spec == Init /\ [][Next]_fwvars
====
