------------------------------ MODULE Operation ------------------------------
(***************************************************************************)
(* What dispatching a piece of work promises whoever reruns it: one worker *)
(* is at it at a time, it is begun anew only after the worker before has   *)
(* failed, and once done it is never begun again.                          *)
(***************************************************************************)
CONSTANT Workers

VARIABLES
  working,  \* the workers that are at it
  done

Init == working = {} /\ done = FALSE

Begin(w) == working = {} /\ ~done /\ working' = {w} /\ UNCHANGED done
Fail(w) == working = {w} /\ working' = {} /\ UNCHANGED done
Complete(w) == working = {w} /\ working' = {} /\ done' = TRUE

Next == \E w \in Workers : Begin(w) \/ Fail(w) \/ Complete(w)

Spec == Init /\ [][Next]_<<working, done>>
=============================================================================
