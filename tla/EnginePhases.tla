---------------------------- MODULE EnginePhases ----------------------------
(***************************************************************************)
(* What the VDF engine promises about its phase and its progress (spec    *)
(* 4.E): a start arms a new target with no progress, the computation then *)
(* advances one squaring at a time up to the target, and it ends Completed *)
(* exactly at the target, or Stopped or Error at any point.  A start is   *)
(* refused while Computing.  Nothing else changes the phase.               *)
(***************************************************************************)
EXTENDS Naturals

CONSTANTS Targets   \* iteration counts a start may request

VARIABLES
    phase,   \* Idle, Computing, or a terminal outcome
    iter,    \* squarings done in the current computation (t_cur)
    goal     \* target of the current computation (T)

phaseVars == <<phase, iter, goal>>

Ended == {"Completed", "Stopped", "Error"}

Init == phase = "Idle" /\ iter = 0 /\ goal = 0

\* start(...): accepted unless Computing; resets t_cur and sets T.
Arm ==
    /\ phase # "Computing"
    /\ iter' = 0
    /\ goal' \in Targets
    /\ UNCHANGED phase

\* The computation begins from t_cur = 0.
Begin ==
    /\ phase # "Computing"
    /\ iter = 0
    /\ phase' = "Computing"
    /\ UNCHANGED <<iter, goal>>

\* One squaring.
Advance ==
    /\ phase = "Computing"
    /\ iter < goal
    /\ iter' = iter + 1
    /\ UNCHANGED <<phase, goal>>

\* Computing -> Completed when t_cur = T and not stopped.
Finish ==
    /\ phase = "Computing"
    /\ iter = goal
    /\ phase' = "Completed"
    /\ UNCHANGED <<iter, goal>>

\* Computing -> Stopped on should_stop, or Error on an exception.
Halt ==
    /\ phase = "Computing"
    /\ phase' \in {"Stopped", "Error"}
    /\ UNCHANGED <<iter, goal>>

Next == Arm \/ Begin \/ Advance \/ Finish \/ Halt

Spec == Init /\ [][Next]_phaseVars

=============================================================================
