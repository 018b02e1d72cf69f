-------------------------- MODULE DiagnosisContract --------------------------
(***************************************************************************)
(* One call of Engine.Diagnose as a single step: the call is made, and     *)
(* some time later it has one of its answers (module DiagnosisAnswers).    *)
(* Engine implements it.                                                   *)
(***************************************************************************)
EXTENDS DiagnosisAnswers

CONSTANT Inputs

VARIABLES
  in,         \* the arguments of the call
  answered,   \* Diagnose has returned
  hops,       \* the distance at which the findings were made
  found,      \* nodes the findings are about
  verdict     \* which summary the diagnosis carries

vars == <<in, answered, hops, found, verdict>>

Init ==
  /\ in \in Inputs
  /\ answered = FALSE
  /\ hops = 0
  /\ found = {}
  /\ verdict = "none"

Answer ==
  /\ ~answered
  /\ answered' = TRUE
  /\ hops' \in Nat
  /\ Answers(in, hops', found', verdict')
  /\ UNCHANGED in

Spec == Init /\ [][Answer]_vars

=============================================================================
