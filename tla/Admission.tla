------------------------------- MODULE Admission -------------------------------
(***************************************************************************)
(* One workflow before the validator and before the planner: a draft that  *)
(* the validator has seen (POST /workflows/{id}/validate, and the composer)*)
(* is planned when it is executed, passed or not.  The two share the graph *)
(* and nothing else, so that their steps need not be mixed; the validator  *)
(* goes first.  Which nodes are conditions both read from the catalog,     *)
(* which is the same here for both.                                        *)
(***************************************************************************)
EXTENDS Scheduler

VARIABLES vIndex, vLow, vCounter, vStack, vComps, vWork, vAt, verdict

Validator == INSTANCE GraphCheck
                 WITH index <- vIndex, low <- vLow, counter <- vCounter,
                      stack <- vStack, comps <- vComps, work <- vWork, at <- vAt

validator == <<vIndex, vLow, vCounter, vStack, vComps, vWork, vAt, verdict>>
planner   == <<tarjan, phase, condensation, search, kahn, steps>>

AdmissionInit == Init /\ Validator!CheckInit

Validate == Validator!Next /\ UNCHANGED planner

Execute == verdict # "open" /\ Next /\ UNCHANGED validator

AdmissionSpec ==
    AdmissionInit /\ [][Validate \/ Execute]_<<vars, validator>>

-----------------------------------------------------------------------------
(* GraphValidator._detect_cycles: "a draft that passed this check can be   *)
(* executed by the engine, and one that is refused is refused there too".  *)
(* Both verdicts are right: it is refused when some cycle has no condition *)
(* node that could leave it (E_CYCLE_DETECTED), and only then.             *)
VerdictsAgree ==
    /\ Validator!VerdictIsRight
    /\ phase = "done" => verdict = "passed"
    /\ phase = "refused" => verdict = "refused"
=============================================================================
