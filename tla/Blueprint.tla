------------------------------ MODULE Blueprint ------------------------------
(***************************************************************************)
(* The Babysitter blueprint, seen four ways: whole runs that go on at the  *)
(* same time and share a worktree transaction (AfkDelivery); the review    *)
(* gate inside the delivery step of one of them, whose coordinator         *)
(* outlives its calls (ReviewRemediation); how runs come by their work     *)
(* items (WorkIntake); and the acceptance that the gate asks for           *)
(* (AcceptancePlan).                                                       *)
(***************************************************************************)
EXTENDS AfkDelivery, ReviewRemediation, WorkIntake, AcceptancePlan

VARIABLE view
vars == <<view, runVars, gateVars, intakeVars, planVars>>
Views(part) == view = part

\* The parts that are not in view stay in one of their initial states.
Init ==
  /\ view \in {"runs", "gate", "intake", "acceptance"}
  /\ Views("gate") \/ acceptance = CHOOSE a \in Acceptances : TRUE
  /\ \/ Views("intake")
     \/ /\ backlog = [i \in Ids |-> CHOOSE x \in Items : TRUE]
        /\ override = CHOOSE o \in Overrides : TRUE
        /\ wanted = [t \in Takers |-> AnyId]
  /\ Views("acceptance") \/ tree = CHOOSE r \in Repositories : TRUE
  /\ RunInit /\ GateInit /\ IntakeInit /\ PlanInit
Next ==
  \/ Views("runs") /\ RunNext /\ UNCHANGED <<view, gateVars, intakeVars, planVars>>
  \/ Views("gate") /\ GateNext /\ UNCHANGED <<view, runVars, intakeVars, planVars>>
  \/ Views("intake") /\ IntakeNext /\ UNCHANGED <<view, runVars, gateVars, planVars>>
  \/ Views("acceptance") /\ PlanNext /\ UNCHANGED <<view, runVars, gateVars, intakeVars>>

\* Every port that a call of the gate awaits settles.
Spec == Init /\ [][Next]_vars /\ GateFairness
=============================================================================
