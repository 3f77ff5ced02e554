----------------------------- MODULE WorkLanes -----------------------------
(***************************************************************************)
(* From a Work Plan to the rows of the widget: what a planner role answers *)
(* is validated and kept (notifyBacklogPlan of agent-workflows/index.ts),  *)
(* /work:process reads it again, gives every item of its first iteration a *)
(* lane with a context and a branch (orchestrator.ts), and shows the steps *)
(* of all lanes as rows (executeBacklogProcessing).                        *)
(*                                                                         *)
(* Several processes and dispatched agents share the rows.  An artifact is *)
(* [scope, authors, odd, iterations, actionable]: authors says that some   *)
(* field of it outside its actionable section names an execution field, at *)
(* any depth, odd that one has an unusable shape; actionable holds at most *)
(* one artifact.  Waves after the first are WorkWaves.                     *)
(***************************************************************************)
EXTENDS Filtering, Naturals, Sequences, SequencesExt, Functions, FiniteSets

CONSTANTS
  Processes, Artifacts,
  Names,         \* ids of items as they are once trimmed
  Segment,       \* sanitizeBranchSegment: a function on Names that may join two
  LivePlans,     \* first iterations that the Work Source may answer with
  Sources,       \* Work Source Registrations
  MaxSections,   \* bound on the nesting of actionable sections
  MaxPlans, MaxPlanEdits, MaxLaneFaults

PlanIterations == [items : Seq([id : Names \union {"blank"}]), parallel : {"unsaid", "yes", "no"}]
\* What an artifact has in its actionable section can be an artifact of its own; no process
\* has the name that the rows of dispatched agents are under.
ASSUME LanesAssumption ==
  /\ "agent" \notin Processes
  /\ LivePlans \subseteq PlanIterations
  /\ Artifacts \subseteq [scope : {"none", "forecast", "actionable"}, authors : BOOLEAN, odd : BOOLEAN,
                          iterations : Seq(PlanIterations), actionable : Seq(Artifacts)]
  /\ \A a \in Artifacts : Len(a.actionable) <= 1

VARIABLES
  plans,         \* .pi/sandcastle/plans: what was kept of planner outputs
  source,        \* the selected registration
  stage,         \* by process
  origin,        \* by process: the kept plan it was given and the source then, if any
  lanes,         \* by process: executionContexts
  steps,         \* by process: the steps of its pipeline run
  rows,          \* runs: status by row
  planEdits, laneFaults
laneVars == <<plans, source, stage, origin, lanes, steps, rows, planEdits, laneFaults>>

Agent == <<"agent", 1>>
Terminal == {"done", "error"}
NoOrigin == <<>>

LanesInit ==
  /\ plans = <<>> /\ source \in Sources /\ planEdits = 0 /\ laneFaults = 0
  /\ stage = [p \in Processes |-> "idle"] /\ origin = [p \in Processes |-> NoOrigin]
  /\ lanes = [p \in Processes |-> <<>>] /\ steps = lanes /\ rows = [r \in {} |-> "running"]

-----------------------------------------------------------------------------
(* Plans *)

\* The artifact and the sections inside it.
Sections(a) ==
  LET s[n \in 0..MaxSections] ==
        IF n = 0 THEN {a} ELSE s[n - 1] \union UNION {ToSet(b.actionable) : b \in s[n - 1]}
  IN s[MaxSections]
\* validateForbiddenWorkPlanFields.
AuthorsExecution(a) == \E b \in Sections(a) : b.authors
\* An item may be its bare id, and its id may be padded but not blank.  A planner's output goes
\* through the same two functions twice: index.ts keeps copies of those of orchestrator.ts.
WellFormed(a) ==
  \A b \in Sections(a) : ~b.odd /\ \A i \in ToSet(b.iterations) : \A x \in ToSet(i.items) : x.id # "blank"
\* validateExecutablePlanArtifact.
Executable(a) == ~AuthorsExecution(a) /\ WellFormed(a)

\* normalizeExecutablePlanArtifact.
Scope(a) == IF a.scope = "none" THEN "actionable" ELSE a.scope
Trimmed(iteration) == [k \in DOMAIN iteration.items |-> iteration.items[k].id]

\* notifyBacklogPlan: an output that is not executable is kept as what it is.
PlanWork ==
  /\ Len(plans) < MaxPlans
  /\ \E a \in Artifacts :
       plans' = Append(plans, [kind |-> IF Executable(a) THEN "work-plan" ELSE "invalid-work-plan",
                               source |-> source, plan |-> a])
  /\ UNCHANGED <<source, stage, origin, lanes, steps, rows, planEdits, laneFaults>>

\* A plan record is a file, and the selected registration a line of the configuration.
EditPlan ==
  /\ planEdits < MaxPlanEdits /\ planEdits' = planEdits + 1
  /\ \E n \in DOMAIN plans, a \in Artifacts : plans' = [plans EXCEPT ![n].plan = a]
  /\ UNCHANGED <<source, stage, origin, lanes, steps, rows, laneFaults>>
Reconfigure ==
  /\ planEdits < MaxPlanEdits /\ planEdits' = planEdits + 1
  /\ source' \in Sources
  /\ UNCHANGED <<plans, stage, origin, lanes, steps, rows, laneFaults>>

\* readBacklogPlanRecord, and the start of runWorkProcess: the section to execute, if any.
Actionable(a) == IF Scope(a) = "forecast" THEN FlattenSeq([k \in DOMAIN a.actionable |-> a.actionable[k].iterations])
                 ELSE a.iterations
Usable(r) ==
  /\ r.kind = "work-plan" /\ r.source = source /\ Executable(r.plan)
  /\ Actionable(r.plan) # <<>>

-----------------------------------------------------------------------------
(* Lanes *)

\* planIterationSupportsParallel.
Parallel(i, n) == IF i.parallel = "unsaid" THEN n > 1 ELSE i.parallel = "yes"

\* deriveWorkExecutionContext: the branch is the orchestrator's, from the run and the item.
Branch(p, x) == <<p, Segment[x]>>
Context(p, x, group, index) ==
  [id |-> <<p, Segment[x], group, index>>, item |-> x, branch |-> Branch(p, x), group |-> group]

\* buildExecutionGroups: one group of all items, or a group for each.
ExecutionContexts(p, items, parallel) ==
  [k \in DOMAIN items |-> Context(p, items[k], IF parallel THEN 1 ELSE k, k)]

\* pruneTerminalWidgetRows.
Pruned == Restrict(rows, {r \in DOMAIN rows : rows[r] \notin Terminal})
Begins(p, iteration, ready, from) ==
  LET items == Filtered(Trimmed(iteration), ready)
  IN IF items = <<>>
     THEN stage' = [stage EXCEPT ![p] = "threw"] /\ UNCHANGED <<origin, lanes, rows>>
     ELSE /\ stage' = [stage EXCEPT ![p] = "running"] /\ origin' = [origin EXCEPT ![p] = from]
          /\ lanes' = [lanes EXCEPT ![p] = ExecutionContexts(p, items, Parallel(iteration, Len(items)))]
          /\ rows' = Pruned

\* /work:process, with the items that the Work Source has ready now, or with a kept plan.
Process(p) ==
  /\ stage[p] = "idle"
  /\ \/ \E i \in LivePlans : Begins(p, i, Names, NoOrigin)
     \/ \E n \in DOMAIN plans, ready \in SUBSET Names :
          IF Usable(plans[n])
          THEN Begins(p, Head(Actionable(plans[n].plan)), ready,
                      <<plans[n], source>>)
          ELSE stage' = [stage EXCEPT ![p] = "threw"] /\ UNCHANGED <<origin, lanes, rows>>
  /\ UNCHANGED <<plans, source, steps, planEdits, laneFaults>>

-----------------------------------------------------------------------------
(* Rows *)

Shown(r, s) == rows' = [x \in DOMAIN rows \union {r} |-> IF x = r THEN s ELSE rows[x]]
\* updateWorkerStatus of a row it has made before: a row that was pruned stays away, and
\* one that has ended does not run again.
Updated(r, s) ==
  IF r \in DOMAIN rows /\ ~(rows[r] \in Terminal /\ s = "running") THEN Shown(r, s) ELSE UNCHANGED rows
StepBecomes(p, k, s) == steps' = [steps EXCEPT ![p][k].status = s]
Failed(p) == \E k \in DOMAIN steps[p] : steps[p][k].status \in {"failed", "stuck"}

\* A lane's agent node records its step; no lane begins after another has failed.
StepStarts(p) ==
  /\ stage[p] = "running" /\ ~Failed(p)
  /\ \E l \in DOMAIN lanes[p] :
       /\ \A k \in DOMAIN steps[p] : steps[p][k].lane # l
       /\ steps' = [steps EXCEPT ![p] = Append(@, [lane |-> l, status |-> "running"])]
       /\ Shown(<<p, Len(steps[p]) + 1>>, "running")
  /\ UNCHANGED <<plans, source, stage, origin, lanes, planEdits, laneFaults>>
\* It completes or fails, or the image or the record fails it and no update is sent.
StepEnds(p) ==
  /\ \E k \in DOMAIN steps[p] :
       /\ steps[p][k].status = "running"
       /\ \/ StepBecomes(p, k, "completed") /\ Updated(<<p, k>>, "done") /\ UNCHANGED laneFaults
          \/ /\ laneFaults < MaxLaneFaults /\ laneFaults' = laneFaults + 1
             /\ \/ StepBecomes(p, k, "failed") /\ Updated(<<p, k>>, "error")
                \/ StepBecomes(p, k, "stuck") /\ UNCHANGED rows
  /\ UNCHANGED <<plans, source, stage, origin, lanes, planEdits>>
\* A stream event of a step shows its present status once more.
Streams(p) ==
  /\ stage[p] = "running"
  /\ \E k \in DOMAIN steps[p] :
       /\ steps[p][k].status = "running"
       /\ Updated(<<p, k>>, "running")
  /\ UNCHANGED <<plans, source, stage, origin, lanes, steps, planEdits, laneFaults>>

LeftRunning(p) == rows                                                      \* mutant
\* The catch of executeBacklogProcessing: what still shows as running has failed.
ShownAsFailed(p) ==
  [r \in DOMAIN rows |-> IF r[1] = p /\ rows[r] = "running" THEN "error" ELSE rows[r]]
ProcessEnds(p) ==
  /\ stage[p] = "running" /\ \A k \in DOMAIN steps[p] : steps[p][k].status # "running"
  /\ \/ /\ Failed(p)
        /\ stage' = [stage EXCEPT ![p] = "threw"] /\ rows' = ShownAsFailed(p)
     \/ /\ ~Failed(p) /\ Len(steps[p]) = Len(lanes[p])
        /\ stage' = [stage EXCEPT ![p] = "returned"] /\ UNCHANGED rows
  /\ UNCHANGED <<plans, source, origin, lanes, steps, planEdits, laneFaults>>

\* dispatch: an agent outside any process has a row among them.
AgentRow ==
  /\ \/ Agent \notin DOMAIN rows /\ Shown(Agent, "running")
     \/ Agent \in DOMAIN rows /\ rows[Agent] = "running" /\ \E s \in Terminal : Shown(Agent, s)
  /\ UNCHANGED <<plans, source, stage, origin, lanes, steps, planEdits, laneFaults>>

Planning == PlanWork \/ EditPlan \/ Reconfigure \/ \E p \in Processes : Process(p)
Processing ==
  AgentRow \/ \E p \in Processes : Process(p) \/ StepStarts(p) \/ StepEnds(p) \/ Streams(p) \/ ProcessEnds(p)

-----------------------------------------------------------------------------
(* Properties *)

\* Two lanes have two contexts, whatever runs at once; they share a branch only in one run,
\* and there only if their ids are the same branch segment (deriveWorkExecutionContext).
LanesAreApart ==
  \A p, q \in Processes : \A k \in DOMAIN lanes[p], l \in DOMAIN lanes[q] :
    <<p, k>> # <<q, l>> =>
      /\ lanes[p][k].id # lanes[q][l].id
      /\ lanes[p][k].branch = lanes[q][l].branch => p = q /\ Segment[lanes[p][k].item] = Segment[lanes[q][l].item]

\* A process that was given a kept plan executes items of it that no forecast but an actionable
\* plan lists, that nobody authored an execution field for, and that were planned for the
\* Work Source in use (runWorkProcess, readBacklogPlanRecord).
PlansAreVetted ==
  \A p \in Processes : origin[p] # NoOrigin =>
    LET a == origin[p][1].plan
        owners == IF a.scope = "forecast" THEN ToSet(a.actionable) ELSE {a}
    IN /\ origin[p][1].kind = "work-plan" /\ origin[p][1].source = origin[p][2]
       /\ \A b \in Sections(a) : ~b.authors
       /\ \A l \in ToSet(lanes[p]) :
            \E b \in owners : \E i \in ToSet(b.iterations) : \E x \in ToSet(i.items) : x.id = l.item

\* A process that has ended has no row that runs, and shows no failure as done.
RowsAreSettled ==
  \A p \in Processes : stage[p] \in {"returned", "threw"} =>
    \A k \in DOMAIN steps[p] : <<p, k>> \in DOMAIN rows =>
      rows[<<p, k>>] = IF steps[p][k].status = "completed" THEN "done" ELSE "error"
\* A row that ended never runs again, and no process takes away a row that runs.
RowsEndOnce ==
  [][\A r \in DOMAIN rows :
       IF r \in DOMAIN rows' THEN rows[r] \in Terminal => rows'[r] = rows[r] ELSE rows[r] \in Terminal]_laneVars

\* Lanes belong to their run, what they do to a vetted plan, and what the widget shows of them
\* is so.
WorkIsOwned == [](LanesAreApart /\ PlansAreVetted /\ RowsAreSettled) /\ RowsEndOnce
=============================================================================
