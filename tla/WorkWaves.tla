------------------------------ MODULE WorkWaves ------------------------------
(***************************************************************************)
(* runWorkProcess of agent-workflows/orchestrator.ts: the waves of         *)
(* /work:process.  Each wave selects the first executable iteration of the *)
(* current Work Plan, executes its items, records what happened and plans  *)
(* again.  Plans come from a planner over a Work Source that other people  *)
(* change, so every plan may name any items, also items of earlier waves.  *)
(*                                                                         *)
(* A step is the code between two awaits.  Planning, execution and the     *)
(* writing of the record may each fail.                                    *)
(***************************************************************************)
EXTENDS Integers, Sequences, SequencesExt, FiniteSets

CONSTANTS
  Items,
  Needs,             \* pairs <<i, j>>: item i names j among its dependencies
  PossiblePlans,     \* what planners may answer, besides nothing
  MaxWaves,          \* max of the loop of the work-process-waves pipeline
  CachedPlans,       \* {FALSE}, or BOOLEAN: runs with --plan as well
  MaxWriteFaults     \* bound on failing writes of the record

ASSUME ItemsAssumption == IsFiniteSet(Items) /\ Needs \subseteq Items \X Items
ASSUME BoundsAssumption == MaxWaves \in Nat \ {0} /\ MaxWriteFaults \in Nat
ASSUME CachedAssumption == CachedPlans \subseteq BOOLEAN

VARIABLES
  pc,
  cached,      \* this run was given the id of a cached plan
  plan,        \* planResult
  wave,        \* items of the selected iteration
  closed,      \* items this run must not execute again
  waveCount,
  execution,   \* what deps.execute returned for the wave
  record,      \* aggregateRecord, or NoRecord
  file,        \* the record on disk, or NoRecord
  failures,    \* of writes
  \* observations
  executed,    \* the waves that were executed, in order
  worked,      \* items with repository effects or a successful close
  source       \* the latest plan's items, and those among them nobody may start

control == <<pc, waveCount, failures>>
records == <<record, file>>
observed == <<executed, worked>>
vars == <<control, cached, plan, wave, closed, execution, records, observed, source>>

\* A plan's iteration: its items, those that its hitl list names, and those
\* that are tagged for a human or reported as blocked themselves.
Iterations == {i \in [items : SUBSET Items, hitl : SUBSET Items, held : SUBSET Items] :
                 /\ i.hitl \union i.held \subseteq i.items
                 /\ i.hitl \intersect i.held = {}}
ASSUME PlansAssumption == PossiblePlans \subseteq Seq(Iterations)
Plans == PossiblePlans \union {<<>>}
PlanItems(p) == UNION {p[n].items : n \in DOMAIN p}
\* What an answer of the Work Source says of its items: the latest mention of an
\* item carries its tags, and nobody may start an item that no iteration frees.
Mentions(p, x) == {n \in DOMAIN p : x \in p[n].items}
Offer(p) ==
  [items |-> PlanItems(p),
   held |-> {x \in PlanItems(p) : x \in p[Max(Mentions(p, x))].held},
   reserved |-> {x \in PlanItems(p) : \A n \in Mentions(p, x) :
                   x \in p[n].hitl \union p[n].held}]
Offers == {Offer(p) : p \in Plans}

NoRecord == [status |-> "none", waves |-> <<>>, closures |-> {}]
NoExecution == [status |-> "none", effects |-> FALSE, closures |-> {}]
Ended == {"returned", "threw"}

-----------------------------------------------------------------------------
(* Selection *)

\* filterExecutableIteration: neither held, nor for a human, nor dependent on
\* another item of the iteration.
Executable(i) ==
  {x \in i.items \ (i.hitl \union i.held) : \A y \in i.items : <<x, y>> \notin Needs}

\* selectExecutableIteration stops at the first iteration that has something
\* to execute, or an item that this run closed.
FirstExecutable(p) == SelectInSeq(p, LAMBDA i : Executable(i) # {})
Selected(p) == IF FirstExecutable(p) = 0 THEN {} ELSE Executable(p[FirstExecutable(p)])
NothingRepeats(items) == FALSE                                    \* mutant
Repeats(items) == items \intersect closed # {}

\* selectExecutableIterationIgnoringClosed
Remaining(p) == \E n \in DOMAIN p : Executable(p[n]) \ closed # {}

\* revalidateCachedPlanIteration: the planned items of the first iteration that
\* the Work Source still offers, with their present tags but the hitl list of
\* the cached plan.
AsPlanned(first, offer) == first                                  \* mutant
Revalidated(first, offer) ==
  LET ready == first.items \intersect offer.items
  IN [items |-> ready,
      hitl |-> first.hitl \intersect ready,
      held |-> offer.held \intersect ready]

-----------------------------------------------------------------------------
(* The record *)

WaveRecord(status, items, closures) ==
  [status |-> status, waves |-> <<items>>, closures |-> closures]

\* mergeWorkProcessRecords
WaveOnly(base, r) == r                                            \* mutant
Merged(base, r) ==
  [status |-> r.status, waves |-> base.waves \o r.waves,
   closures |-> base.closures \union r.closures]

Written(r) == file' = r /\ UNCHANGED failures
NotWritten == failures < MaxWriteFaults /\ failures' = failures + 1 /\ UNCHANGED file

\* The catch of runOneWave: the wave's record without what the execution
\* returned is merged as an error, whatever was merged before.
Fails(base, writeFails) ==
  LET r == Merged(base, WaveRecord("error", wave, {}))
  IN /\ record' = r /\ pc' = "threw"
     /\ \/ file' = r /\ failures' = failures + (IF writeFails THEN 1 ELSE 0)
        \/ /\ failures' = failures + (IF writeFails THEN 2 ELSE 1)
           /\ failures' <= MaxWriteFaults
           /\ UNCHANGED file

-----------------------------------------------------------------------------
(* The run *)

\* Lines 596-618: a cached plan is read and validated, or one is made.
ReadPlan ==
  /\ pc = "start"
  /\ \/ \E p \in Plans : plan' = p /\ source' = Offer(p) /\ pc' = "wave"
     \/ pc' = "threw" /\ UNCHANGED <<plan, source>>
  /\ UNCHANGED <<cached, wave, closed, waveCount, failures, execution, records, observed>>

WavesLeft == waveCount < MaxWaves

\* Nothing left to execute: the first wave throws, a later one ends the loop.
Complete ==
  /\ pc' = IF record = NoRecord THEN "threw" ELSE "returned"
  /\ UNCHANGED <<wave, file, failures>>

\* Lines 641-658: select, and write the running record.
SelectFrom(p) ==
  LET items == Selected(p)
  IN \/ items = {} /\ Complete
     \/ Repeats(items) /\ pc' = "threw" /\ UNCHANGED <<wave, file, failures>>
     \/ /\ items # {} /\ ~Repeats(items)
        /\ wave' = items
        /\ \/ Written(Merged(record, WaveRecord("running", items, {}))) /\ pc' = "execute"
           \/ NotWritten /\ pc' = "threw"

SelectWave ==
  /\ pc = "wave" /\ WavesLeft /\ ~(cached /\ waveCount = 0)
  /\ SelectFrom(plan)
  /\ UNCHANGED <<cached, plan, closed, waveCount, execution, record, observed, source>>

\* Lines 635-640: the first wave of a cached plan asks the Work Source again.
SelectCachedWave ==
  /\ pc = "wave" /\ WavesLeft /\ cached /\ waveCount = 0
  /\ \/ \E offer \in Offers :
          /\ source' = offer
          /\ IF plan = <<>> \/ Revalidated(plan[1], offer).items = {}
             THEN pc' = "threw" /\ UNCHANGED <<wave, file, failures>>
             ELSE SelectFrom(<<Revalidated(plan[1], offer)>>)
     \/ pc' = "threw" /\ UNCHANGED <<wave, file, failures, source>>
  /\ UNCHANGED <<cached, plan, closed, waveCount, execution, record, observed>>

\* Lines 659-678.  The pipeline closes items only while it runs, and an
\* execution that throws may have left commits behind.
Stops(status) == status # "done"
Execute ==
  /\ pc = "execute"
  /\ executed' = Append(executed, wave)
  /\ \E e \in [status : {"done", "error"}, effects : BOOLEAN, closures : SUBSET wave] :
       /\ worked' = worked \union (IF e.effects THEN wave ELSE e.closures)
       /\ LET r == Merged(record, WaveRecord(e.status, wave, e.closures))
          IN \/ /\ Written(r) /\ record' = r
                /\ execution' = e
                /\ waveCount' = waveCount + 1
                /\ pc' = IF Stops(e.status) THEN "returned" ELSE "plan"
             \/ /\ failures < MaxWriteFaults /\ Fails(r, TRUE)
                /\ UNCHANGED <<execution, waveCount>>
             \/ /\ Fails(record, FALSE)
                /\ UNCHANGED <<execution, waveCount>>
  /\ UNCHANGED <<cached, plan, wave, closed, source>>

\* Items with effects that are offered again without evidence of their closure.
Trusting(ready) == {}                                             \* mutant
Unproven(ready) ==
  IF execution.effects THEN (wave \intersect ready) \ closed' ELSE {}

\* Lines 679-693: what was closed, or is no longer offered, is closed.
Replan ==
  /\ pc = "plan"
  /\ \/ \E p \in Plans :
          LET ready == PlanItems(p)
          IN /\ plan' = p /\ source' = Offer(p)
             /\ closed' = closed \union execution.closures \union (wave \ ready)
             /\ IF Unproven(ready) # {}
                THEN LET r == [record EXCEPT !.status = "error"]
                     IN \/ Written(r) /\ record' = r /\ pc' = "threw"
                        \/ failures < MaxWriteFaults /\ Fails(r, TRUE)
                ELSE pc' = "wave" /\ UNCHANGED <<records, failures>>
     \/ /\ closed' = closed \union execution.closures
        /\ Fails(record, FALSE)
        /\ UNCHANGED <<plan, source>>
  /\ execution' = NoExecution
  /\ UNCHANGED <<cached, wave, waveCount, observed>>

\* Lines 730-736: the loop used all its waves.
LimitExceeded == Remaining(plan)
EndOfLoop ==
  /\ pc = "wave" /\ ~WavesLeft
  /\ pc' = IF LimitExceeded THEN "threw" ELSE "returned"
  /\ UNCHANGED <<cached, plan, wave, closed, waveCount, failures, execution, records,
                 observed, source>>

Init ==
  /\ pc = "start" /\ cached \in CachedPlans
  /\ plan = <<>> /\ source = Offer(<<>>)
  /\ wave = {} /\ closed = {} /\ waveCount = 0
  /\ execution = NoExecution
  /\ record = NoRecord /\ file = NoRecord /\ failures = 0
  /\ executed = <<>> /\ worked = {}

Next == ReadPlan \/ SelectWave \/ SelectCachedWave \/ Execute \/ Replan \/ EndOfLoop

Spec == Init /\ [][Next]_vars

-----------------------------------------------------------------------------
(* Properties *)

Statuses == {"running", "done", "error"}
WaveRecords == [status : Statuses, waves : Seq(SUBSET Items), closures : SUBSET Items]

\* Every variable stays in its type, and no more waves are executed than the loop
\* of the entry pipeline has (lines 534-537, 712-716).
TypeOK ==
  /\ pc \in {"start", "wave", "execute", "plan"} \union Ended
  /\ cached \in CachedPlans
  /\ plan \in Plans
  /\ {wave, closed, worked} \subseteq SUBSET Items
  /\ waveCount \in 0..MaxWaves /\ Len(executed) \in 0..MaxWaves
  /\ execution \in [status : {"done", "error"}, effects : BOOLEAN, closures : SUBSET wave]
                    \union {NoExecution}
  /\ {record, file} \subseteq WaveRecords \union {NoRecord}
  /\ failures \in 0..MaxWriteFaults
  /\ \A n \in DOMAIN executed : executed[n] \in SUBSET Items \ {{}}
  /\ source \in Offers

\* An item for which an execution left branches or commits, or that it closed, is
\* never executed again, whatever later plans say (lines 642, 679-692: "Refusing
\* to repeat completed work").
WorkIsNotRepeated == pc = "execute" => wave \intersect worked = {}

\* The record on disk names a wave before its agents start, and never loses a
\* wave that was executed, also when planning, the pipeline or a write of the
\* record fails (lines 539-556, 657-658, 694-708).
ExecutionIsRecorded ==
  /\ pc = "execute" => file.status = "running" /\ file.waves = Append(executed, wave)
  /\ IsPrefix(executed, file.waves)

\* No write of the record takes away a wave or the evidence of a closure that an
\* earlier write of the run put there (lines 539-556, 671, 706).
RecordOnlyGrows ==
  [][/\ IsPrefix(file.waves, file'.waves)
     /\ file.closures \subseteq file'.closures]_file

\* The record holds every wave from its start to the end of the run.
RecordKeepsTheWaves == []ExecutionIsRecorded /\ RecordOnlyGrows

\* A run whose record ends as "done" left nothing half finished: each item that
\* it worked on is closed or no longer offered, unless the record could not be
\* written (lines 679-692).
DoneIsFinished ==
  pc \in Ended /\ file.status = "done" /\ failures = 0 => worked \subseteq closed

\* A run that returns as "done" has left no item to execute: the end of the loop
\* is not taken for the end of the work (lines 730-734).
ReturnedIsDrained == pc = "returned" /\ record.status = "done" => ~Remaining(plan)

\* "done" is true of what was worked on, and of what is left to work on.
DoneIsDone == DoneIsFinished /\ ReturnedIsDrained

\* Only what the Work Source offered when it was last asked is executed, also
\* from a cached plan (lines 412-436).
OnlyOfferedWork == pc = "execute" => wave \subseteq source.items

\* agent-workflows-orchestrator.test.mjs:114: "runWorkProcess omits
\* dependency-blocked and HITL items before execution".
HumanWorkIsLeft == pc = "execute" => wave \intersect source.reserved = {}
=============================================================================
