------------------------------ MODULE AgentRuns ------------------------------
(***************************************************************************)
(* index.ts of agent-workflows: how agents come to run.  A pipeline runs   *)
(* an agent node in each of its lanes and may close the lane's work item,  *)
(* /work:run runs one role, delegate_agent and the planner dispatch a      *)
(* child process.  All of them first see to the sandbox image, which is    *)
(* built once for all who wait, while the scaffold it is built from is     *)
(* edited, or removed and made again by a rebuild after a config change.   *)
(*                                                                         *)
(* The scaffold .sandcastle/ is a version; the image is the version it was *)
(* built from.  The order of lanes and their merge are GraphExecution and  *)
(* GraphMerge.                                                             *)
(***************************************************************************)
EXTENDS Naturals, Sequences, FiniteSets

CONSTANTS Lanes, Finalizers, Roles, Dispatched, Planners, MaxCloseAttempts, MaxVersions, MaxFaults
ASSUME AgentRunsAssumption ==
  /\ Finalizers \subseteq Lanes /\ Planners \subseteq Dispatched /\ MaxCloseAttempts \in Nat \ {0} /\ MaxVersions \in Nat /\ MaxFaults \in Nat
  /\ Lanes \intersect (Roles \union Dispatched) = {}

VARIABLES
  scaffold,      \* [there, version, outdated]: .sandcastle/ and whether the config has other settings
  image,         \* [there, of, stale]: stale when the scaffold is newer
  builds,        \* the version that each running build was started with, by builder
  inFlight,      \* inFlightImageBuilds: the build that others join
  rebuild,       \* [config, command]: the config rebuild and /work:build-image
  job,           \* what each run of an agent does
  status,        \* RunState.status of a dispatched run, status in the file of a role's run
  record, file,  \* the pipeline's record in memory and on disk
  faults,
  missed         \* history: the scaffold changed while an image was built from it
agentVars == <<scaffold, image, builds, inFlight, rebuild, job, status, record, file, faults, missed>>

Jobs == Lanes \union Roles \union Dispatched
Rebuilds == {"config", "command"}
NoOne == "no one"
\* A builder is told from a stage by its name: what waits for it has it as its pc.
Stages == {"idle", "ensure", "inspect", "ready", "agent", "close", "finalize", "settled", "broken"}
ASSUME BuildersAssumption == Jobs \intersect (Stages \union Rebuilds \union {NoOne}) = {}
Fresh == [pc |-> "idle", attempt |-> 0, repaired |-> FALSE, saw |-> 0]

AgentInit ==
  /\ scaffold = [there |-> TRUE, version |-> 1, outdated |-> FALSE]
  /\ image \in [there : BOOLEAN, of : {1}, stale : {FALSE}]
  /\ builds = [b \in {} |-> 0] /\ inFlight = NoOne /\ rebuild = [r \in Rebuilds |-> "idle"]
  /\ job = [j \in Jobs |-> Fresh] /\ status = [j \in Jobs |-> "none"]
  /\ record = [status |-> "none", steps |-> <<>>] /\ file = record
  /\ faults = 0 /\ missed = FALSE

\* Who waits for which build: its pc is the builder's name.
Go(j, pc) == job' = [job EXCEPT ![j].pc = pc]
Done(j, pc) == job' = [job EXCEPT ![j] = [Fresh EXCEPT !.pc = pc]]
ImageSame == UNCHANGED <<scaffold, image, builds, inFlight, rebuild, missed>>
RecordsSame == UNCHANGED <<status, record, file>>
Rebuilding == rebuild["config"] # "idle"

-----------------------------------------------------------------------------
(* The image *)

\* Whoever saw the scaffold sees another one now, and a build in progress has the old one.
Changed == /\ job' = [j \in Jobs |-> [job[j] EXCEPT !.saw = 0]]
           /\ missed' = (missed \/ builds # [b \in {} |-> 0])
EditScaffold ==
  /\ scaffold.there /\ scaffold.version < MaxVersions
  /\ scaffold' = [scaffold EXCEPT !.version = @ + 1] /\ image' = [image EXCEPT !.stale = TRUE] /\ Changed
  /\ RecordsSame /\ UNCHANGED <<builds, inFlight, rebuild, faults>>

\* buildSandboxImageOnce: one build for all who ask while it runs.
Alone == FALSE                                                              \* mutant
Joins == inFlight # NoOne
BuildOnce(who) ==
  IF Joins THEN UNCHANGED <<builds, inFlight>>
  ELSE /\ builds' = [b \in DOMAIN builds \union {who} |-> IF b = who THEN scaffold.version ELSE builds[b]]
       /\ inFlight' = who
WaitsFor(who) == IF Joins THEN inFlight ELSE who

\* The build's promise settles, with the error of a build that fails or finds no scaffold.
Failing(j) == IF j \in Dispatched THEN "error" ELSE IF j \in Roles THEN "failed" ELSE "none"
BuildEnds ==
  \E b \in DOMAIN builds, ok \in BOOLEAN :
    /\ ok => scaffold.there
    /\ ~ok => ~scaffold.there \/ faults < MaxFaults
    /\ faults' = IF ok \/ ~scaffold.there THEN faults ELSE faults + 1
    /\ image' = IF ok THEN [there |-> TRUE, of |-> builds[b], stale |-> FALSE] ELSE image
    /\ builds' = [c \in DOMAIN builds \ {b} |-> builds[c]]
    /\ inFlight' = IF inFlight = b THEN NoOne ELSE inFlight
    /\ rebuild' = [r \in Rebuilds |-> IF rebuild[r] = b THEN "idle" ELSE rebuild[r]]
    /\ LET waiting == {j \in Jobs : job[j].pc = b}
       IN /\ job' = [j \in Jobs |-> IF j \notin waiting THEN job[j] ELSE IF ok THEN [job[j] EXCEPT !.pc = "ready"] ELSE [Fresh EXCEPT !.pc = "broken"]]
          /\ status' = [j \in Jobs |-> IF j \in waiting /\ ~ok THEN Failing(j) ELSE status[j]]
    /\ UNCHANGED <<scaffold, record, file, missed>>

\* ensureSandboxImage: nothing to do without a scaffold; a missing or stale image is built.
OnlyMissing == ~image.there                                                 \* mutant
Needed == ~image.there \/ image.stale
Ensure(j) ==
  /\ job[j].pc = "ensure"
  /\ job' = [job EXCEPT ![j].pc = IF scaffold.there THEN "inspect" ELSE "ready", ![j].saw = scaffold.version]
  /\ ImageSame /\ RecordsSame /\ UNCHANGED faults
Inspect(j) ==
  /\ job[j].pc = "inspect"
  /\ IF Needed THEN Go(j, WaitsFor(j)) /\ BuildOnce(j) ELSE Go(j, "ready") /\ UNCHANGED <<builds, inFlight>>
  /\ RecordsSame /\ UNCHANGED <<scaffold, image, rebuild, missed, faults>>

\* A config change starts the rebuild; /work:build-image waits its turn only if that runs already.
SaveConfig ==
  /\ rebuild["config"] = "idle" /\ scaffold.version < MaxVersions
  /\ scaffold' = [scaffold EXCEPT !.outdated = TRUE] /\ rebuild' = [rebuild EXCEPT !["config"] = "scaffold"]
  /\ RecordsSame /\ UNCHANGED <<image, builds, inFlight, job, faults, missed>>
BuildImage ==
  /\ rebuild["command"] = "idle" /\ ~Rebuilding /\ scaffold.version < MaxVersions
  /\ rebuild' = [rebuild EXCEPT !["command"] = "scaffold"]
  /\ RecordsSame /\ UNCHANGED <<scaffold, image, builds, inFlight, job, faults, missed>>
\* ensureScaffoldForImageBuild removes an outdated scaffold and has the CLI write another.
RemoveScaffold(r) ==
  /\ rebuild[r] = "scaffold"
  /\ IF scaffold.there /\ ~scaffold.outdated
     THEN rebuild' = [rebuild EXCEPT ![r] = "build"] /\ UNCHANGED <<scaffold, job, missed>>
     ELSE rebuild' = [rebuild EXCEPT ![r] = "init"] /\ scaffold' = [scaffold EXCEPT !.there = FALSE] /\ Changed
  /\ RecordsSame /\ UNCHANGED <<image, builds, inFlight, faults>>
InitScaffold(r) ==
  /\ rebuild[r] = "init"
  /\ \/ /\ scaffold' = [there |-> TRUE, version |-> scaffold.version + 1, outdated |-> FALSE]
        /\ image' = [image EXCEPT !.stale = TRUE] /\ Changed
        /\ rebuild' = [rebuild EXCEPT ![r] = "build"] /\ UNCHANGED faults
     \/ /\ faults < MaxFaults /\ faults' = faults + 1
        /\ rebuild' = [rebuild EXCEPT ![r] = "idle"] /\ UNCHANGED <<scaffold, image, job, missed>>
  /\ RecordsSame /\ UNCHANGED <<builds, inFlight>>
Build(r) ==
  /\ rebuild[r] = "build" /\ rebuild' = [rebuild EXCEPT ![r] = WaitsFor(r)] /\ BuildOnce(r)
  /\ RecordsSame /\ UNCHANGED <<scaffold, image, job, faults, missed>>

-----------------------------------------------------------------------------
(* The pipeline *)

\* The record in memory is written whenever it changes.
Write(r) == record' = r /\ file' = r
LastOf(lane) == CHOOSE i \in DOMAIN record.steps :
                  record.steps[i].lane = lane /\ \A k \in DOMAIN record.steps : record.steps[k].lane = lane => k <= i
StepIs(lane, s) == [record EXCEPT !.steps[LastOf(lane)].status = s]

StartPipeline ==
  /\ record.status = "none" /\ ~Rebuilding /\ Write([record EXCEPT !.status = "running"])
  /\ ImageSame /\ UNCHANGED <<job, status, faults>>
\* runAgentNode, also for a finalizer: the step is recorded before the image is looked at.
StartStep(lane) ==
  /\ record.status = "running" /\ job[lane].pc \in {"idle", "finalize"}
  /\ Write([record EXCEPT !.steps = Append(@, [lane |-> lane, status |-> "running"])]) /\ Go(lane, "ensure")
  /\ ImageSame /\ UNCHANGED <<status, faults>>
\* git.worktree cannot make the lane's worktree.
NoWorktree(lane) ==
  /\ record.status = "running" /\ job[lane].pc = "idle" /\ faults < MaxFaults /\ faults' = faults + 1
  /\ Done(lane, "broken") /\ ImageSame /\ RecordsSame
AgentNodeEnds(lane) ==
  /\ job[lane].pc = "agent"
  /\ \/ /\ Write(StepIs(lane, "completed")) /\ UNCHANGED faults
        /\ job' = [job EXCEPT ![lane].pc = "close", ![lane].repaired = TRUE]
     \/ /\ faults < MaxFaults /\ faults' = faults + 1
        /\ Write(StepIs(lane, "failed")) /\ Done(lane, "broken")
  /\ ImageSame /\ UNCHANGED status
\* work.close: accepted, an error that nobody can repair, or rejected; after a rejection
\* the finalizer runs, if there is one and an attempt is left.
Unrepaired == "close"                                                       \* mutant
AfterRejection == "finalize"
Close(lane) ==
  /\ job[lane].pc = "close"
  /\ \/ Done(lane, "settled") /\ UNCHANGED faults
     \/ faults < MaxFaults /\ faults' = faults + 1 /\ Done(lane, "broken")
     \/ /\ UNCHANGED faults
        /\ IF job[lane].attempt + 1 >= MaxCloseAttempts \/ lane \notin Finalizers THEN Done(lane, "broken")
           ELSE job' = [job EXCEPT ![lane].pc = AfterRejection, ![lane].attempt = @ + 1, ![lane].repaired = FALSE]
  /\ ImageSame /\ RecordsSame

\* The graph settles: all lanes are through, or one is broken and the others that began ended.
KeptRunning(steps) == steps                                                 \* mutant
LastFailed(steps) ==
  [i \in DOMAIN steps |-> IF i = Len(steps) /\ steps[i].status = "running" THEN [steps[i] EXCEPT !.status = "failed"]
                          ELSE steps[i]]
EndPipeline ==
  /\ record.status = "running"
  /\ \/ \A lane \in Lanes : job[lane].pc = "settled"
     \/ /\ \E lane \in Lanes : job[lane].pc = "broken"
        /\ \A lane \in Lanes : job[lane].pc \in {"idle", "settled", "broken"}
  /\ \/ (\A lane \in Lanes : job[lane].pc = "settled") /\ Write([record EXCEPT !.status = "completed"])
     \/ Write([status |-> "failed", steps |-> LastFailed(record.steps)])
  /\ ImageSame /\ UNCHANGED <<job, status, faults>>

-----------------------------------------------------------------------------
(* Roles and dispatched agents *)

\* /work:run; delegate_agent, which a rebuild keeps waiting, and the planner, which it does not.
StartRole(j) ==
  /\ job[j].pc = "idle" /\ ~Rebuilding /\ Go(j, "ensure") /\ status' = [status EXCEPT ![j] = "running"]
  /\ ImageSame /\ UNCHANGED <<record, file, faults>>
MayDispatch(j) == Rebuilding => j \in Planners
Dispatch(j) ==
  /\ job[j].pc = "idle" /\ MayDispatch(j)
  /\ Go(j, "ensure") /\ status' = [status EXCEPT ![j] = "running"]
  /\ ImageSame /\ UNCHANGED <<record, file, faults>>
StartAgent(j) ==
  /\ job[j].pc = "ready" /\ job' = [job EXCEPT ![j].pc = "agent", ![j].saw = 0] /\ ImageSame /\ RecordsSame /\ UNCHANGED faults
RoleEnds(j) ==
  /\ job[j].pc = "agent" /\ Done(j, "settled")
  /\ status' \in {[status EXCEPT ![j] = s] : s \in {"completed", "failed"}}
  /\ ImageSame /\ UNCHANGED <<record, file, faults>>
\* The child reports "done" or "error" on its stdout, or only exits: the last report counts.
Report(j) ==
  /\ job[j].pc = "agent" /\ faults < MaxFaults /\ faults' = faults + 1
  /\ status' \in {[status EXCEPT ![j] = s] : s \in {"done", "error"}}
  /\ ImageSame /\ UNCHANGED <<job, record, file>>
ChildCloses(j) ==
  /\ job[j].pc = "agent" /\ Done(j, "settled")
  /\ IF status[j] = "running" THEN status' \in {[status EXCEPT ![j] = s] : s \in {"done", "error"}} ELSE UNCHANGED status
  /\ ImageSame /\ UNCHANGED <<record, file, faults>>

JobStep(j) == Ensure(j) \/ Inspect(j) \/ StartAgent(j)
LaneStep(lane) == StartStep(lane) \/ NoWorktree(lane) \/ AgentNodeEnds(lane) \/ Close(lane)
RebuildStep(r) == RemoveScaffold(r) \/ InitScaffold(r) \/ Build(r)
Using(rebuilds) ==
  \/ EditScaffold \/ BuildEnds \/ \E j \in Jobs : JobStep(j)
  \/ "config" \in rebuilds /\ SaveConfig
  \/ "command" \in rebuilds /\ BuildImage
  \/ \E r \in rebuilds : RebuildStep(r)
PipelineNext == StartPipeline \/ EndPipeline \/ \E lane \in Lanes : LaneStep(lane)
RoleNext == \E j \in Roles : StartRole(j) \/ RoleEnds(j)
ChildNext == \E j \in Dispatched : Dispatch(j) \/ Report(j) \/ ChildCloses(j)

\* Promises settle, agents and child processes end; nobody has to start anything.
AgentFairness ==
  /\ WF_agentVars(BuildEnds) /\ WF_agentVars(EndPipeline)
  /\ \A r \in Rebuilds : WF_agentVars(RebuildStep(r))
  /\ \A lane \in Lanes : WF_agentVars(JobStep(lane) \/ LaneStep(lane))
  /\ \A j \in Roles : WF_agentVars(JobStep(j) \/ RoleEnds(j))
  /\ \A j \in Dispatched : WF_agentVars(JobStep(j) \/ ChildCloses(j))

-----------------------------------------------------------------------------
(* Properties *)

\* The image of one scaffold is never built twice at a time, whoever asks.
OneBuild == Cardinality(DOMAIN builds) <= 1

\* A finished record has no step that still runs, and a completed one only completed steps;
\* but the step of a lane whose image could not be built stays as it is, unless it is the last.
RecordIsSettled ==
  /\ file.status = "completed" => \A i \in DOMAIN file.steps : file.steps[i].status = "completed"
  /\ file.status = "failed" => \A i \in DOMAIN file.steps :
       file.steps[i].status = "running" => i < Len(file.steps) /\ job[file.steps[i].lane].pc = "broken"

\* Whoever starts an agent while nobody touches the scaffold gets the image of this scaffold,
\* unless the scaffold was once changed during a build: the build's end makes the image newer
\* than the change it does not have.
AgentsGetTheirImage ==
  [][\A j \in Jobs : job[j].pc = "ready" /\ job'[j].pc = "agent" /\ scaffold.there /\ job[j].saw > 0 /\ ~missed
       => image.there /\ image.of = job[j].saw]_agentVars

\* A close that was rejected is tried again only after the finalizer completed.
RetriedAfterRepair ==
  [][\A lane \in Lanes : job[lane].pc = "close" /\ job'[lane].pc # "close" => job[lane].repaired]_agentVars

\* Every pipeline, role and dispatched agent comes to an end, also when its image fails.
CallsEnd ==
  /\ record.status = "running" ~> record.status # "running"
  /\ \A j \in Roles \union Dispatched : status[j] = "running" ~> status[j] # "running"
=============================================================================
