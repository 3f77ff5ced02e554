--------------------------- MODULE GraphExecution ---------------------------
(***************************************************************************)
(* executeGraphWorkflow of agent-workflows/graph-executor.ts, with the     *)
(* lifecycle hooks of hooks.ts, and the model validator workflow-model.ts. *)
(*                                                                         *)
(* A workflow is a tree of nodes.  Executing a node makes a frame, named   *)
(* by its path: the nodes above it, each with the iteration it is in (0    *)
(* outside loops).  A step is the code of one frame between two awaits, so *)
(* the lanes of a parallel loop interleave.  Handlers, hooks and `when`    *)
(* expressions may throw.                                                  *)
(***************************************************************************)
EXTENDS Naturals, Sequences, SequencesExt, FiniteSets

CONSTANTS
  Workflows,     \* the trees that may be executed: functions from ids to nodes
  Pipelines,     \* named pipelines, resolved to the id of their root node
  MaxDepth,      \* options.refs.maxDepth
  GraphFaults    \* bound on throwing handlers, hooks and expressions

\* Trees over their own nodes.  A named pipeline is a composite of its nodes, or a wave
\* (resolveNamedPipeline), and the pass of a loop is no entry that could be needed.
ASSUME GraphAssumption ==
  /\ MaxDepth \in Nat \ {0} /\ GraphFaults \in Nat
  /\ \A w \in Workflows :
       /\ "root" \in DOMAIN w
       /\ \A t \in DOMAIN Pipelines : Pipelines[t] \in DOMAIN w /\ w[Pipelines[t]].kind \notin {"$ref", "git.merge"}
       /\ \A n \in DOMAIN w : /\ w[n].kids \in Seq(DOMAIN w)
                             /\ \A d \in w[n].needs \intersect DOMAIN w : w[d].kind # "iteration"

VARIABLES wf, frames, graphFaults
graphVars == <<wf, frames, graphFaults>>

Leaves == {"agent", "work.close", "container"}
Concrete == Leaves \union {"composite", "loop", "git.worktree", "git.merge"}
\* "iteration" is the map of nodes of one pass of a loop that defines `nodes`.
Owners == {"composite", "git.worktree", "iteration"}
Root == <<<<"root", 0>>>>
Kid(p, k, i) == Append(p, <<k, i>>)

\* A result: hasMergeEffects of it, and what collectMergeableResults finds in it.
Result(type, effects, collected) ==
  [type |-> type, effects |-> effects, collected |-> collected]
NoResult == Result("none", FALSE, {})
Workspace(e) == Result("WorkspaceResult", e, {[type |-> "WorkspaceResult", effects |-> e]})

Frame(n, refs, needs) ==
  [node |-> n, refs |-> refs, needs |-> needs, phase |-> "entering", order |-> <<>>,
   status |-> "live", result |-> NoResult, why |-> "none"]

GraphInit ==
  /\ wf \in Workflows /\ frames = [p \in {Root} |-> Frame("root", <<>>, {})] /\ graphFaults = 0

-----------------------------------------------------------------------------
(* The validator *)

Inherits(kind) == kind \in {"loop", "iteration"}
\* RESULT_CONTRACTS and deriveNodeContract: a loop is mergeable when a child is.
Mergeable(w) ==
  LET m[n \in DOMAIN w] ==
        \/ w[n].kind = "git.worktree"
        \/ Inherits(w[n].kind) /\ \E k \in ToSet(w[n].kids) : m[k]
  IN {n \in DOMAIN w : m[n]}

NeedsSiblings(w, n) == \A k \in ToSet(w[n].kids) : w[k].needs \subseteq ToSet(w[n].kids)
LoopIsDefined(v) == v.kids # <<>> /\ (v.mode = "parallel" => v.each # <<>>)

\* validateChildNodes: which kinds own children, and that needs name siblings.
ValidChildren(w, n) ==
  /\ NeedsSiblings(w, n)
  /\ w[n].kind \in Owners => w[n].kids # <<>>
  /\ w[n].kind \in Leaves \union {"git.merge", "$ref"} => w[n].kids = <<>>

\* validateMergeInputs.
ValidMerge(w, n) == w[n].needs # {} /\ w[n].needs \subseteq Mergeable(w)

ValidNode(w, n) ==
  /\ w[n].kind \in Concrete \union {"$ref", "iteration"}
  /\ ValidChildren(w, n)
  /\ w[n].kind = "loop" => LoopIsDefined(w[n])
  /\ w[n].kind = "git.merge" => ValidMerge(w, n)

\* validateWorkflowModel.
Accepted(w) == w["root"].kind = "composite" /\ \A n \in DOMAIN w : ValidNode(w, n)

\* validateConfigGraphNodes of index.ts, which looks at kinds, needs and refs of a
\* configured pipeline less closely.
ConfigAccepts(w) ==
  \A n \in DOMAIN w : /\ w[n].kind = "loop" => LoopIsDefined(w[n])
                      /\ w[n].kind \in {"composite", "git.worktree"} => w[n].kids # <<>>

-----------------------------------------------------------------------------
(* Frames *)

Node(p) == wf[frames[p].node]
Live(p) == frames[p].status = "live"
At(p, phase) == Live(p) /\ frames[p].phase = phase
Below(p) == {q \in DOMAIN frames : Len(q) > Len(p) /\ SubSeq(q, 1, Len(p)) = p}
Children(p) == {q \in DOMAIN frames : Len(q) = Len(p) + 1 /\ Front(q) = p}
ChildOf(p, k) == frames[Kid(p, k, 0)]

Set(p, phase) == frames' = [frames EXCEPT ![p].phase = phase]
End(p, status) == frames' = [frames EXCEPT ![p].status = status, ![p].phase = "ended"]
Throw(p, why, to) ==
  IF to = "ended" \/ Node(p).kind = "iteration"
  THEN frames' = [frames EXCEPT ![p].status = "failed", ![p].phase = "ended", ![p].why = why]
  ELSE frames' = [frames EXCEPT ![p].phase = to, ![p].why = why]
Return(p, r) ==
  IF Node(p).kind = "iteration"
  THEN frames' = [frames EXCEPT ![p].status = "succeeded", ![p].phase = "ended", ![p].result = r]
  ELSE frames' = [frames EXCEPT ![p].phase = "after", ![p].result = r]
Begin(p, q, k, needs) ==
  frames' = [x \in DOMAIN frames \union {q} |->
               IF x = q THEN Frame(k, frames[p].refs, needs) ELSE frames[x]]

Sound == UNCHANGED <<wf, graphFaults>>
Fault == /\ graphFaults < GraphFaults
         /\ graphFaults' = graphFaults + 1
         /\ UNCHANGED wf

-----------------------------------------------------------------------------
(* executeNode *)

TooDeep(p) == Len(frames[p].refs) >= MaxDepth
\* executeRefNode: the target runs in the same place, under a longer stack.
EnterRef(p) ==
  /\ At(p, "entering") /\ Node(p).kind = "$ref"
  /\ \E t \in Node(p).targets :
       IF \/ t \in ToSet(frames[p].refs)
          \/ TooDeep(p)
          \/ t \notin DOMAIN Pipelines
       THEN Throw(p, "ref", "ended")
       ELSE frames' = [frames EXCEPT ![p].node = Pipelines[t],
                                     ![p].refs = Append(@, t)]
  /\ Sound

\* evaluateWhenExpression: what a `when` may come to; anything but a boolean throws.
When(p) == IF Node(p).gated THEN {"yes", "no", "throws"} ELSE {"yes"}
SkippedNeed(p) == "skipped" \in {d.status : d \in frames[p].needs}
Known(p) == Node(p).kind \in Concrete \union {"iteration"}

\* An unknown kind throws; a skipped need, or a false `when`, skips the node.
EnterNode(p) ==
  /\ At(p, "entering") /\ Node(p).kind # "$ref"
  /\ \/ ~Known(p) /\ Throw(p, "shape", "ended") /\ Sound
     \/ Known(p) /\ SkippedNeed(p) /\ End(p, "skipped") /\ Sound
     \/ /\ Known(p) /\ ~SkippedNeed(p)
        /\ \E w \in When(p) :
             \/ w = "yes" /\ Set(p, IF Node(p).kind = "iteration" THEN "body" ELSE "before") /\ Sound
             \/ w = "no" /\ End(p, "skipped") /\ Sound
             \/ w = "throws" /\ Throw(p, "fault", "ended") /\ Fault

\* A throwing beforeNode hook is outside the try: no onNodeError hook hears of it.
BeforeHooks(p) ==
  /\ At(p, "before")
  /\ \/ Set(p, "body") /\ Sound
     \/ Throw(p, "fault", "ended") /\ Fault

AfterHooks(p) ==
  /\ At(p, "after")
  /\ \/ End(p, "succeeded") /\ Sound
     \/ Throw(p, "fault", "onError") /\ Fault

Swallowed(p) == End(p, "succeeded")                                   \* mutant
Rethrown(p) == End(p, "failed")
\* The node's error is rethrown whatever the onNodeError hooks do.
ErrorHooks(p) == At(p, "onError") /\ Rethrown(p) /\ Sound

-----------------------------------------------------------------------------
(* executeNodeBody *)

HandlerThrows(p) == Throw(p, "fault", "onError") /\ Fault

RunLeaf(p) ==
  /\ At(p, "body") /\ Node(p).kind \in Leaves
  /\ \/ Return(p, Result("LeafResult", FALSE, {})) /\ Sound
     \/ HandlerThrows(p)

\* What executeMergeNode asks of each input, and isMergeableResult.
IsMergeable(r) ==
  \/ r.type = "WorkspaceResult"
  \/ r.type = "LoopResult" /\ r.collected # {}

Anything(r) == TRUE                                                   \* mutant
HasMergeEffects(r) == r.effects
MergeInputs(p) == IF Node(p).inputs = {} THEN Node(p).needs ELSE Node(p).inputs
CanMerge(p) ==
  /\ MergeInputs(p) # {}
  /\ \A n \in MergeInputs(p) : \E d \in frames[p].needs :
       d.id = n /\ IsMergeable(d.result) /\ HasMergeEffects(d.result)

RunMerge(p) ==
  /\ At(p, "body") /\ Node(p).kind = "git.merge"
  /\ IF CanMerge(p)
     THEN \/ Return(p, Result("GitMergeResult", FALSE, {})) /\ Sound
          \/ HandlerThrows(p)
     ELSE Throw(p, "merge", "onError") /\ Sound

(* executeNodeMap: passes over the entries, each executed when its needs are
   there.  The next child is the first ready entry after the last one executed,
   going round once. *)
Ordered(p) == ToSet(frames[p].order)
Position(p, k) == CHOOSE i \in DOMAIN Node(p).kids : Node(p).kids[i] = k
Ready(p) == {k \in ToSet(Node(p).kids) \ Ordered(p) : wf[k].needs \subseteq Ordered(p)}
Turn(p, k) ==
  LET last == IF frames[p].order = <<>> THEN 0 ELSE Position(p, Last(frames[p].order))
  IN IF Position(p, k) > last THEN Position(p, k) ELSE Position(p, k) + Len(Node(p).kids)
NextKid(p) == CHOOSE k \in Ready(p) : \A o \in Ready(p) : Turn(p, k) <= Turn(p, o)
NeverStuck(p) == FALSE                                                \* mutant
Stuck(p) == Ready(p) = {} /\ Ordered(p) # ToSet(Node(p).kids)
BadMap(p) == Node(p).kids = <<>> \/ ~NeedsSiblings(wf, frames[p].node)
NeedsOf(p, k) ==
  {[id |-> d, status |-> ChildOf(p, d).status, result |-> ChildOf(p, d).result] : d \in wf[k].needs}

StartChild(p) ==
  /\ At(p, "body") /\ Node(p).kind \in Owners
  /\ {Last(q)[1] : q \in Children(p)} = Ordered(p)
  /\ \/ /\ BadMap(p)
        /\ Throw(p, "shape", "onError")
     \/ /\ ~BadMap(p) /\ Ready(p) # {}
        /\ Begin(p, Kid(p, NextKid(p), 0), NextKid(p), NeedsOf(p, NextKid(p)))
     \/ /\ ~BadMap(p) /\ Stuck(p)
        /\ Throw(p, "cycle", "onError")
  /\ Sound

\* The await of a child: its result is recorded, or its error leaves the map.
ChildEnds(p) ==
  /\ At(p, "body") /\ Node(p).kind \in Owners
  /\ \E q \in Children(p) :
       LET k == Last(q)[1] IN
       /\ ~Live(q) /\ k \notin Ordered(p)
       /\ IF frames[q].status = "failed"
          THEN Throw(p, "child", "onError")
          ELSE frames' = [frames EXCEPT ![p].order = Append(@, k)]
  /\ Sound

Collected(p) == UNION {frames[q].result.collected : q \in Children(p)}

\* The handler of a worktree opens it, has the children executed and closes it.
WorktreeThrows(p) ==
  /\ At(p, "body") /\ Node(p).kind = "git.worktree" /\ \A q \in Children(p) : ~Live(q)
  /\ HandlerThrows(p)

\* A composite's result, or a worktree's, which may have found no effects.
FinishMap(p) ==
  /\ At(p, "body") /\ Node(p).kind \in Owners
  /\ Node(p).kids # <<>> /\ Ordered(p) = ToSet(Node(p).kids)
  /\ \/ /\ Node(p).kind # "git.worktree"
        /\ Return(p, Result("CompositeResult", FALSE, Collected(p)))
        /\ Sound
     \/ /\ Node(p).kind = "git.worktree"
        /\ \E e \in BOOLEAN : Return(p, Workspace(e))
        /\ Sound

(* executeLoopNode *)
Iterations(v) ==
  IF v.each = <<>> THEN IF v.max = 0 THEN 1 ELSE v.max
  ELSE IF v.mode = "parallel" \/ v.max = 0 THEN v.each[1]
  ELSE IF v.each[1] < v.max THEN v.each[1] ELSE v.max
Workers(v) == IF v.mode = "sequential" THEN 1 ELSE IF v.max = 0 THEN Iterations(v) ELSE v.max
Breaking(p) == \E q \in Children(p) : frames[q].status = "failed"
Running(p) == {q \in Children(p) : Live(q)}

\* A worker takes the next item unless an iteration has failed.
StartIteration(p) ==
  /\ At(p, "body") /\ Node(p).kind = "loop"
  /\ IF LoopIsDefined(Node(p))
     THEN LET k == Node(p).kids[1]
              i == Cardinality(Children(p)) + 1
          IN /\ ~Breaking(p)
             /\ i <= Iterations(Node(p))
             /\ Cardinality(Running(p)) < Workers(Node(p))
             /\ Begin(p, Kid(p, k, i), k, {})
     ELSE Throw(p, "shape", "onError")
  /\ Sound

LoopResult(p) ==
  LET c == Collected(p)
      merges == c # {} /\ \A r \in c : r.type = "WorkspaceResult"
      e == \E r \in c : r.effects
  IN Result("LoopResult", e, IF merges THEN {[type |-> "LoopResult", effects |-> e]} ELSE {})

Settled(p) == Running(p) = {}
\* All workers have ended: the first error is thrown, or the results collected.
FinishLoop(p) ==
  /\ At(p, "body") /\ Node(p).kind = "loop" /\ LoopIsDefined(Node(p))
  /\ Settled(p)
  /\ \/ Breaking(p) /\ Throw(p, "child", "onError")
     \/ /\ ~Breaking(p) /\ Cardinality(Children(p)) = Iterations(Node(p))
        /\ Return(p, LoopResult(p))
  /\ Sound

Step(p) ==
  \/ EnterRef(p) \/ EnterNode(p) \/ BeforeHooks(p) \/ AfterHooks(p) \/ ErrorHooks(p)
  \/ RunLeaf(p) \/ RunMerge(p) \/ StartChild(p) \/ ChildEnds(p) \/ FinishMap(p)
  \/ WorktreeThrows(p) \/ StartIteration(p) \/ FinishLoop(p)

GraphNext == \E p \in DOMAIN frames : Step(p)

-----------------------------------------------------------------------------
(* Properties *)

Statuses == {"live", "succeeded", "skipped", "failed"}
Phases == {"entering", "before", "body", "after", "onError", "ended"}
Reasons == {"none", "shape", "ref", "cycle", "merge", "child", "fault"}
GraphTypeOK ==
  /\ Root \in DOMAIN frames /\ graphFaults \in 0..GraphFaults
  /\ \A p \in DOMAIN frames :
       /\ frames[p].node \in DOMAIN wf /\ Len(frames[p].refs) <= MaxDepth
       /\ frames[p].status \in Statuses /\ frames[p].phase \in Phases
       /\ frames[p].why \in Reasons
       /\ Live(p) <=> frames[p].phase # "ended"

\* A node has answered only when everything it started has: a lane of a parallel
\* loop that is still at work when another fails is waited for, so its worktree is
\* cleaned up before the failure is reported (runParallel, executeLoopNode).
NothingOutlivesItsNode ==
  \A p \in DOMAIN frames : ~Live(p) => \A q \in Children(p) : ~Live(q)

\* No failure is swallowed: whatever a node threw, every node above it fails too,
\* and tells its onNodeError hooks, whether or not they throw (executeNode).
FailuresReachTheRoot ==
  \A p \in DOMAIN frames : \A q \in Children(p) :
    ~Live(p) /\ frames[q].status = "failed" => frames[p].status = "failed"

\* Where the worktrees of an input are, as far as a merge may look for them.
Merged(p) == {Kid(Front(p), n, 0) : n \in MergeInputs(p)}
\* A git.merge whose handler was called found, below every one of its inputs, a
\* worktree that succeeded with effects, and nothing below any of them failed or
\* is still at work (executeMergeNode, isMergeableResult, hasMergeEffects).
MergesOnlyFinishedWork ==
  \A p \in DOMAIN frames :
    Node(p).kind = "git.merge" /\ frames[p].result.type = "GitMergeResult" =>
      \A i \in Merged(p) :
        /\ i \in DOMAIN frames
        /\ \A q \in {i} \union Below(i) : frames[q].status \in {"succeeded", "skipped"}
        /\ \E q \in {i} \union Below(i) :
             Node(q).kind = "git.worktree" /\ frames[q].status = "succeeded" /\ frames[q].result.effects

\* What the validator's acceptance is worth to a run: no node is refused for its
\* shape, and a merge is refused only over a worktree without effects, over a
\* loop, or for an input that it does not need (validateWorkflowModel beside
\* executeNodeMap, resolveLoopIterations and executeMergeNode).
Excused(p) == {d \in frames[p].needs : \/ wf[d.id].kind = "loop"
                                       \/ wf[d.id].kind = "git.worktree" /\ ~d.result.effects}
AcceptedGraphsAreSound ==
  \A p \in DOMAIN frames :
    \/ frames[p].why \notin {"shape", "merge"}
    \/ frames[p].why = "merge" /\ Excused(p) # {}
    \/ frames[p].why = "merge" /\ ~(MergeInputs(p) \subseteq {d.id : d \in frames[p].needs})
    \/ ~Accepted(wf)
\* A configured pipeline that was accepted fails for its shape only where a kind is
\* unknown, a need names no sibling, or a loop's map of nodes is empty.
ConfiguredGraphsAreSound ==
  ConfigAccepts(wf) =>
    \A p \in DOMAIN frames : frames[p].why = "shape" =>
      \/ ~Known(p) \/ ~NeedsSiblings(wf, frames[p].node)
      \/ Node(p).kind = "iteration" /\ Node(p).kids = <<>>

\* Merges and shapes are as sound as the executor and the two validators make them.
GraphsAreSound == MergesOnlyFinishedWork /\ AcceptedGraphsAreSound /\ ConfiguredGraphsAreSound

\* The call returns, also for needs in a cycle and for refs in a cycle.
Returns == <>(~Live(Root))
=============================================================================
