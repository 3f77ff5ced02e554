------------------------------ MODULE GraphMerge ------------------------------
(***************************************************************************)
(* The git.merge node of a workflow graph: mergeGraphWorkspaceBranches and *)
(* runMergerConflictRole of agent-workflows/index.ts.  The branches that   *)
(* the lanes of the graph produced are merged one after the other into the *)
(* branch checked out in the target worktree, a conflict is handed to a    *)
(* merger agent, and merged sources are deleted on request.                *)
(*                                                                         *)
(* Every awaited Git command is one step.  People may commit to the target *)
(* worktree while the node runs, and any Git command may fail.             *)
(***************************************************************************)
EXTENDS Filtering, Integers, Sequences, SequencesExt, FiniteSets

CONSTANTS
  Branches,       \* lane branches, each with a commit of its own
  Other,          \* a commit that somebody else makes in the target worktree
  MaxCandidates,  \* bound on the workspace results that the node needs
  MaxOthers,      \* 1: somebody else commits once
  MaxFaults       \* bound on failing Git commands

ASSUME BranchesAssumption ==
  IsFiniteSet(Branches) /\ Other \notin Branches /\ "none" \notin Branches
ASSUME BoundsAssumption == {MaxCandidates, MaxOthers, MaxFaults} \subseteq Nat

VARIABLES
  \* the node: what it is asked to do
  needed,      \* branches of the effectful workspace results it needs
  verdicts,    \* reviews matching each branch: TRUE accepts, FALSE rejects
  acceptedOnly, deleteMerged, hasMerger,
  \* the repository
  target,      \* the contributions that HEAD of the target worktree contains
  open,        \* the branch of a merge in progress (MERGE_HEAD), or "none"
  unmerged,    \* that merge has unresolved paths
  sources,     \* lane branches that exist
  trees,       \* lane branches that have a worktree
  dirtyTrees,  \* those with uncommitted changes
  \* the handler
  pc,
  queue,       \* candidates still to be merged, the current one first
  start, previous,
  merged,      \* mergedBranches
  faults,
  overtaken    \* observation: a candidate came up while a merge was open

task == <<needed, verdicts, acceptedOnly, deleteMerged, hasMerger>>
lanes == <<sources, trees, dirtyTrees>>
heads == <<start, previous, merged>>
vars == <<task, target, open, unmerged, lanes, pc, queue, heads, faults,
          overtaken>>

Steps == {"collect", "check", "merge", "resolve", "conflicts", "abort", "reset",
          "head", "list", "status", "remove", "delete", "done", "threw"}

Fault == faults < MaxFaults /\ faults' = faults + 1
Clean == open = "none"

-----------------------------------------------------------------------------
(* Before the first merge *)

\* acceptedOnlyCandidates: some review accepts the branch and none rejects it.
SomeAccepts(b) == TRUE \in verdicts[b]                            \* mutant
Accepted(b) == verdicts[b] = {TRUE}

\* collectWorkspaceMergeCandidates: a branch that several results name is
\* there several times.
Candidates ==
  IF acceptedOnly THEN Filtered(needed, {b \in Branches : Accepted(b)}) ELSE needed
Collect ==
  /\ pc = "collect"
  /\ queue' = Candidates
  /\ pc' = IF Candidates = <<>> THEN "threw" ELSE "check"
  /\ UNCHANGED <<task, target, open, unmerged, lanes, heads, faults>>

\* Four reads of the target worktree: HEAD, and nothing uncommitted.
Check ==
  /\ pc = "check"
  /\ \/ /\ Clean
        /\ start' = target /\ previous' = target
        /\ pc' = "merge"
        /\ UNCHANGED faults
     \/ /\ Fault \/ (~Clean /\ UNCHANGED faults)
        /\ pc' = "threw"
        /\ UNCHANGED <<start, previous>>
  /\ UNCHANGED <<task, target, open, unmerged, lanes, queue, merged>>

-----------------------------------------------------------------------------
(* One candidate *)

branch == Head(queue)
NextCandidate == pc' = "merge" /\ queue' = Tail(queue)

\* git merge --no-ff --no-edit.  It refuses while another merge is open and
\* when the branch is gone.
Merge ==
  /\ pc = "merge" /\ queue # <<>>
  /\ overtaken' = (overtaken \/ ~Clean)
  /\ \/ /\ Clean /\ branch \in sources
        /\ \/ /\ target' = target \union {branch}
              /\ pc' = "head"
              /\ UNCHANGED <<open, unmerged>>
           \/ /\ branch \notin target
              /\ open' = branch /\ unmerged' = TRUE
              /\ pc' = "resolve"
              /\ UNCHANGED target
        /\ UNCHANGED faults
     \/ /\ Fault \/ (~(Clean /\ branch \in sources) /\ UNCHANGED faults)
        /\ pc' = "resolve"
        /\ UNCHANGED <<target, open, unmerged>>
  /\ UNCHANGED <<task, lanes, queue, heads>>

\* What a merger agent leaves behind, whatever it then reports: a merge
\* commit, a resolution that is not committed, unresolved paths, or a merge it
\* gave up itself.
Resolutions ==
  \/ open # "none" /\ target' = target \union {open} /\ open' = "none" /\ unmerged' = FALSE
  \/ open # "none" /\ unmerged' = FALSE /\ UNCHANGED <<target, open>>
  \/ open' = "none" /\ unmerged' = FALSE /\ UNCHANGED target
  \/ UNCHANGED <<target, open, unmerged>>

\* resolveConflict: without a merger role there is no resolution.  When the
\* run record cannot be written the resolver throws, and so does the node.
Resolve ==
  /\ pc = "resolve"
  /\ \/ /\ ~hasMerger
        /\ pc' = "abort"
        /\ UNCHANGED <<target, open, unmerged, faults>>
     \/ /\ hasMerger /\ Resolutions
        /\ \/ pc' \in {"conflicts", "abort"} /\ UNCHANGED faults
           \/ Fault /\ pc' = "threw"
  /\ UNCHANGED <<task, lanes, queue, heads>>

\* git diff --diff-filter=U
CheckConflicts ==
  /\ pc = "conflicts"
  /\ \/ pc' = (IF unmerged THEN "abort" ELSE "head") /\ UNCHANGED faults
     \/ Fault /\ pc' = "threw"
  /\ UNCHANGED <<task, target, open, unmerged, lanes, queue, heads>>

\* git merge --abort, then git reset --hard: neither result is looked at.
Abort ==
  /\ pc = "abort" /\ pc' = "reset"
  /\ \/ open' = "none" /\ unmerged' = FALSE /\ UNCHANGED faults
     \/ Fault /\ UNCHANGED <<open, unmerged>>
  /\ UNCHANGED <<task, target, lanes, queue, heads>>

LastKept == previous                                              \* mutant
ResetTo == start
Reset ==
  /\ pc = "reset" /\ pc' = "threw"
  /\ \/ target' = ResetTo /\ open' = "none" /\ unmerged' = FALSE /\ UNCHANGED faults
     \/ Fault /\ UNCHANGED <<target, open, unmerged>>
  /\ UNCHANGED <<task, lanes, queue, heads>>

\* git rev-parse HEAD: a moved head means that this branch was merged.
Moved == target # previous
ReadHead ==
  /\ pc = "head"
  /\ \/ /\ previous' = target
        /\ UNCHANGED faults
        /\ \/ /\ Moved
              /\ merged' = merged \union {branch}
              /\ \/ deleteMerged /\ pc' = "list" /\ UNCHANGED queue
                 \/ ~deleteMerged /\ NextCandidate
           \/ /\ ~Moved
              /\ NextCandidate
              /\ UNCHANGED merged
     \/ Fault /\ pc' = "threw" /\ UNCHANGED <<previous, merged, queue>>
  /\ UNCHANGED <<task, target, open, unmerged, lanes, start>>

-----------------------------------------------------------------------------
(* delete: true.  A failure is a warning, never an error. *)

FindSourceWorktree ==
  /\ pc = "list"
  /\ \/ /\ pc' = (IF branch \in trees THEN "status" ELSE "delete")
        /\ UNCHANGED <<queue, faults>>
     \/ Fault /\ NextCandidate
  /\ UNCHANGED <<task, target, open, unmerged, lanes, heads>>

CheckSource ==
  /\ pc = "status"
  /\ \/ branch \notin dirtyTrees /\ pc' = "remove" /\ UNCHANGED <<queue, faults>>
     \/ branch \in dirtyTrees /\ NextCandidate /\ UNCHANGED faults
     \/ Fault /\ NextCandidate
  /\ UNCHANGED <<task, target, open, unmerged, lanes, heads>>

RemoveSource ==
  /\ pc = "remove"
  /\ \/ /\ trees' = trees \ {branch}
        /\ pc' = "delete"
        /\ UNCHANGED <<queue, faults>>
     \/ Fault /\ NextCandidate /\ UNCHANGED trees
  /\ UNCHANGED <<task, target, open, unmerged, sources, dirtyTrees, heads>>

\* git branch -d refuses a branch that HEAD does not contain.
ForcedDelete == branch \in sources                                \* mutant
Deletable == branch \in sources \intersect target
DeleteSource ==
  /\ pc = "delete"
  /\ NextCandidate
  /\ \/ Deletable /\ sources' = sources \ {branch} /\ UNCHANGED faults
     \/ /\ Fault \/ (~Deletable /\ UNCHANGED faults)
        /\ UNCHANGED sources
  /\ UNCHANGED <<task, target, open, unmerged, trees, dirtyTrees, heads>>

-----------------------------------------------------------------------------
\* "completed without merge effects" when nothing was merged.
Finish ==
  /\ pc = "merge" /\ queue = <<>>
  /\ pc' = IF previous = start \/ merged = {} THEN "threw" ELSE "done"
  /\ UNCHANGED <<task, target, open, unmerged, lanes, queue, heads, faults>>

\* Somebody else commits in the target worktree.
CommitByOthers ==
  /\ MaxOthers = 1 /\ Clean /\ Other \notin target
  /\ pc \notin {"done", "threw"}
  /\ target' = target \union {Other}
  /\ UNCHANGED <<task, open, unmerged, lanes, pc, queue, heads, faults, overtaken>>

Init ==
  /\ needed \in {s \in SeqOf(Branches, MaxCandidates) : s # <<>>}
  /\ acceptedOnly \in BOOLEAN /\ deleteMerged \in BOOLEAN /\ hasMerger \in BOOLEAN
  /\ verdicts \in [Branches -> IF acceptedOnly THEN SUBSET BOOLEAN ELSE {{}}]
  /\ target = {}
  /\ open = "none" /\ unmerged = FALSE
  /\ sources = Branches
  /\ trees = Branches
  /\ dirtyTrees \in IF deleteMerged THEN SUBSET trees ELSE {{}}
  /\ pc = "collect" /\ queue = <<>>
  /\ start = target /\ previous = target /\ merged = {}
  /\ faults = 0 /\ overtaken = FALSE

Handler ==
  \/ Merge
  \/ /\ \/ Collect \/ Check \/ Resolve \/ CheckConflicts \/ Abort \/ Reset
        \/ ReadHead \/ FindSourceWorktree \/ CheckSource \/ RemoveSource
        \/ DeleteSource \/ Finish
     /\ UNCHANGED overtaken

Next == Handler \/ CommitByOthers

Spec == Init /\ [][Next]_vars

-----------------------------------------------------------------------------
(* Properties *)

\* Every variable stays in its type, the candidates are taken in order, and only
\* the source of a merged branch is cleaned up.
TypeOK ==
  /\ needed \in Seq(Branches) /\ queue \in Seq(Branches)
  /\ verdicts \in [Branches -> SUBSET BOOLEAN]
  /\ {acceptedOnly, deleteMerged, hasMerger, unmerged} \subseteq BOOLEAN
  /\ {target, start, previous} \subseteq SUBSET (Branches \union {Other})
  /\ open \in Branches \union {"none"} /\ (unmerged => open # "none")
  /\ dirtyTrees \subseteq Branches /\ trees \subseteq Branches
  /\ sources \subseteq Branches /\ merged \subseteq Branches
  /\ pc \in Steps /\ faults \in 0..MaxFaults
  /\ IsSuffix(queue, Candidates)
  /\ pc \in {"list", "status", "remove", "delete"} => branch \in merged

\* A node that fails leaves none of its branches in the target, however many it
\* had merged before and whatever the merger agent did, unless Git itself failed
\* (lines 3728-3732 and 3734-3738).
FailureMergesNothing ==
  pc = "threw" /\ faults = 0 =>
    target \intersect Branches = start \intersect Branches

\* A node that succeeds reports exactly what it added to the target, unless
\* somebody else committed there meanwhile or the merger agent left a merge
\* uncommitted, which it may then commit under the next branch's name (lines
\* 3740-3745, 3780).
ReportIsTrue ==
  pc = "done" /\ Other \notin target /\ ~overtaken => merged = target \ start

\* A node, well typed, leaves nothing when it fails and reports the truth when
\* it succeeds.
OutcomeIsTrue == TypeOK /\ FailureMergesNothing /\ ReportIsTrue

\* With strategy accepted-only a branch that some review rejects, or none
\* accepts, never gets into the target (lines 3700-3703).
RejectedStaysOut ==
  acceptedOnly => \A b \in Branches \intersect (target \ start) :
                    FALSE \notin verdicts[b] /\ TRUE \in verdicts[b]

\* A source branch is deleted only while the target contains its commits, also
\* when a merge was resolved without a commit and the head moved because of
\* somebody else (lines 3746-3775).
DeletedWasMerged == [][sources \ sources' \subseteq target]_sources

\* CONTRIBUTORS.md:75: "git.merge must fail closed on ... conflicts": the commits
\* of every lane stay reachable from its branch or from the target.
LanesSurvive == Branches \subseteq sources \union target
=============================================================================
