------------------------ MODULE GitWorktreeTransaction ------------------------
(***************************************************************************)
(* The isolated-worktree delivery transaction of                           *)
(* blueprints/babysitter-dv/src/git-worktree-transaction.js: every item is *)
(* delivered by its own call sequence prepareItem, deliver, refreshStale,  *)
(* retryStale; all of them share one Git repository and one target branch. *)
(* Every await of the code that touches Git or the journal is one step.    *)
(*                                                                         *)
(* A commit is its history: the sequence of contributions it contains.     *)
(* Nobody rewrites the target (pushes by others are fast-forwards).        *)
(***************************************************************************)
EXTENDS Integers, Sequences, SequencesExt, FiniteSets

CONSTANTS
  Items,       \* work items, each with its own branch and worktrees
  Push,        \* a commit that somebody else pushes to the target branch
  Strategies,  \* the integration strategies a caller may choose
  MaxPushes,   \* bound on the commits pushed by others
  MaxFaults,   \* bound on the failures of Git, guard, journal and acceptance
  LostAcks     \* TRUE: a failing Git command may have taken effect

KnownStrategies == {"merge-commit", "squash", "rebase"}

ASSUME ItemsAssumption == IsFiniteSet(Items) /\ Push \notin Items
ASSUME StrategiesAssumption == Strategies \subseteq KnownStrategies
ASSUME BoundsAssumption == MaxPushes \in Nat /\ MaxFaults \in Nat
ASSUME LostAcksAssumption == LostAcks \in BOOLEAN

VARIABLES
  \* the Git repository
  target,      \* history of refs/heads/<targetBranch>
  branches,    \* items whose branch exists
  itemTrees,   \* items whose worktree exists
  intTrees,    \* <<item, attempt>> whose integration worktree exists
  \* the call that is running for each item
  at,          \* the action the call is executing, "none" between calls
  phase,       \* how far that action is
  status,      \* what the last call returned or threw
  strategy,    \* integration strategy of the call
  handle,      \* item.targetBaseSha as prepareItem returned it
  base,        \* item.targetBaseSha of the current attempt
  attempt,     \* 0 for deliver, 1 after refreshStale
  head,        \* HEAD of the integration worktree
  cand,        \* candidateSha, <<>> before rev-parse returned it
  \* durable evidence and the environment
  journal,     \* <<action, kind, attempt>> entries appended for each item
  approvals,   \* candidates an independent reviewer approved, per item
  pushes,      \* commits pushed by others
  faults,      \* failures so far
  \* observation
  onto,        \* the target history the head was integrated on
  accepted     \* commits for which root acceptance returned true

git == <<target, branches, itemTrees, intTrees>>
control == <<at, phase, status>>
data == <<strategy, handle, base, attempt, head, cand, onto>>
evidence == <<journal, accepted>>
environment == <<approvals, pushes>>
vars == <<git, control, data, evidence, environment, faults>>

History == Seq(Items \union {Push})
CandidateActions == {"integration-worktree-create", "integrate", "squash-commit",
                     "root-acceptance", "candidate-sha"}
Calls == {"prepare-item", "integration-deliver", "integration-refresh",
          "integration-retry"}
CleanupActions == {"integration-worktree-remove", "item-worktree-remove",
                   "branch-delete"}
Actions == CandidateActions \union Calls \union CleanupActions
             \union {"cas-publication"}
Kinds == {"guard-intent", "intent", "succeeded", "failed", "stale",
          "publication-failed", "published", "created", "conflict", "report"}
Phases == {"idle", "guard", "resolve", "intent", "run", "outcome", "undone",
           "conflicted", "rejected", "report", "report-conflict", "reread",
           "stale", "unmoved", "published", "cleanup-failed"}
Published == {"published-but-cas-recording-uncertain",
              "published-but-recording-failed", "published-but-cleanup-failed",
              "published-but-cleanup-recording-uncertain", "delivered"}
Statuses == {"none", "prepare-threw", "prepared", "failed", "conflict", "stale",
             "refreshed", "publication-failed", "threw", "threw-post-effect",
             "integration-effect-recording-uncertain"} \union Published

\* Which statuses leave the caller free to call deliver (again) on the item.
Deliverable == {"prepared", "failed", "conflict", "publication-failed", "threw"}

-----------------------------------------------------------------------------
\* Git's answer to integrating the item on top of a history: nothing to do
\* when it is already there ("Already up to date").
WithItem(h, i) == IF Contains(h, i) THEN h ELSE Append(h, i)

\* The item's branch: the base the worktree was created at plus its own work.
BranchTip(i) == Append(handle[i], i)

Set(f, i, v) == [f EXCEPT ![i] = v]

Goto(i, a, p) == /\ at' = Set(at, i, a)
                 /\ phase' = Set(phase, i, p)
                 /\ UNCHANGED status
Advance(i, p) == Goto(i, at[i], p)
Return(i, s) == /\ at' = Set(at, i, "none")
                /\ phase' = Set(phase, i, "idle")
                /\ status' = Set(status, i, s)

At(i, acts, p) == at[i] \in acts /\ phase[i] = p

Fault == faults < MaxFaults /\ faults' = faults + 1

\* record: the append either is durable or throws and leaves nothing behind.
Recorded(i, kind) ==
  /\ journal' = Set(journal, i, journal[i] \union {<<at[i], kind, attempt[i]>>})
  /\ UNCHANGED <<faults, accepted>>
Unrecorded == Fault /\ UNCHANGED <<journal, accepted>>

\* A Git command fails, either before or (a lost acknowledgement) after
\* doing its work.
Fails == Fault /\ UNCHANGED evidence

-----------------------------------------------------------------------------
(* Calls.  Every exported function starts with guardBefore.                *)

CallPrepare(i) ==
  /\ phase[i] = "idle" /\ status[i] \in {"none", "prepare-threw"}
  /\ Goto(i, "prepare-item", "guard")
  /\ UNCHANGED <<git, data, evidence, environment, faults>>

CallDeliver(i, s) ==
  /\ phase[i] = "idle" /\ status[i] \in Deliverable
  /\ Goto(i, "integration-deliver", "guard")
  /\ strategy' = Set(strategy, i, s)
  /\ base' = Set(base, i, handle[i])
  /\ attempt' = Set(attempt, i, 0)
  /\ cand' = Set(cand, i, <<>>)
  /\ UNCHANGED <<git, handle, head, onto, evidence, environment, faults>>

CallRefresh(i) ==
  /\ phase[i] = "idle" /\ status[i] = "stale"
  /\ Goto(i, "integration-refresh", "guard")
  /\ UNCHANGED <<git, data, evidence, environment, faults>>

\* The caller still holds the refreshed candidate when a retry was refused or
\* could not be published.
CallRetry(i) ==
  /\ phase[i] = "idle"
  /\ \/ status[i] = "refreshed"
     \/ /\ status[i] \in {"publication-failed", "threw"}
        /\ attempt[i] = 1 /\ cand[i] # <<>>
  /\ Goto(i, "integration-retry", "guard")
  /\ UNCHANGED <<git, data, evidence, environment, faults>>

\* guardBefore: journal the intent, then ask the guard.
Guarded == Calls \union CleanupActions \union {"cas-publication"}
UnloggedGuard(i) == UNCHANGED <<evidence, faults>>                \* mutant
GuardPasses(i) == Recorded(i, "guard-intent")
GuardRefuses(i) ==
  \/ Unrecorded
  \/ /\ Fault
     /\ journal' = Set(journal, i, journal[i] \union
                         {<<at[i], "guard-intent", attempt[i]>>})
     /\ UNCHANGED accepted

Guard(i) ==
  /\ At(i, Guarded, "guard")
  /\ \/ /\ GuardPasses(i)
        /\ CASE at[i] = "prepare-item" -> Advance(i, "resolve")
             [] at[i] = "integration-deliver" ->
                  Goto(i, "integration-worktree-create", "intent")
             [] at[i] \in {"integration-refresh", "integration-retry"} ->
                  Advance(i, "resolve")
             [] OTHER -> Advance(i, "run")
     \/ /\ GuardRefuses(i)
        /\ CASE at[i] = "prepare-item" -> Return(i, "prepare-threw")
             [] at[i] \in Calls \ {"prepare-item"} -> Return(i, "threw")
             [] OTHER -> Advance(i, "undone")
  /\ UNCHANGED <<git, data, environment>>

-----------------------------------------------------------------------------
(* prepareItem *)

\* resolveTarget: read the base the worktree will start from.
ResolveTarget(i) ==
  /\ At(i, {"prepare-item"}, "resolve")
  /\ \/ /\ handle' = Set(handle, i, target)
        /\ Advance(i, "run")
        /\ UNCHANGED <<evidence, faults>>
     \/ /\ Fails
        /\ Return(i, "prepare-threw")
        /\ UNCHANGED handle
  /\ UNCHANGED <<git, strategy, base, attempt, head, cand, onto, environment>>

AddItemWorktree(i) ==
  /\ At(i, {"prepare-item"}, "run")
  /\ \/ /\ i \notin branches /\ i \notin itemTrees
        /\ branches' = branches \union {i}
        /\ itemTrees' = itemTrees \union {i}
        /\ \/ Advance(i, "outcome") /\ UNCHANGED <<evidence, faults>>
           \/ LostAcks /\ Fails /\ Return(i, "prepare-threw")
     \/ /\ \/ Fails
           \/ i \in branches \union itemTrees /\ UNCHANGED <<evidence, faults>>
        /\ Return(i, "prepare-threw")
        /\ UNCHANGED <<branches, itemTrees>>
  /\ UNCHANGED <<target, intTrees, data, environment>>

RecordItemWorktree(i) ==
  /\ At(i, {"prepare-item"}, "outcome")
  /\ \/ Recorded(i, "created") /\ Return(i, "prepared")
     \/ Unrecorded /\ Return(i, "threw-post-effect")
  /\ UNCHANGED <<git, data, environment>>

-----------------------------------------------------------------------------
(* refreshStale and retryStale, after their guard *)

\* staleResult always carries attempt 0, so the next attempt is always 1.
NextAttempt(i) == 1

\* Re-read the target and start over from it.
RefreshBase(i) ==
  /\ At(i, {"integration-refresh"}, "resolve")
  /\ \/ /\ base' = Set(base, i, target)
        /\ attempt' = Set(attempt, i, NextAttempt(i))
        /\ cand' = Set(cand, i, <<>>)
        /\ Goto(i, "integration-worktree-create", "intent")
        /\ UNCHANGED <<evidence, faults>>
     \/ /\ Fails
        /\ Return(i, "threw")
        /\ UNCHANGED <<base, attempt, cand>>
  /\ UNCHANGED <<git, strategy, handle, head, onto, environment>>

\* retryStale accepts approving, fresh and independent evidence for exactly
\* this candidate that review.verify confirms; anything else throws.
ApprovedCandidate(i, sha) == sha = cand[i]
CheckReview(i) ==
  /\ At(i, {"integration-retry"}, "resolve")
  /\ \/ /\ \E sha \in approvals[i] : ApprovedCandidate(i, sha)
        /\ Goto(i, "cas-publication", "intent")
     \/ Return(i, "threw")
  /\ UNCHANGED <<git, data, evidence, environment, faults>>

-----------------------------------------------------------------------------
(* createCandidate *)

RecordIntent(i) ==
  /\ At(i, CandidateActions, "intent")
  /\ \/ Recorded(i, "intent") /\ Advance(i, "run")
     \/ Unrecorded /\ Advance(i, "undone")
  /\ UNCHANGED <<git, data, environment>>

WorktreeAddable(i) == /\ <<i, attempt[i]>> \notin intTrees
                      /\ strategy[i] = "rebase" => i \in branches

CreateIntegrationWorktree(i) ==
  /\ At(i, {"integration-worktree-create"}, "run")
  /\ \/ /\ WorktreeAddable(i)
        /\ intTrees' = intTrees \union {<<i, attempt[i]>>}
        /\ onto' = Set(onto, i, base[i])
        /\ head' = Set(head, i, IF strategy[i] = "rebase" THEN BranchTip(i)
                                                          ELSE base[i])
        /\ \/ Advance(i, "outcome") /\ UNCHANGED <<evidence, faults>>
           \/ LostAcks /\ Fails /\ Advance(i, "undone")
     \/ /\ \/ Fails
           \/ ~WorktreeAddable(i) /\ UNCHANGED <<evidence, faults>>
        /\ Advance(i, "undone")
        /\ UNCHANGED <<intTrees, head, onto>>
  /\ UNCHANGED <<target, branches, itemTrees, strategy, handle, base, attempt,
                 cand, environment>>

\* The ref the strategy integrates with: rebase names the live branch.
IntegrationBase(i) == IF strategy[i] = "rebase" THEN target ELSE base[i]

\* merge --no-ff, merge --squash (which only stages) or rebase.  A conflict
\* needs somebody else's change below the item's.
Integrate(i) ==
  /\ At(i, {"integrate"}, "run")
  /\ \/ /\ i \in branches
        /\ onto' = Set(onto, i, IntegrationBase(i))
        /\ head' = Set(head, i, IF strategy[i] = "squash" THEN head[i]
                                 ELSE WithItem(IntegrationBase(i), i))
        /\ \/ Advance(i, "outcome") /\ UNCHANGED <<evidence, faults>>
           \/ LostAcks /\ Fails /\ Advance(i, "undone")
     \/ /\ i \in branches /\ IntegrationBase(i) # handle[i]
        /\ Advance(i, "conflicted")
        /\ UNCHANGED <<onto, head, evidence, faults>>
     \/ /\ Fails \/ (i \notin branches /\ UNCHANGED <<evidence, faults>>)
        /\ Advance(i, "undone")
        /\ UNCHANGED <<onto, head>>
  /\ UNCHANGED <<git, strategy, handle, base, attempt, cand, environment>>

\* "nothing to commit" is a failure of git commit.
SquashCommit(i) ==
  /\ At(i, {"squash-commit"}, "run")
  /\ \/ /\ ~Contains(head[i], i)
        /\ head' = Set(head, i, Append(head[i], i))
        /\ \/ Advance(i, "outcome") /\ UNCHANGED <<evidence, faults>>
           \/ LostAcks /\ Fails /\ Advance(i, "undone")
     \/ /\ Fails \/ (Contains(head[i], i) /\ UNCHANGED <<evidence, faults>>)
        /\ Advance(i, "undone")
        /\ UNCHANGED head
  /\ UNCHANGED <<git, strategy, handle, base, attempt, cand, onto, environment>>

\* acceptance.run returns true or false, or throws.
RootAcceptance(i) ==
  /\ At(i, {"root-acceptance"}, "run")
  /\ \/ /\ accepted' = accepted \union {head[i]}
        /\ Advance(i, "outcome")
        /\ UNCHANGED <<journal, faults>>
     \/ Advance(i, "rejected") /\ UNCHANGED <<evidence, faults>>
     \/ Fails /\ Advance(i, "undone")
  /\ UNCHANGED <<git, data, environment>>

ReadCandidateSha(i) ==
  /\ At(i, {"candidate-sha"}, "run")
  /\ \/ /\ cand' = Set(cand, i, head[i])
        /\ Advance(i, "outcome")
        /\ UNCHANGED <<evidence, faults>>
     \/ Fails /\ Advance(i, "undone") /\ UNCHANGED cand
  /\ UNCHANGED <<git, strategy, handle, base, attempt, head, onto, environment>>

\* What follows an action whose success was recorded.
AfterSuccess(i) ==
  CASE at[i] = "integration-worktree-create" -> Goto(i, "integrate", "intent")
    [] at[i] = "integrate" /\ strategy[i] = "squash" ->
         Goto(i, "squash-commit", "intent")
    [] \/ at[i] = "integrate" /\ strategy[i] # "squash"
       \/ at[i] = "squash-commit" -> Goto(i, "root-acceptance", "intent")
    [] at[i] = "root-acceptance" -> Goto(i, "candidate-sha", "intent")
    [] at[i] = "candidate-sha" /\ attempt[i] = 0 ->
         Goto(i, "cas-publication", "intent")
    [] OTHER -> Return(i, "refreshed")

\* A candidate whose checks failed is reported, never published.
IgnoredRejection(i) == Goto(i, "candidate-sha", "intent")         \* mutant
AfterRejection(i) == Advance(i, "report")

\* actionOutcome(effect, "succeeded"), and "failed" for checks that failed.
OutcomeRecorded(i) == Recorded(i, "succeeded")

RecordOutcome(i) ==
  /\ at[i] \in CandidateActions
  /\ \/ /\ phase[i] = "outcome"
        /\ OutcomeRecorded(i) /\ AfterSuccess(i)
     \/ /\ phase[i] = "rejected"
        /\ Recorded(i, "failed") /\ AfterRejection(i)
     \/ /\ phase[i] \in {"outcome", "rejected"}
        /\ Unrecorded
        /\ Return(i, "integration-effect-recording-uncertain")
  /\ UNCHANGED <<git, data, environment>>

\* actionOutcome(effect, "failed") in the catch blocks; when this append fails
\* the error escapes the call marked postEffectRecord.
RecordFailedOutcome(i) ==
  /\ at[i] \in CandidateActions /\ phase[i] \in {"undone", "conflicted"}
  /\ \/ /\ Recorded(i, "failed")
        /\ CASE phase[i] = "conflicted" -> Advance(i, "report-conflict")
             [] phase[i] = "undone" /\ at[i] = "candidate-sha" ->
                  Return(i, "failed")
             [] OTHER -> Advance(i, "report")
     \/ Unrecorded /\ Return(i, "threw-post-effect")
  /\ UNCHANGED <<git, data, environment>>

\* The conflict or failure record that ends createCandidate.
RecordFailure(i) ==
  /\ at[i] \in CandidateActions
  /\ \/ /\ phase[i] = "report"
        /\ Recorded(i, "report") /\ Return(i, "failed")
     \/ /\ phase[i] = "report-conflict"
        /\ Recorded(i, "conflict") /\ Return(i, "conflict")
     \/ phase[i] = "report-conflict" /\ Fails /\ Advance(i, "report")
     \/ /\ phase[i] \in {"report", "report-conflict"}
        /\ Unrecorded /\ Return(i, "threw")
  /\ UNCHANGED <<git, data, environment>>

-----------------------------------------------------------------------------
(* publish *)

RecordPublicationIntent(i) ==
  /\ At(i, {"cas-publication"}, "intent")
  /\ \/ Recorded(i, "intent") /\ Advance(i, "guard")
     \/ Unrecorded /\ Return(i, "publication-failed")
  /\ UNCHANGED <<git, data, environment>>

\* update-ref refs/heads/<target> <candidate> <expected base>.
BlindUpdate(i) == TRUE                                            \* mutant
AtExpectedBase(i) == target = base[i]

CasPublish(i) ==
  /\ At(i, {"cas-publication"}, "run")
  /\ \/ /\ AtExpectedBase(i)
        /\ target' = cand[i]
        /\ \/ Advance(i, "outcome") /\ UNCHANGED <<evidence, faults>>
           \/ LostAcks /\ Fails /\ Advance(i, "undone")
     \/ /\ Fails \/ (~AtExpectedBase(i) /\ UNCHANGED <<evidence, faults>>)
        /\ Advance(i, "undone")
        /\ UNCHANGED target
  /\ UNCHANGED <<branches, itemTrees, intTrees, data, environment>>

RecordCasOutcome(i) ==
  /\ at[i] = "cas-publication"
  /\ \/ /\ phase[i] = "outcome"
        /\ \/ Recorded(i, "succeeded") /\ Advance(i, "published")
           \/ /\ Unrecorded
              /\ Return(i, "published-but-cas-recording-uncertain")
     \/ /\ phase[i] = "undone"   \* the outcome's own failure is ignored
        /\ Recorded(i, "failed") \/ Unrecorded
        /\ Advance(i, "reread")
  /\ UNCHANGED <<git, data, environment>>

\* After a failed compare-and-swap the target tells why.
AnyFailureIsStale(i) == TRUE                                      \* mutant
TargetMoved(i) == target # base[i]
RetriedInPlace(i) == Advance(i, "run")                            \* mutant
TakenForOwn(i) ==                                                 \* mutant
  Advance(i, IF TargetMoved(i) THEN "published" ELSE "unmoved")
AfterReread(i) == Advance(i, IF TargetMoved(i) THEN "stale" ELSE "unmoved")

RereadTarget(i) ==
  /\ At(i, {"cas-publication"}, "reread")
  /\ \/ Fails /\ Return(i, "publication-failed")
     \/ AfterReread(i) /\ UNCHANGED <<evidence, faults>>
  /\ UNCHANGED <<git, data, environment>>

RecordUnpublished(i) ==
  /\ at[i] = "cas-publication"
  /\ \/ /\ phase[i] = "stale"
        /\ \/ Recorded(i, "stale") /\ Return(i, "stale")
           \/ Unrecorded /\ Return(i, "threw")
     \/ /\ phase[i] = "unmoved"
        /\ Recorded(i, "publication-failed") \/ Unrecorded
        /\ Return(i, "publication-failed")
  /\ UNCHANGED <<git, data, environment>>

RecordPublished(i) ==
  /\ At(i, {"cas-publication"}, "published")
  /\ \/ /\ Recorded(i, "published")
        /\ Goto(i, "integration-worktree-remove", "intent")
     \/ Unrecorded /\ Return(i, "published-but-recording-failed")
  /\ UNCHANGED <<git, data, environment>>

-----------------------------------------------------------------------------
(* cleanup: three effects, each with its own intent, guard and outcome *)

RecordCleanupIntent(i) ==
  /\ At(i, CleanupActions, "intent")
  /\ \/ Recorded(i, "intent") /\ Advance(i, "guard")
     \/ Unrecorded /\ Advance(i, "cleanup-failed")
  /\ UNCHANGED <<git, data, environment>>

Removable(i) ==
  CASE at[i] = "integration-worktree-remove" -> <<i, attempt[i]>> \in intTrees
    [] at[i] = "item-worktree-remove" -> i \in itemTrees
    [] OTHER -> i \in branches

Discard(i) ==
  /\ intTrees' = IF at[i] = "integration-worktree-remove"
                 THEN intTrees \ {<<i, attempt[i]>>} ELSE intTrees
  /\ itemTrees' = IF at[i] = "item-worktree-remove"
                  THEN itemTrees \ {i} ELSE itemTrees
  /\ branches' = IF at[i] = "branch-delete" THEN branches \ {i} ELSE branches

CleanupEffect(i) ==
  /\ At(i, CleanupActions, "run")
  /\ \/ /\ Removable(i) /\ Discard(i)
        /\ \/ Advance(i, "outcome") /\ UNCHANGED <<evidence, faults>>
           \/ LostAcks /\ Fails /\ Advance(i, "undone")
     \/ /\ Fails \/ (~Removable(i) /\ UNCHANGED <<evidence, faults>>)
        /\ Advance(i, "undone")
        /\ UNCHANGED <<intTrees, itemTrees, branches>>
  /\ UNCHANGED <<target, data, environment>>

BranchForgotten(i) ==                                             \* mutant
  IF at[i] = "integration-worktree-remove"
  THEN Goto(i, "item-worktree-remove", "intent") ELSE Return(i, "delivered")
AfterCleanup(i) ==
  CASE at[i] = "integration-worktree-remove" ->
         Goto(i, "item-worktree-remove", "intent")
    [] at[i] = "item-worktree-remove" -> Goto(i, "branch-delete", "intent")
    [] OTHER -> Return(i, "delivered")

RecordCleanupOutcome(i) ==
  /\ at[i] \in CleanupActions
  /\ \/ /\ phase[i] = "outcome"
        /\ \/ Recorded(i, "succeeded") /\ AfterCleanup(i)
           \/ /\ Unrecorded
              /\ Return(i, "published-but-cleanup-recording-uncertain")
     \/ /\ phase[i] = "undone"
        /\ Recorded(i, "failed") \/ Unrecorded
        /\ Advance(i, "cleanup-failed")
  /\ UNCHANGED <<git, data, environment>>

RecordCleanupFailed(i) ==
  /\ At(i, CleanupActions, "cleanup-failed")
  /\ Recorded(i, "report") \/ Unrecorded
  /\ Return(i, "published-but-cleanup-failed")
  /\ UNCHANGED <<git, data, environment>>

-----------------------------------------------------------------------------
(* The environment: other people's pushes, and independent reviewers who   *)
(* look at the candidate that exists now.                                  *)

PushTarget ==
  /\ pushes < MaxPushes
  /\ pushes' = pushes + 1
  /\ target' = Append(target, Push)
  /\ UNCHANGED <<branches, itemTrees, intTrees, control, data, evidence,
                 approvals, faults>>

Approve(i) ==
  /\ phase[i] = "idle" /\ cand[i] # <<>>
  /\ status[i] \in {"stale", "refreshed", "publication-failed", "threw"}
  /\ cand[i] \notin approvals[i]
  /\ approvals' = Set(approvals, i, approvals[i] \union {cand[i]})
  /\ UNCHANGED <<git, control, data, evidence, pushes, faults>>

-----------------------------------------------------------------------------
Init ==
  /\ target = <<>> /\ branches = {} /\ itemTrees = {} /\ intTrees = {}
  /\ at = [i \in Items |-> "none"]
  /\ phase = [i \in Items |-> "idle"]
  /\ status = [i \in Items |-> "none"]
  /\ strategy = [i \in Items |-> "merge-commit"]
  /\ handle = [i \in Items |-> <<>>]
  /\ base = [i \in Items |-> <<>>]
  /\ attempt = [i \in Items |-> 0]
  /\ head = [i \in Items |-> <<>>]
  /\ cand = [i \in Items |-> <<>>]
  /\ onto = [i \in Items |-> <<>>]
  /\ journal = [i \in Items |-> {}]
  /\ approvals = [i \in Items |-> {}]
  /\ accepted = {}
  /\ pushes = 0 /\ faults = 0

Call(i) == \/ CallPrepare(i)
           \/ \E s \in Strategies : CallDeliver(i, s)
           \/ CallRefresh(i)
           \/ CallRetry(i)

Candidate(i) == \/ RecordIntent(i) \/ CreateIntegrationWorktree(i)
                \/ Integrate(i) \/ SquashCommit(i) \/ RootAcceptance(i)
                \/ ReadCandidateSha(i) \/ RecordOutcome(i)
                \/ RecordFailedOutcome(i) \/ RecordFailure(i)

Publish(i) == \/ RecordPublicationIntent(i) \/ CasPublish(i)
              \/ RecordCasOutcome(i) \/ RereadTarget(i)
              \/ RecordUnpublished(i) \/ RecordPublished(i)

Cleanup(i) == \/ RecordCleanupIntent(i) \/ CleanupEffect(i)
              \/ RecordCleanupOutcome(i) \/ RecordCleanupFailed(i)

Run(i) == \/ Guard(i) \/ ResolveTarget(i) \/ AddItemWorktree(i)
          \/ RecordItemWorktree(i) \/ RefreshBase(i) \/ CheckReview(i)
          \/ Candidate(i) \/ Publish(i) \/ Cleanup(i)

Next == PushTarget \/ \E i \in Items : Call(i) \/ Run(i) \/ Approve(i)

Spec == Init /\ [][Next]_vars

\* Every awaited command and port of a running call settles.
LiveSpec == Spec /\ \A i \in Items : WF_vars(Run(i))

-----------------------------------------------------------------------------
(* Properties *)

GitOK == /\ target \in History
         /\ branches \subseteq Items /\ itemTrees \subseteq Items
         /\ intTrees \subseteq Items \X {0, 1}
ControlOK == /\ at \in [Items -> Actions \union {"none"}]
             /\ phase \in [Items -> Phases]
             /\ status \in [Items -> Statuses]
             /\ \A i \in Items : at[i] = "none" <=> phase[i] = "idle"
DataOK == /\ strategy \in [Items -> KnownStrategies]
          /\ handle \in [Items -> History] /\ base \in [Items -> History]
          /\ head \in [Items -> History] /\ cand \in [Items -> History]
          /\ onto \in [Items -> History]
          /\ attempt \in [Items -> {0, 1}]
EvidenceOK == /\ journal \in [Items -> SUBSET (Actions \X Kinds \X {0, 1})]
              /\ accepted \subseteq History
EnvironmentOK == /\ approvals \in [Items -> SUBSET History]
                 /\ pushes \in Nat /\ faults \in Nat

\* Every variable stays in its type, and an action is named exactly while a
\* call is running.
TypeOK == GitOK /\ ControlOK /\ DataOK /\ EvidenceOK /\ EnvironmentOK

\* No step loses what the target branch contains: concurrent deliveries and
\* pushes only add to it (the compare-and-swap of update-ref, line 284).
TargetOnlyAdvances == [][IsPrefix(target, target')]_target

\* Each item arrives at most once, on top of the rest, and neither a status
\* nor a removed workspace claims it before it arrived (publish, cleanup).
Delivery == INSTANCE ItemDelivery WITH
  log <- target,
  told <- {i \in Items : status[i] \in Published},
  released <- {i \in Items : /\ status[i] \notin {"none", "prepare-threw"}
                             /\ i \notin branches \intersect itemTrees}
ImplementsDelivery == Delivery!Spec

\* Whatever strategy and however often the base moved, the commit that brought
\* an item into the target is one that root acceptance passed (lines 195-211).
PublishedWasAccepted ==
  \A k \in 1..Len(target) :
    target[k] \in Items => SubSeq(target, 1, k) \in accepted

\* A refreshed candidate reaches the target only after an independent reviewer
\* approved exactly that commit: an approval of the stale candidate does not
\* carry over (retryStale, lines 394-417).
RefreshedWasReviewed ==
  [][\A i \in Items :
       attempt[i] = 1 /\ target' # target /\ Last(target') = i
         => target' \in approvals[i]]_target

\* What the target contains was accepted and, after a refresh, reviewed anew.
TargetIsVetted == [][PublishedWasAccepted']_vars /\ RefreshedWasReviewed

\* The journal explains the repository: a worktree, a branch update or a
\* removal is never there without a durable intent written before it.
JournalExplainsRepository ==
  \A i \in Items :
    /\ \A n \in {0, 1} : <<i, n>> \in intTrees =>
          <<"integration-worktree-create", "intent", n>> \in journal[i]
    /\ i \in branches \union itemTrees =>
          <<"prepare-item", "guard-intent", 0>> \in journal[i]
    /\ Contains(target, i) => \E n \in {0, 1} :
          /\ <<"cas-publication", "intent", n>> \in journal[i]
          /\ <<"cas-publication", "guard-intent", n>> \in journal[i]
    /\ \A n \in {0, 1} :
          /\ <<"integration-worktree-create", "succeeded", n>> \in journal[i]
          /\ <<i, n>> \notin intTrees
          => <<"integration-worktree-remove", "intent", n>> \in journal[i]

\* An intent whose outcome the journal does not hold.
InDoubt(i, n) ==
  {a \in Actions : /\ <<a, "intent", n>> \in journal[i]
                   /\ <<a, "succeeded", n>> \notin journal[i]
                   /\ <<a, "failed", n>> \notin journal[i]}

\* Wherever a run stops, the journal leaves at most one effect of an attempt in
\* doubt, so whoever recovers has one thing to inspect (lines 94-104, 115-117).
OneEffectInDoubt ==
  \A i \in Items, n \in {0, 1} : Cardinality(InDoubt(i, n)) <= 1

\* Whoever recovers an interrupted run finds in the journal all that may be in
\* the repository, and one effect to inspect.
RecoverableFromJournal == JournalExplainsRepository /\ OneEffectInDoubt

\* A recorded success is true of the repository, and "delivered" means that
\* the item is in the target and its branch, worktree and the integration
\* worktree of the attempt are gone.
OutcomesAreTrue ==
  \A i \in Items :
    /\ \A n \in {0, 1} :
          /\ <<"cas-publication", "succeeded", n>> \in journal[i]
               => Contains(target, i)
          /\ <<"item-worktree-remove", "succeeded", n>> \in journal[i]
               => i \notin itemTrees
          /\ <<"branch-delete", "succeeded", n>> \in journal[i]
               => i \notin branches
    /\ status[i] = "delivered" =>
          /\ Contains(target, i)
          /\ i \notin branches \union itemTrees
          /\ <<i, attempt[i]>> \notin intTrees

\* An item reported as not published is not published, or an answer was lost and
\* the journal leaves its publication without a success; and "stale" means that
\* the target advanced since the candidate's base (lines 293-310).
UnpublishedIsHonest ==
  \A i \in Items :
    /\ status[i] \in {"failed", "conflict", "stale", "refreshed",
                      "publication-failed", "threw"} /\ phase[i] = "idle"
         => \/ ~Contains(target, i)
            \/ LostAcks /\ \A n \in {0, 1} : <<"cas-publication", "succeeded", n>> \notin journal[i]
    /\ status[i] = "stale" /\ phase[i] = "idle" => IsStrictPrefix(base[i], target)

\* Every call returns or throws (no await is left without a continuation).
CallsReturn == \A i \in Items : phase[i] # "idle" ~> phase[i] = "idle"

\* backlog/003: "Successful delivery cleans item and temporary integration
\* worktrees".
DeliveredLeavesNoWorktree ==
  \A i \in Items : status[i] = "delivered" =>
    i \notin itemTrees /\ \A n \in {0, 1} : <<i, n>> \notin intTrees
=============================================================================
