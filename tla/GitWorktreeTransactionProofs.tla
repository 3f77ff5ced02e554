-------------------- MODULE GitWorktreeTransactionProofs --------------------
(***************************************************************************)
(* Proofs about GitWorktreeTransaction for every set of items, every bound *)
(* and every choice of strategies, with and without lost acknowledgements. *)
(***************************************************************************)
EXTENDS GitWorktreeTransaction, FiniteSetTheorems, SequenceTheorems, TLAPS

-----------------------------------------------------------------------------
(* Prefixes of histories *)

LEMMA PrefixPointwise ==
  ASSUME NEW S, NEW s \in Seq(S), NEW t \in Seq(S)
  PROVE  IsPrefix(s, t) <=> /\ Len(s) <= Len(t)
                            /\ \A k \in 1..Len(s) : s[k] = t[k]
<1>1. SubSeq(s, 1, Len(s)) = s
  BY SubSeqFull
<1>2. ASSUME Len(s) <= Len(t)
      PROVE  /\ SubSeq(t, 1, Len(s)) \in Seq(S)
             /\ Len(SubSeq(t, 1, Len(s))) = Len(s)
             /\ \A k \in 1..Len(s) : SubSeq(t, 1, Len(s))[k] = t[k]
  BY <1>2
<1>3. ASSUME Len(s) <= Len(t), \A k \in 1..Len(s) : s[k] = t[k]
      PROVE  s = SubSeq(t, 1, Len(s))
  BY <1>2, <1>3, SeqEqual
<1>4. QED
  BY <1>1, <1>2, <1>3 DEF IsPrefix

LEMMA PrefixReflexive ==
  ASSUME NEW S, NEW s \in Seq(S)
  PROVE  IsPrefix(s, s)
BY PrefixPointwise

LEMMA PrefixTransitive ==
  ASSUME NEW S, NEW s \in Seq(S), NEW t \in Seq(S), NEW u \in Seq(S),
         IsPrefix(s, t), IsPrefix(t, u)
  PROVE  IsPrefix(s, u)
BY PrefixPointwise

LEMMA PrefixAntisymmetric ==
  ASSUME NEW S, NEW s \in Seq(S), NEW t \in Seq(S),
         IsPrefix(s, t), IsPrefix(t, s)
  PROVE  s = t
BY PrefixPointwise, SeqEqual

LEMMA PrefixAppend ==
  ASSUME NEW S, NEW s \in Seq(S), NEW e \in S
  PROVE  IsPrefix(s, Append(s, e))
<1>1. /\ Append(s, e) \in Seq(S)
      /\ Len(Append(s, e)) = Len(s) + 1
      /\ \A k \in 1..Len(s) : Append(s, e)[k] = s[k]
  BY AppendProperties
<1>2. IsPrefix(s, Append(s, e)) <=>
        /\ Len(s) <= Len(Append(s, e))
        /\ \A k \in 1..Len(s) : s[k] = Append(s, e)[k]
  BY <1>1, PrefixPointwise, Zenon
<1>3. Len(s) \in Nat
  OBVIOUS
<1>4. QED
  BY <1>1, <1>2, <1>3

LEMMA WithItemHistory ==
  ASSUME NEW h \in History, NEW i \in Items
  PROVE  /\ WithItem(h, i) \in History
         /\ IsPrefix(h, WithItem(h, i))
         /\ WithItem(h, i) # <<>>
<1>1. CASE Contains(h, i)
  BY <1>1, PrefixReflexive DEF History, WithItem, Contains
<1>2. CASE ~Contains(h, i)
  BY <1>2, PrefixAppend DEF History, WithItem
<1>3. QED
  BY <1>1, <1>2

-----------------------------------------------------------------------------
(* Which actions touch which part of the state *)

GitStep(i) == \/ AddItemWorktree(i) \/ CreateIntegrationWorktree(i)
              \/ CasPublish(i) \/ CleanupEffect(i)
DataStep(i) == \/ \E s \in Strategies : CallDeliver(i, s)
               \/ ResolveTarget(i) \/ RefreshBase(i)
               \/ CreateIntegrationWorktree(i) \/ Integrate(i)
               \/ SquashCommit(i) \/ ReadCandidateSha(i)

LEMMA GitSteps ==
  ASSUME NEW i \in Items, Call(i) \/ Run(i) \/ Approve(i)
  PROVE  UNCHANGED git \/ GitStep(i)
BY DEF Call, Run, Candidate, Publish, Cleanup, GitStep, git, CallPrepare,
       CallDeliver, CallRefresh, CallRetry, Approve, Guard, ResolveTarget,
       RecordItemWorktree, RefreshBase, CheckReview, RecordIntent, Integrate,
       SquashCommit, RootAcceptance, ReadCandidateSha, RecordOutcome,
       RecordFailedOutcome, RecordFailure, RecordPublicationIntent,
       RecordCasOutcome, RereadTarget, RecordUnpublished, RecordPublished,
       RecordCleanupIntent, RecordCleanupOutcome, RecordCleanupFailed

LEMMA DataSteps ==
  ASSUME NEW i \in Items, Call(i) \/ Run(i) \/ Approve(i)
  PROVE  UNCHANGED data \/ DataStep(i)
BY DEF Call, Run, Candidate, Publish, Cleanup, DataStep, data, CallPrepare,
       CallDeliver, CallRefresh, CallRetry, Approve, Guard, AddItemWorktree,
       RecordItemWorktree, CheckReview, RecordIntent, RootAcceptance,
       RecordOutcome, RecordFailedOutcome, RecordFailure,
       RecordPublicationIntent, CasPublish, RecordCasOutcome, RereadTarget,
       RecordUnpublished, RecordPublished, RecordCleanupIntent, CleanupEffect,
       RecordCleanupOutcome, RecordCleanupFailed

-----------------------------------------------------------------------------
(* Type correctness *)

ControlStep(i) == \/ UNCHANGED control
                  \/ \E a \in Actions, p \in Phases \ {"idle"} : Goto(i, a, p)
                  \/ \E s \in Statuses : Return(i, s)

LEMMA ControlSteps ==
  ASSUME ControlOK, NEW i \in Items, Call(i) \/ Run(i) \/ Approve(i)
  PROVE  ControlStep(i)
<1>1. phase[i] # "idle" => at[i] \in Actions
  BY DEF ControlOK
<1>2. ASSUME NEW p \in Phases \ {"idle"}, at[i] \in Actions, Advance(i, p)
      PROVE  ControlStep(i)
  BY <1>2 DEF Advance, ControlStep
<1>3. ASSUME Call(i) PROVE ControlStep(i)
  BY <1>3 DEF Call, CallPrepare, CallDeliver, CallRefresh, CallRetry,
              ControlStep, Actions, Calls, Phases
<1>4. ASSUME Approve(i) PROVE ControlStep(i)
  BY <1>4 DEF Approve, ControlStep
<1>5. ASSUME Candidate(i) PROVE ControlStep(i)
  <2> USE <1>2 DEF At, Phases, Statuses, Published, Actions, CandidateActions,
                   ControlStep
  <2>1. CASE RecordIntent(i)
    BY <2>1 DEF RecordIntent
  <2>2. CASE CreateIntegrationWorktree(i)
    BY <2>2 DEF CreateIntegrationWorktree
  <2>3. CASE Integrate(i)
    BY <2>3 DEF Integrate
  <2>4. CASE SquashCommit(i)
    BY <2>4 DEF SquashCommit
  <2>5. CASE RootAcceptance(i)
    BY <2>5 DEF RootAcceptance
  <2>6. CASE ReadCandidateSha(i)
    BY <2>6 DEF ReadCandidateSha
  <2>7. CASE RecordOutcome(i)
    BY <2>7 DEF RecordOutcome, AfterSuccess, AfterRejection
  <2>8. CASE RecordFailedOutcome(i)
    BY <2>8 DEF RecordFailedOutcome
  <2>9. CASE RecordFailure(i)
    BY <2>9 DEF RecordFailure
  <2>10. QED
    BY <1>5, <2>1, <2>2, <2>3, <2>4, <2>5, <2>6, <2>7, <2>8, <2>9
       DEF Candidate
<1>6. ASSUME Publish(i) PROVE ControlStep(i)
  <2> USE <1>2 DEF At, Phases, Statuses, Published, Actions, CleanupActions,
                   ControlStep
  <2>1. CASE RecordPublicationIntent(i)
    BY <2>1 DEF RecordPublicationIntent
  <2>2. CASE CasPublish(i)
    BY <2>2 DEF CasPublish
  <2>3. CASE RecordCasOutcome(i)
    BY <2>3 DEF RecordCasOutcome
  <2>4. CASE RereadTarget(i)
    BY <2>4 DEF RereadTarget, AfterReread
  <2>5. CASE RecordUnpublished(i)
    BY <2>5 DEF RecordUnpublished
  <2>6. CASE RecordPublished(i)
    BY <2>6 DEF RecordPublished
  <2>7. QED
    BY <1>6, <2>1, <2>2, <2>3, <2>4, <2>5, <2>6 DEF Publish
<1>7. ASSUME Cleanup(i) PROVE ControlStep(i)
  <2> USE <1>2 DEF At, Phases, Statuses, Published, Actions, CleanupActions,
                   ControlStep
  <2>1. CASE RecordCleanupIntent(i)
    BY <2>1 DEF RecordCleanupIntent
  <2>2. CASE CleanupEffect(i)
    BY <2>2 DEF CleanupEffect
  <2>3. CASE RecordCleanupOutcome(i)
    BY <2>3 DEF RecordCleanupOutcome, AfterCleanup
  <2>4. CASE RecordCleanupFailed(i)
    BY <2>4 DEF RecordCleanupFailed
  <2>5. QED
    BY <1>7, <2>1, <2>2, <2>3, <2>4 DEF Cleanup
<1>8. ASSUME Guard(i) PROVE ControlStep(i)
  BY <1>1, <1>2, <1>8 DEF Guard, Guarded, At, Phases, Statuses, Actions,
                          CandidateActions, Calls, ControlStep
<1>9. ASSUME \/ ResolveTarget(i) \/ AddItemWorktree(i)
             \/ RecordItemWorktree(i) \/ RefreshBase(i) \/ CheckReview(i)
      PROVE  ControlStep(i)
  BY <1>2, <1>9 DEF ResolveTarget, AddItemWorktree, RecordItemWorktree,
     RefreshBase, CheckReview, At, Phases, Statuses, Actions, Calls,
     CandidateActions, ControlStep
<1>10. QED
  BY <1>3, <1>4, <1>5, <1>6, <1>7, <1>8, <1>9 DEF Run

LEMMA ControlTyped ==
  ASSUME ControlOK, NEW i \in Items, ControlStep(i)
  PROVE  ControlOK'
<1>1. CASE UNCHANGED control
  BY <1>1 DEF control, ControlOK
<1>2. ASSUME NEW a \in Actions, NEW p \in Phases \ {"idle"}, Goto(i, a, p)
      PROVE  ControlOK'
  <2>1. a # "none"
    BY DEF Actions, CandidateActions, Calls, CleanupActions
  <2>2. QED
    BY <1>2, <2>1 DEF Goto, Set, ControlOK
<1>3. ASSUME NEW s \in Statuses, Return(i, s)
      PROVE  ControlOK'
  BY <1>3 DEF Return, Set, ControlOK, Phases
<1>4. QED
  BY <1>1, <1>2, <1>3 DEF ControlStep

LEMMA GitTyped ==
  ASSUME GitOK, DataOK, NEW i \in Items, GitStep(i)
  PROVE  GitOK'
<1>1. CASE AddItemWorktree(i)
  BY <1>1 DEF AddItemWorktree, GitOK
<1>2. CASE CreateIntegrationWorktree(i)
  BY <1>2 DEF CreateIntegrationWorktree, GitOK, DataOK
<1>3. CASE CasPublish(i)
  BY <1>3 DEF CasPublish, GitOK, DataOK
<1>4. CASE CleanupEffect(i)
  BY <1>4 DEF CleanupEffect, Discard, GitOK
<1>5. QED
  BY <1>1, <1>2, <1>3, <1>4 DEF GitStep

LEMMA DataTyped ==
  ASSUME GitOK, DataOK, NEW i \in Items, DataStep(i)
  PROVE  DataOK'
<1>1. /\ <<>> \in History
      /\ Append(handle[i], i) \in History
      /\ Append(head[i], i) \in History
      /\ target \in History /\ base[i] \in History /\ head[i] \in History
      /\ handle[i] \in History
  BY DEF History, DataOK, GitOK
<1>2. /\ WithItem(target, i) \in History
      /\ WithItem(base[i], i) \in History
  BY <1>1, WithItemHistory
<1>3. ASSUME NEW s \in Strategies, CallDeliver(i, s) PROVE DataOK'
  BY <1>1, <1>3, StrategiesAssumption DEF CallDeliver, Set, DataOK
<1>4. CASE ResolveTarget(i)
  BY <1>1, <1>4 DEF ResolveTarget, Set, DataOK
<1>5. CASE RefreshBase(i)
  BY <1>1, <1>5 DEF RefreshBase, NextAttempt, Set, DataOK
<1>6. CASE CreateIntegrationWorktree(i)
  BY <1>1, <1>6 DEF CreateIntegrationWorktree, BranchTip, Set, DataOK
<1>7. CASE Integrate(i)
  BY <1>1, <1>2, <1>7 DEF Integrate, IntegrationBase, Set, DataOK
<1>8. CASE SquashCommit(i)
  BY <1>1, <1>8 DEF SquashCommit, Set, DataOK
<1>9. CASE ReadCandidateSha(i)
  BY <1>1, <1>9 DEF ReadCandidateSha, Set, DataOK
<1>10. QED
  BY <1>3, <1>4, <1>5, <1>6, <1>7, <1>8, <1>9 DEF DataStep

\* What a step adds to the durable evidence.
Logs(i) == \E kind \in Kinds :
  journal' = Set(journal, i, journal[i] \union {<<at[i], kind, attempt[i]>>})
EvidenceStep(i) ==
  /\ UNCHANGED journal \/ (at[i] \in Actions /\ Logs(i))
  /\ accepted' = accepted \/ accepted' = accepted \union {head[i]}
FaultsStep == UNCHANGED faults \/ Fault

LEMMA EvidenceSteps ==
  ASSUME ControlOK, NEW i \in Items, Call(i) \/ Run(i) \/ Approve(i)
  PROVE  EvidenceStep(i) /\ FaultsStep
<1>1. phase[i] # "idle" => at[i] \in Actions
  BY DEF ControlOK
<1>2. ASSUME NEW kind \in Kinds, at[i] \in Actions, Recorded(i, kind)
      PROVE  EvidenceStep(i) /\ FaultsStep
  BY <1>2 DEF Recorded, EvidenceStep, Logs, FaultsStep
<1>3. (Unrecorded \/ Fails \/ UNCHANGED <<evidence, faults>>)
        => EvidenceStep(i) /\ FaultsStep
  BY DEF Unrecorded, Fails, evidence, EvidenceStep, FaultsStep
<1>4. ASSUME Call(i) \/ Approve(i) PROVE EvidenceStep(i) /\ FaultsStep
  BY <1>3, <1>4 DEF Call, Approve, CallPrepare, CallDeliver, CallRefresh,
                    CallRetry
<1>5. ASSUME Guard(i) PROVE EvidenceStep(i) /\ FaultsStep
  <2>1. at[i] \in Actions
    BY <1>1, <1>5 DEF Guard, At
  <2>2. CASE GuardPasses(i)
    BY <1>2, <2>1, <2>2 DEF GuardPasses, Kinds
  <2>3. CASE GuardRefuses(i)
    BY <1>3, <2>1, <2>3 DEF GuardRefuses, EvidenceStep, FaultsStep, Logs, Kinds
  <2>4. QED
    BY <1>5, <2>2, <2>3 DEF Guard
<1>6. ASSUME \/ ResolveTarget(i) \/ AddItemWorktree(i)
             \/ RefreshBase(i) \/ CheckReview(i)
      PROVE  EvidenceStep(i) /\ FaultsStep
  BY <1>3, <1>6 DEF ResolveTarget, AddItemWorktree, RefreshBase, CheckReview
<1>7. ASSUME RecordItemWorktree(i) PROVE EvidenceStep(i) /\ FaultsStep
  BY <1>2, <1>3, <1>7 DEF RecordItemWorktree, At, Kinds, Actions, Calls
<1>8. ASSUME Candidate(i) PROVE EvidenceStep(i) /\ FaultsStep
  <2>1. CASE RootAcceptance(i)
    BY <1>3, <2>1 DEF RootAcceptance, EvidenceStep, FaultsStep
  <2>2. CASE \/ CreateIntegrationWorktree(i) \/ Integrate(i)
             \/ SquashCommit(i) \/ ReadCandidateSha(i)
    BY <1>3, <2>2 DEF CreateIntegrationWorktree, Integrate, SquashCommit,
                      ReadCandidateSha
  <2>3. CASE \/ RecordIntent(i) \/ RecordOutcome(i)
             \/ RecordFailedOutcome(i) \/ RecordFailure(i)
    BY <1>2, <1>3, <2>3 DEF RecordIntent, RecordOutcome, OutcomeRecorded,
       RecordFailedOutcome, RecordFailure, At, Kinds, Actions
  <2>4. QED
    BY <1>8, <2>1, <2>2, <2>3 DEF Candidate
<1>9. ASSUME Publish(i) PROVE EvidenceStep(i) /\ FaultsStep
  BY <1>2, <1>3, <1>9 DEF Publish, RecordPublicationIntent, CasPublish,
     RecordCasOutcome, RereadTarget, RecordUnpublished, RecordPublished, At,
     Kinds, Actions
<1>10. ASSUME Cleanup(i) PROVE EvidenceStep(i) /\ FaultsStep
  BY <1>2, <1>3, <1>10 DEF Cleanup, RecordCleanupIntent, CleanupEffect,
     RecordCleanupOutcome, RecordCleanupFailed, At, Kinds, Actions
<1>11. QED
  BY <1>4, <1>5, <1>6, <1>7, <1>8, <1>9, <1>10 DEF Run

LEMMA EvidenceTyped ==
  ASSUME EvidenceOK, DataOK, NEW i \in Items, EvidenceStep(i)
  PROVE  EvidenceOK'
<1>1. attempt[i] \in {0, 1} /\ head[i] \in History
  BY DEF DataOK
<1>2. accepted' \subseteq History
  BY <1>1 DEF EvidenceStep, EvidenceOK
<1>3. ASSUME at[i] \in Actions, NEW kind \in Kinds,
             journal' = Set(journal, i,
                            journal[i] \union {<<at[i], kind, attempt[i]>>})
      PROVE  journal' \in [Items -> SUBSET (Actions \X Kinds \X {0, 1})]
  <2>1. <<at[i], kind, attempt[i]>> \in Actions \X Kinds \X {0, 1}
    BY <1>1, <1>3
  <2>2. journal[i] \union {<<at[i], kind, attempt[i]>>}
          \in SUBSET (Actions \X Kinds \X {0, 1})
    BY <2>1 DEF EvidenceOK
  <2>3. QED
    BY <1>3, <2>2 DEF Set, EvidenceOK
<1>4. QED
  BY <1>2, <1>3 DEF EvidenceStep, Logs, EvidenceOK

LEMMA EnvironmentTyped ==
  ASSUME EnvironmentOK, DataOK, NEW i \in Items, FaultsStep,
         Call(i) \/ Run(i) \/ Approve(i)
  PROVE  EnvironmentOK'
<1>1. faults' \in Nat
  BY DEF FaultsStep, Fault, EnvironmentOK
<1>2. CASE Approve(i)
  <2>1. cand[i] \in History
    BY DEF DataOK
  <2>2. QED
    BY <1>1, <1>2, <2>1 DEF Approve, Set, EnvironmentOK
<1>3. CASE Call(i) \/ Run(i)
  <2>1. UNCHANGED environment
    BY <1>3 DEF Call, Run, Candidate, Publish, Cleanup, CallPrepare,
       CallDeliver, CallRefresh, CallRetry, Guard, ResolveTarget,
       AddItemWorktree, RecordItemWorktree, RefreshBase, CheckReview,
       RecordIntent, CreateIntegrationWorktree, Integrate, SquashCommit,
       RootAcceptance, ReadCandidateSha, RecordOutcome, RecordFailedOutcome,
       RecordFailure, RecordPublicationIntent, CasPublish, RecordCasOutcome,
       RereadTarget, RecordUnpublished, RecordPublished, RecordCleanupIntent,
       CleanupEffect, RecordCleanupOutcome, RecordCleanupFailed
  <2>2. QED
    BY <1>1, <2>1 DEF environment, EnvironmentOK
<1>4. QED
  BY <1>2, <1>3

LEMMA TypeInit == Init => TypeOK
<1>1. <<>> \in History
  BY DEF History
<1>2. QED
  BY <1>1 DEF Init, TypeOK, GitOK, ControlOK, DataOK, EvidenceOK, EnvironmentOK,
              KnownStrategies, Phases, Statuses

LEMMA TypeStep == TypeOK /\ [Next]_vars => TypeOK'
<1> SUFFICES ASSUME TypeOK, [Next]_vars PROVE TypeOK'
  OBVIOUS
<1> USE DEF TypeOK
<1>1. CASE UNCHANGED vars
  BY <1>1 DEF vars, git, control, data, evidence, environment, GitOK,
              ControlOK, DataOK, EvidenceOK, EnvironmentOK
<1>2. CASE PushTarget
  <2>1. Append(target, Push) \in History
    BY DEF GitOK, History
  <2>2. QED
    BY <1>2, <2>1 DEF PushTarget, control, data, evidence, GitOK, ControlOK,
                      DataOK, EvidenceOK, EnvironmentOK
<1>3. ASSUME NEW i \in Items, Call(i) \/ Run(i) \/ Approve(i)
      PROVE  TypeOK'
  <2>1. GitOK'
    BY <1>3, GitSteps, GitTyped DEF git, GitOK
  <2>2. ControlOK'
    BY <1>3, ControlSteps, ControlTyped
  <2>3. DataOK'
    BY <1>3, DataSteps, DataTyped DEF data, DataOK
  <2>4. EvidenceOK'
    BY <1>3, EvidenceSteps, EvidenceTyped
  <2>5. EnvironmentOK'
    BY <1>3, EvidenceSteps, EnvironmentTyped
  <2>6. QED
    BY <2>1, <2>2, <2>3, <2>4, <2>5
<1>4. QED
  BY <1>1, <1>2, <1>3 DEF Next

\* Every reachable state of the transaction is well typed, and a call is
\* running exactly while an action is named.
THEOREM TypeCorrect == Spec => []TypeOK
<1>1. QED
  BY TypeInit, TypeStep, PTL DEF Spec

-----------------------------------------------------------------------------
(* The lineage of a candidate.  TargetOnlyAdvances is not inductive by      *)
(* itself: that update-ref replaces the target by something longer depends  *)
(* on what the candidate was built on, and rebase builds on the live target *)
(* and not on the expected base.  The invariant says that base, the history *)
(* integrated on and the target are prefixes of one another in this order,  *)
(* so a compare-and-swap that finds target = base also finds onto = target. *)

Built(h, i) == /\ IsPrefix(base[i], onto[i])
               /\ IsPrefix(onto[i], target)
               /\ h = WithItem(onto[i], i)

Grounded(i) == IsPrefix(handle[i], target) /\ IsPrefix(base[i], target)

CandidateBuilt(i) == cand[i] # <<>> => Built(cand[i], i)

\* Until createCandidate read the sha there is no candidate.
NoCandidateYet(i) ==
  at[i] \in {"integration-deliver", "integration-worktree-create", "integrate",
            "squash-commit", "root-acceptance"} => cand[i] = <<>>

Staging(i) ==
  \/ /\ strategy[i] # "rebase"
     /\ \/ At(i, {"integration-worktree-create"}, "outcome")
        \/ At(i, {"integrate"}, "intent")
        \/ At(i, {"integrate"}, "run")
  \/ strategy[i] = "squash" /\ At(i, {"integrate"}, "outcome")
  \/ At(i, {"squash-commit"}, "intent")
  \/ At(i, {"squash-commit"}, "run")
Staged(i) == Staging(i) => head[i] = base[i] /\ onto[i] = base[i]

Integrating(i) ==
  \/ strategy[i] # "squash" /\ At(i, {"integrate"}, "outcome")
  \/ At(i, {"squash-commit"}, "outcome")
  \/ at[i] \in {"root-acceptance", "candidate-sha"}
Integrated(i) == Integrating(i) => Built(head[i], i)

Publishing(i) ==
  \/ at[i] \in {"cas-publication", "integration-retry"}
  \/ At(i, {"candidate-sha"}, "outcome")
  \/ at[i] = "none" /\ status[i] = "refreshed"
PublishesCandidate(i) == Publishing(i) => cand[i] # <<>>

Lineage(i) == /\ Grounded(i) /\ CandidateBuilt(i) /\ NoCandidateYet(i)
              /\ Staged(i) /\ Integrated(i) /\ PublishesCandidate(i)
LineageInv == TypeOK /\ \A i \in Items : Lineage(i)

\* A compare-and-swap that succeeds adds the item on top of the target.
LEMMA CasAddsItem ==
  ASSUME TypeOK, NEW i \in Items, Lineage(i), CasPublish(i)
  PROVE  target' = target \/ target' = WithItem(target, i)
<1>1. CASE UNCHANGED target
  BY <1>1
<1>2. CASE AtExpectedBase(i) /\ target' = cand[i]
  <2>1. Built(cand[i], i)
    BY DEF CasPublish, At, Lineage, PublishesCandidate, Publishing,
           CandidateBuilt
  <2>2. onto[i] = target
    BY <1>2, <2>1, PrefixAntisymmetric
       DEF AtExpectedBase, Built, TypeOK, GitOK, DataOK, History
  <2>3. QED
    BY <1>2, <2>1, <2>2 DEF Built
<1>3. QED
  BY <1>1, <1>2 DEF CasPublish

LEMMA TargetGrows ==
  ASSUME LineageInv, Next
  PROVE  IsPrefix(target, target')
<1>1. target \in History
  BY DEF LineageInv, TypeOK, GitOK
<1>2. IsPrefix(target, target)
  BY <1>1, PrefixReflexive DEF History
<1>3. CASE PushTarget
  BY <1>1, <1>3, PrefixAppend DEF PushTarget, History
<1>4. ASSUME NEW i \in Items, Call(i) \/ Run(i) \/ Approve(i)
      PROVE  IsPrefix(target, target')
  <2>1. CASE CasPublish(i)
    BY <1>1, <1>2, <2>1, CasAddsItem, WithItemHistory DEF LineageInv
  <2>2. CASE ~CasPublish(i)
    BY <1>2, <1>4, <2>2, GitSteps DEF git, GitStep, AddItemWorktree,
       CreateIntegrationWorktree, CleanupEffect
  <2>3. QED
    BY <2>1, <2>2
<1>5. QED
  BY <1>3, <1>4 DEF Next

\* The lineage of an item survives whatever the others do.
LEMMA LineageFrame ==
  ASSUME TypeOK, TypeOK', IsPrefix(target, target'), NEW j \in Items,
         at'[j] = at[j], phase'[j] = phase[j], status'[j] = status[j],
         strategy'[j] = strategy[j], handle'[j] = handle[j],
         base'[j] = base[j], head'[j] = head[j], cand'[j] = cand[j],
         onto'[j] = onto[j], Lineage(j)
  PROVE  Lineage(j)'
<1>1. /\ target \in History /\ target' \in History /\ handle[j] \in History
      /\ base[j] \in History /\ onto[j] \in History
  BY DEF TypeOK, GitOK, DataOK
<1>2. Grounded(j)'
  BY <1>1, PrefixTransitive DEF Lineage, Grounded, History
<1>3. IsPrefix(onto[j], target) => IsPrefix(onto'[j], target')
  BY <1>1, PrefixTransitive DEF History
<1>4. /\ Built(cand[j], j) => Built(cand[j], j)'
      /\ Built(head[j], j) => Built(head[j], j)'
  BY <1>3 DEF Built
<1>5. CandidateBuilt(j)'
  BY <1>4 DEF Lineage, CandidateBuilt
<1>6. Integrated(j)'
  BY <1>4 DEF Lineage, Integrated, Integrating, At
<1>7. NoCandidateYet(j)' /\ Staged(j)' /\ PublishesCandidate(j)'
  BY DEF Lineage, NoCandidateYet, Staged, Staging, PublishesCandidate,
         Publishing, At
<1>8. QED
  BY <1>2, <1>5, <1>6, <1>7 DEF Lineage

\* A step of one item leaves every other item's variables alone.
LEMMA StepIsLocal ==
  ASSUME TypeOK, NEW i \in Items, Call(i) \/ Run(i) \/ Approve(i),
         NEW j \in Items \ {i}
  PROVE  /\ at'[j] = at[j] /\ phase'[j] = phase[j] /\ status'[j] = status[j]
         /\ strategy'[j] = strategy[j] /\ handle'[j] = handle[j]
         /\ base'[j] = base[j] /\ head'[j] = head[j] /\ cand'[j] = cand[j]
         /\ onto'[j] = onto[j]
<1>1. at'[j] = at[j] /\ phase'[j] = phase[j] /\ status'[j] = status[j]
  BY ControlSteps DEF TypeOK, ControlOK, ControlStep, control, Goto, Return, Set
<1>2. /\ strategy'[j] = strategy[j] /\ handle'[j] = handle[j]
      /\ base'[j] = base[j] /\ head'[j] = head[j] /\ cand'[j] = cand[j]
      /\ onto'[j] = onto[j]
  <2>1. CASE UNCHANGED data
    BY <2>1 DEF data
  <2>2. CASE DataStep(i)
    BY <2>2 DEF DataStep, CallDeliver, ResolveTarget, RefreshBase,
       CreateIntegrationWorktree, Integrate, SquashCommit, ReadCandidateSha,
       Set, TypeOK, DataOK
  <2>3. QED
    BY <2>1, <2>2, DataSteps
<1>3. QED
  BY <1>1, <1>2

\* What an action that changes no candidate data owes the invariant.
ControlObligations(i) ==
  /\ NoCandidateYet(i)'
  /\ Staging(i)' => Staging(i)
  /\ Integrating(i)' => Integrating(i)
  /\ Publishing(i)' => cand[i] # <<>>

LEMMA LineageControl ==
  ASSUME TypeOK, TypeOK', IsPrefix(target, target'), NEW i \in Items,
         UNCHANGED data, Lineage(i), ControlObligations(i)
  PROVE  Lineage(i)'
<1>1. /\ target \in History /\ target' \in History /\ handle[i] \in History
      /\ base[i] \in History /\ onto[i] \in History
  BY DEF TypeOK, GitOK, DataOK
<1>2. Grounded(i)'
  BY <1>1, PrefixTransitive DEF Lineage, Grounded, History, data
<1>3. IsPrefix(onto[i], target) => IsPrefix(onto'[i], target')
  BY <1>1, PrefixTransitive DEF History, data
<1>4. /\ Built(cand[i], i) => Built(cand[i], i)'
      /\ Built(head[i], i) => Built(head[i], i)'
  BY <1>3 DEF Built, data
<1>5. CandidateBuilt(i)'
  BY <1>4 DEF Lineage, CandidateBuilt, data
<1>6. Integrated(i)'
  BY <1>4 DEF Lineage, Integrated, ControlObligations
<1>7. NoCandidateYet(i)' /\ Staged(i)' /\ PublishesCandidate(i)'
  BY DEF Lineage, Staged, PublishesCandidate, ControlObligations, data
<1>8. QED
  BY <1>2, <1>5, <1>6, <1>7 DEF Lineage

LEMMA ControlActions ==
  ASSUME TypeOK, TypeOK', NEW i \in Items, Lineage(i), UNCHANGED data,
         Call(i) \/ Run(i) \/ Approve(i), ~DataStep(i)
  PROVE  ControlObligations(i)
<1> USE DEF TypeOK, ControlOK, Lineage, NoCandidateYet, PublishesCandidate,
            ControlObligations, Staging, Integrating, Publishing, At, Set,
            data
<1>1. CASE CallPrepare(i)
  BY <1>1 DEF CallPrepare, Goto
<1>2. CASE CallRefresh(i)
  BY <1>2 DEF CallRefresh, Goto
<1>3. CASE CallRetry(i)
  BY <1>3 DEF CallRetry, Goto
<1>4. CASE Approve(i)
  BY <1>4 DEF Approve, control
<1>5. CASE Guard(i)
  <2>1. phase[i] = "guard"
    BY <1>5 DEF Guard
  <2>2. CASE at[i] = "integration-deliver"
    BY <1>5, <2>1, <2>2 DEF Guard, Advance, Goto, Return, Calls
  <2>3. CASE at[i] # "integration-deliver"
    <3>1. \/ Advance(i, "resolve") \/ Advance(i, "run") \/ Advance(i, "undone")
          \/ Return(i, "prepare-threw") \/ Return(i, "threw")
      BY <1>5, <2>3 DEF Guard
    <3>2. CASE Return(i, "prepare-threw") \/ Return(i, "threw")
      BY <3>2 DEF Return
    <3>3. CASE Advance(i, "resolve") \/ Advance(i, "undone")
      BY <2>1, <3>3 DEF Advance, Goto
    <3>4. CASE Advance(i, "run")
      <4>1. at[i] \notin {"integrate", "squash-commit"}
        BY <1>5 DEF Guard, Guarded, Calls, CleanupActions
      <4>2. QED
        BY <2>1, <3>4, <4>1 DEF Advance, Goto
    <3>5. QED
      BY <3>1, <3>2, <3>3, <3>4
  <2>4. QED
    BY <2>2, <2>3
<1>6. CASE AddItemWorktree(i) \/ RecordItemWorktree(i)
  BY <1>6 DEF AddItemWorktree, RecordItemWorktree, Advance, Goto, Return
<1>7. CASE CheckReview(i)
  BY <1>7 DEF CheckReview, Advance, Goto, Return
<1>8. CASE RecordIntent(i)
  BY <1>8 DEF RecordIntent, CandidateActions, Advance, Goto
<1>9. CASE RootAcceptance(i)
  BY <1>9 DEF RootAcceptance, Advance, Goto
<1>10. CASE RecordOutcome(i)
  <2>1. CASE phase[i] = "outcome" /\ AfterSuccess(i)
    <3>1. at[i] \in CandidateActions
      BY <1>10 DEF RecordOutcome
    <3>2. CASE at[i] \in {"integration-worktree-create", "integrate",
                         "squash-commit"}
      <4>1. CASE at[i] = "integration-worktree-create"
        BY <2>1, <4>1 DEF AfterSuccess, Goto
      <4>2. CASE at[i] = "integrate" /\ strategy[i] = "squash"
        <5>1. Goto(i, "squash-commit", "intent")
          BY <2>1, <4>2 DEF AfterSuccess
        <5>2. QED
          BY <2>1, <4>2, <5>1 DEF Goto
      <4>3. CASE \/ at[i] = "integrate" /\ strategy[i] # "squash"
                 \/ at[i] = "squash-commit"
        <5>1. Goto(i, "root-acceptance", "intent")
          BY <2>1, <4>3 DEF AfterSuccess
        <5>2. QED
          BY <2>1, <4>3, <5>1 DEF Goto
      <4>4. QED
        BY <3>2, <4>1, <4>2, <4>3
    <3>3. CASE at[i] \in {"root-acceptance", "candidate-sha"}
      BY <2>1, <3>3 DEF AfterSuccess, Goto, Return
    <3>4. QED
      BY <3>1, <3>2, <3>3 DEF CandidateActions
  <2>2. CASE AfterRejection(i) /\ phase[i] = "rejected"
    BY <1>10, <2>2 DEF RecordOutcome, AfterRejection, CandidateActions, Advance,
                       Goto
  <2>3. CASE Return(i, "integration-effect-recording-uncertain")
    BY <2>3 DEF Return
  <2>4. QED
    BY <1>10, <2>1, <2>2, <2>3 DEF RecordOutcome
<1>11. CASE RecordFailedOutcome(i)
  BY <1>11 DEF RecordFailedOutcome, CandidateActions, Advance, Goto, Return
<1>12. CASE RecordFailure(i)
  BY <1>12 DEF RecordFailure, CandidateActions, Advance, Goto, Return
<1>13. CASE Publish(i)
  BY <1>13 DEF Publish, RecordPublicationIntent, CasPublish, RecordCasOutcome,
     RereadTarget, AfterReread, RecordUnpublished, RecordPublished, Advance,
     Goto, Return
<1>14. CASE Cleanup(i)
  BY <1>14 DEF Cleanup, RecordCleanupIntent, CleanupEffect,
     RecordCleanupOutcome, AfterCleanup, RecordCleanupFailed, CleanupActions,
     Advance, Goto, Return
<1>15. QED
  BY <1>1, <1>2, <1>3, <1>4, <1>5, <1>6, <1>7, <1>8, <1>9, <1>10, <1>11,
     <1>12, <1>13, <1>14 DEF Call, Run, Candidate, DataStep

\* The actions that change what the candidate is made of.
LEMMA DataActions ==
  ASSUME TypeOK, TypeOK', NEW i \in Items, Lineage(i), DataStep(i)
  PROVE  Lineage(i)'
<1>1. /\ target \in History /\ base[i] \in History /\ head[i] \in History
      /\ handle[i] \in History
  BY DEF TypeOK, GitOK, DataOK
<1>2. IsPrefix(target, target) /\ IsPrefix(base[i], base[i])
  BY <1>1, PrefixReflexive DEF History
<1> USE <1>1, <1>2 DEF Set, At, TypeOK, ControlOK, DataOK
<1>3. ASSUME NEW s \in Strategies, CallDeliver(i, s) PROVE Lineage(i)'
  BY <1>3 DEF CallDeliver, git, Goto, Lineage, Grounded, CandidateBuilt,
     NoCandidateYet, Staged, Staging, Integrated, Integrating,
     PublishesCandidate, Publishing
<1>4. CASE ResolveTarget(i)
  BY <1>4 DEF ResolveTarget, git, Advance, Goto, Return, Lineage, Grounded,
     CandidateBuilt, Built, NoCandidateYet, Staged, Staging, Integrated,
     Integrating, PublishesCandidate, Publishing
<1>5. CASE RefreshBase(i)
  BY <1>5 DEF RefreshBase, git, Goto, Return, Lineage, Grounded,
     CandidateBuilt, Built, NoCandidateYet, Staged, Staging, Integrated,
     Integrating, PublishesCandidate, Publishing
<1>6. CASE CreateIntegrationWorktree(i)
  BY <1>6 DEF CreateIntegrationWorktree, Advance, Goto, Lineage, Grounded,
     CandidateBuilt, NoCandidateYet, Staged, Staging, Integrated, Integrating,
     PublishesCandidate, Publishing
<1>7. CASE Integrate(i)
  BY <1>7 DEF Integrate, IntegrationBase, git, Advance, Goto, Lineage,
     Grounded, CandidateBuilt, Built, NoCandidateYet, Staged, Staging,
     Integrated, Integrating, PublishesCandidate, Publishing
<1>8. CASE SquashCommit(i)
  <2>1. head[i] = base[i] /\ onto[i] = base[i] /\ cand[i] = <<>>
    BY <1>8 DEF SquashCommit, Lineage, Staged, Staging, NoCandidateYet
  <2>2. /\ Grounded(i)' /\ CandidateBuilt(i)' /\ NoCandidateYet(i)'
        /\ Staged(i)' /\ PublishesCandidate(i)'
    BY <1>8, <2>1 DEF SquashCommit, git, Advance, Goto, Lineage, Grounded,
       CandidateBuilt, NoCandidateYet, Staged, Staging, PublishesCandidate,
       Publishing
  <2>3. CASE phase'[i] = "outcome"
    <3>1. head'[i] = WithItem(base[i], i)
      BY <1>8, <2>1, <2>3 DEF SquashCommit, Advance, Goto, WithItem
    <3>2. Built(head[i], i)'
      BY <1>8, <2>1, <3>1 DEF SquashCommit, git, Built, Lineage, Grounded
    <3>3. QED
      BY <2>2, <3>2 DEF Integrated, Lineage
  <2>4. CASE phase'[i] # "outcome"
    BY <1>8, <2>2, <2>4 DEF SquashCommit, Advance, Goto, Integrated,
       Integrating, Lineage
  <2>5. QED
    BY <2>3, <2>4
<1>9. CASE ReadCandidateSha(i)
  <2>1. Built(head[i], i) => head[i] # <<>>
    BY WithItemHistory DEF Built
  <2>2. QED
    BY <1>9, <2>1 DEF ReadCandidateSha, git, Advance, Goto, Lineage, Grounded,
       CandidateBuilt, Built, NoCandidateYet, Staged, Staging, Integrated,
       Integrating, PublishesCandidate, Publishing
<1>10. QED
  BY <1>3, <1>4, <1>5, <1>6, <1>7, <1>8, <1>9 DEF DataStep

LEMMA LineageStep == LineageInv /\ [Next]_vars => LineageInv'
<1> SUFFICES ASSUME LineageInv, [Next]_vars PROVE LineageInv'
  OBVIOUS
<1>1. TypeOK /\ TypeOK'
  BY TypeStep DEF LineageInv
<1>2. CASE UNCHANGED vars
  <2>1. target' = target
    BY <1>2 DEF vars, git
  <2>2. IsPrefix(target, target')
    BY <1>1, <2>1, PrefixReflexive DEF TypeOK, GitOK, History
  <2>3. QED
    BY <1>1, <1>2, <2>2, LineageFrame DEF LineageInv, vars, control, data
<1>3. CASE PushTarget
  <2>1. IsPrefix(target, target')
    BY <1>3, TargetGrows DEF Next
  <2>2. QED
    BY <1>1, <1>3, <2>1, LineageFrame DEF LineageInv, PushTarget, control, data
<1>4. ASSUME NEW i \in Items, Call(i) \/ Run(i) \/ Approve(i)
      PROVE  LineageInv'
  <2>1. IsPrefix(target, target')
    BY <1>4, TargetGrows DEF Next
  <2>2. Lineage(i)'
    <3>1. CASE DataStep(i)
      BY <1>1, <3>1, DataActions DEF LineageInv
    <3>2. CASE ~DataStep(i)
      BY <1>1, <1>4, <2>1, <3>2, DataSteps, ControlActions, LineageControl
         DEF LineageInv
    <3>3. QED
      BY <3>1, <3>2
  <2>3. ASSUME NEW j \in Items \ {i} PROVE Lineage(j)'
    BY <1>1, <1>4, <2>1, <2>3, StepIsLocal, LineageFrame DEF LineageInv
  <2>4. QED
    BY <1>1, <2>2, <2>3 DEF LineageInv
<1>5. QED
  BY <1>2, <1>3, <1>4 DEF Next

LEMMA LineageInit == Init => LineageInv
<1> SUFFICES ASSUME Init PROVE LineageInv
  OBVIOUS
<1>1. IsPrefix(<<>>, <<>>)
  <2>1. <<>> \in Seq(Items)
    OBVIOUS
  <2>2. QED
    BY <2>1, PrefixReflexive
<1>2. ASSUME NEW i \in Items PROVE Lineage(i)
  BY <1>1 DEF Init, Lineage, Grounded, CandidateBuilt, NoCandidateYet, Staged,
     Staging, Integrated, Integrating, PublishesCandidate, Publishing, At
<1>3. QED
  BY <1>2, TypeInit DEF LineageInv

\* Base, integration point and target of every item stay prefixes of one
\* another, for any number of concurrent items, pushes and failures.
THEOREM LineageCorrect == Spec => []LineageInv
<1>1. QED
  BY LineageInit, LineageStep, PTL DEF Spec

\* No delivery and no push ever removes anything from the target branch, even
\* when acknowledgements are lost and whatever strategy the items use.
THEOREM TargetAdvances == Spec => TargetOnlyAdvances
<1>1. LineageInv /\ [Next]_vars => [IsPrefix(target, target')]_target
  BY TargetGrows DEF vars, git
<1>2. QED
  BY <1>1, LineageCorrect, PTL DEF Spec, TargetOnlyAdvances

-----------------------------------------------------------------------------
(* The steps of an item as the item sees them: where its call is and goes   *)
(* next, what it journals, and what happens to its part of the repository.  *)

Moves(i, a, p) == at'[i] = a /\ phase'[i] = p /\ status'[i] = status[i]
Ends(i, s) == at'[i] = "none" /\ phase'[i] = "idle" /\ status'[i] = s
Keeps(i) == journal'[i] = journal[i]
Writes(i, kind) == journal'[i] = journal[i] \union {<<at[i], kind, attempt[i]>>}
SameAttempt(i) ==
  attempt'[i] = attempt[i] /\ base'[i] = base[i] /\ cand'[i] = cand[i] /\ head'[i] = head[i]
SameGit(i) == UNCHANGED git

\* status[i] of the calls that are allowed now.
CallRow(i) ==
  /\ at[i] = "none" /\ Keeps(i) /\ SameGit(i)
  /\ \/ /\ status[i] \in {"none", "prepare-threw"}
        /\ Moves(i, "prepare-item", "guard") /\ SameAttempt(i)
     \/ /\ status[i] \in Deliverable
        /\ Moves(i, "integration-deliver", "guard")
        /\ attempt'[i] = 0 /\ cand'[i] = <<>> /\ head'[i] = head[i]
     \/ /\ status[i] = "stale"
        /\ Moves(i, "integration-refresh", "guard") /\ SameAttempt(i)
     \/ /\ status[i] = "refreshed" \/ (status[i] \in Deliverable /\ cand[i] # <<>>)
        /\ Moves(i, "integration-retry", "guard") /\ SameAttempt(i)

GuardRow(i) ==
  /\ phase[i] = "guard" /\ SameAttempt(i) /\ SameGit(i)
  /\ \/ /\ Writes(i, "guard-intent")
        /\ \/ at[i] \in Calls \ {"integration-deliver"} /\ Moves(i, at[i], "resolve")
           \/ /\ at[i] = "integration-deliver"
              /\ Moves(i, "integration-worktree-create", "intent")
           \/ /\ at[i] \in CleanupActions \union {"cas-publication"}
              /\ Moves(i, at[i], "run")
     \/ /\ Keeps(i) \/ Writes(i, "guard-intent")
        /\ \/ at[i] = "prepare-item" /\ Ends(i, "prepare-threw")
           \/ at[i] \in Calls \ {"prepare-item"} /\ Ends(i, "threw")
           \/ /\ at[i] \in CleanupActions \union {"cas-publication"}
              /\ Moves(i, at[i], "undone")

PrepareRow(i) ==
  /\ at[i] = "prepare-item" /\ SameAttempt(i) /\ UNCHANGED <<target, intTrees>>
  /\ \/ /\ phase[i] = "resolve" /\ Keeps(i) /\ SameGit(i)
        /\ Moves(i, at[i], "run") \/ Ends(i, "prepare-threw")
     \/ /\ phase[i] = "run" /\ Keeps(i)
        /\ \/ /\ branches' = branches \union {i} /\ itemTrees' = itemTrees \union {i}
              /\ Moves(i, at[i], "outcome") \/ Ends(i, "prepare-threw")
           \/ SameGit(i) /\ Ends(i, "prepare-threw")
     \/ /\ phase[i] = "outcome" /\ SameGit(i)
        /\ \/ Writes(i, "created") /\ Ends(i, "prepared")
           \/ Keeps(i) /\ Ends(i, "threw-post-effect")

RetryRow(i) ==
  /\ phase[i] = "resolve" /\ Keeps(i) /\ SameGit(i)
  /\ \/ /\ at[i] = "integration-refresh"
        /\ \/ /\ attempt'[i] = 1 /\ cand'[i] = <<>> /\ head'[i] = head[i]
              /\ Moves(i, "integration-worktree-create", "intent")
           \/ SameAttempt(i) /\ Ends(i, "threw")
     \/ /\ at[i] = "integration-retry" /\ SameAttempt(i)
        /\ \/ cand[i] \in approvals[i] /\ Moves(i, "cas-publication", "intent")
           \/ Ends(i, "threw")

\* The effects of createCandidate.
EffectRow(i) ==
  /\ at[i] \in CandidateActions /\ phase[i] = "run" /\ Keeps(i)
  /\ UNCHANGED <<target, branches, itemTrees>>
  /\ attempt'[i] = attempt[i] /\ base'[i] = base[i]
  /\ at[i] \in {"root-acceptance", "candidate-sha"} => head'[i] = head[i]
  /\ \/ /\ at[i] = "integration-worktree-create" /\ cand'[i] = cand[i]
        /\ <<i, attempt[i]>> \notin intTrees
        /\ intTrees' = intTrees \union {<<i, attempt[i]>>}
        /\ Moves(i, at[i], "outcome") \/ Moves(i, at[i], "undone")
     \/ /\ UNCHANGED intTrees /\ cand'[i] = cand[i]
        /\ Moves(i, at[i], "undone")
     \/ /\ at[i] \notin {"integration-worktree-create", "candidate-sha"} /\ UNCHANGED intTrees
        /\ cand'[i] = cand[i]
        /\ \/ /\ at[i] = "root-acceptance" => head[i] \in accepted'
              /\ Moves(i, at[i], "outcome")
           \/ Moves(i, at[i], "conflicted") \/ Moves(i, at[i], "rejected")
     \/ /\ at[i] = "candidate-sha" /\ UNCHANGED intTrees
        /\ cand'[i] = head[i] /\ Moves(i, at[i], "outcome")

CandidateRow(i) ==
  /\ at[i] \in CandidateActions /\ SameAttempt(i) /\ SameGit(i)
  /\ \/ /\ phase[i] = "intent"
        /\ \/ Writes(i, "intent") /\ Moves(i, at[i], "run")
           \/ Keeps(i) /\ Moves(i, at[i], "undone")
     \/ /\ phase[i] = "outcome" /\ Writes(i, "succeeded")
        /\ \/ at[i] = "integration-worktree-create" /\ Moves(i, "integrate", "intent")
           \/ at[i] = "integrate" /\ Moves(i, "squash-commit", "intent")
           \/ at[i] \in {"integrate", "squash-commit"} /\ Moves(i, "root-acceptance", "intent")
           \/ at[i] = "root-acceptance" /\ Moves(i, "candidate-sha", "intent")
           \/ /\ at[i] = "candidate-sha" /\ attempt[i] = 0
              /\ Moves(i, "cas-publication", "intent")
           \/ at[i] = "candidate-sha" /\ attempt[i] # 0 /\ Ends(i, "refreshed")
     \/ /\ phase[i] = "rejected" /\ Writes(i, "failed") /\ Moves(i, at[i], "report")
     \/ /\ phase[i] \in {"outcome", "rejected"} /\ Keeps(i)
        /\ Ends(i, "integration-effect-recording-uncertain")
     \/ /\ phase[i] \in {"undone", "conflicted"} /\ Writes(i, "failed")
        /\ \/ Moves(i, at[i], "report-conflict") \/ Moves(i, at[i], "report")
           \/ at[i] = "candidate-sha" /\ Ends(i, "failed")
     \/ /\ phase[i] \in {"undone", "conflicted"} /\ Keeps(i) /\ Ends(i, "threw-post-effect")
     \/ /\ phase[i] \in {"report", "report-conflict"}
        /\ \/ Writes(i, "report") /\ Ends(i, "failed")
           \/ Writes(i, "conflict") /\ Ends(i, "conflict")
           \/ Keeps(i) /\ (Moves(i, at[i], "report") \/ Ends(i, "threw"))

PublishRow(i) ==
  /\ at[i] = "cas-publication" /\ SameAttempt(i) /\ UNCHANGED <<branches, itemTrees, intTrees>>
  /\ phase[i] # "run" => UNCHANGED target
  /\ \/ /\ phase[i] = "intent"
        /\ \/ Writes(i, "intent") /\ Moves(i, at[i], "guard")
           \/ Keeps(i) /\ Ends(i, "publication-failed")
     \/ /\ phase[i] = "run" /\ Keeps(i)
        /\ \/ /\ target = base[i] /\ target' = cand[i]
              /\ Moves(i, at[i], "outcome") \/ (LostAcks /\ Moves(i, at[i], "undone"))
           \/ UNCHANGED target /\ Moves(i, at[i], "undone")
     \/ /\ phase[i] = "outcome"
        /\ \/ Writes(i, "succeeded") /\ Moves(i, at[i], "published")
           \/ Keeps(i) /\ Ends(i, "published-but-cas-recording-uncertain")
     \/ /\ phase[i] = "undone"
        /\ Writes(i, "failed") \/ Keeps(i)
        /\ Moves(i, at[i], "reread")
     \/ /\ phase[i] = "reread" /\ Keeps(i)
        /\ \/ Ends(i, "publication-failed") \/ Moves(i, at[i], "unmoved")
           \/ target # base[i] /\ Moves(i, at[i], "stale")
     \/ /\ phase[i] = "stale"
        /\ \/ Writes(i, "stale") /\ Ends(i, "stale")
           \/ Keeps(i) /\ Ends(i, "threw")
     \/ /\ phase[i] = "unmoved"
        /\ Writes(i, "publication-failed") \/ Keeps(i)
        /\ Ends(i, "publication-failed")
     \/ /\ phase[i] = "published"
        /\ \/ Writes(i, "published") /\ Moves(i, "integration-worktree-remove", "intent")
           \/ Keeps(i) /\ Ends(i, "published-but-recording-failed")

CleanupRow(i) ==
  /\ at[i] \in CleanupActions /\ SameAttempt(i) /\ UNCHANGED target
  /\ phase[i] # "run" => SameGit(i)
  /\ \/ /\ phase[i] = "intent"
        /\ \/ Writes(i, "intent") /\ Moves(i, at[i], "guard")
           \/ Keeps(i) /\ Moves(i, at[i], "cleanup-failed")
     \/ /\ phase[i] = "run" /\ Keeps(i)
        /\ \/ Discard(i) /\ (Moves(i, at[i], "outcome") \/ Moves(i, at[i], "undone"))
           \/ SameGit(i) /\ Moves(i, at[i], "undone")
     \/ /\ phase[i] = "outcome"
        /\ \/ /\ Writes(i, "succeeded")
              /\ \/ /\ at[i] = "integration-worktree-remove"
                    /\ Moves(i, "item-worktree-remove", "intent")
                 \/ /\ at[i] = "item-worktree-remove"
                    /\ Moves(i, "branch-delete", "intent")
                 \/ at[i] = "branch-delete" /\ Ends(i, "delivered")
           \/ Keeps(i) /\ Ends(i, "published-but-cleanup-recording-uncertain")
     \/ /\ phase[i] = "undone"
        /\ Writes(i, "failed") \/ Keeps(i)
        /\ Moves(i, at[i], "cleanup-failed")
     \/ /\ phase[i] = "cleanup-failed"
        /\ Writes(i, "report") \/ Keeps(i)
        /\ Ends(i, "published-but-cleanup-failed")

ReviewRow(i) ==
  /\ Keeps(i) /\ SameGit(i) /\ SameAttempt(i)
  /\ at'[i] = at[i] /\ phase'[i] = phase[i] /\ status'[i] = status[i]
  /\ at[i] = "none" /\ approvals[i] \subseteq approvals'[i]

Row(i) == \/ CallRow(i) \/ GuardRow(i) \/ PrepareRow(i) \/ RetryRow(i) \/ EffectRow(i)
          \/ CandidateRow(i) \/ PublishRow(i) \/ CleanupRow(i) \/ ReviewRow(i)

LEMMA MovesLocally ==
  ASSUME TypeOK, NEW i \in Items
  PROVE  /\ \A a, p : Goto(i, a, p) => Moves(i, a, p)
         /\ \A p : Advance(i, p) => Moves(i, at[i], p)
         /\ \A s : Return(i, s) => Ends(i, s)
         /\ \A kind : Recorded(i, kind) => Writes(i, kind)
         /\ Unrecorded \/ Fails \/ UNCHANGED evidence => Keeps(i)
         /\ UNCHANGED data => SameAttempt(i)
BY DEF TypeOK, ControlOK, EvidenceOK, Goto, Advance, Return, Recorded, Unrecorded, Fails, evidence,
       Set, Moves, Ends, Writes, Keeps, data, SameAttempt

LEMMA CallRows ==
  ASSUME TypeOK, NEW i \in Items, Call(i)
  PROVE  CallRow(i)
<1> USE MovesLocally DEF CallRow, SameGit
<1>0. phase[i] = "idle" => at[i] = "none"
  BY DEF TypeOK, ControlOK
<1>1. CASE CallPrepare(i)
  BY <1>0, <1>1 DEF CallPrepare
<1>2. ASSUME NEW s \in Strategies, CallDeliver(i, s)
      PROVE  CallRow(i)
  <2>1. attempt'[i] = 0 /\ cand'[i] = <<>> /\ head'[i] = head[i]
    BY <1>2 DEF CallDeliver, TypeOK, DataOK, Set
  <2> QED
    BY <1>0, <1>2, <2>1 DEF CallDeliver
<1>3. CASE CallRefresh(i)
  BY <1>0, <1>3 DEF CallRefresh
<1>4. CASE CallRetry(i)
  BY <1>0, <1>4 DEF CallRetry, Deliverable
<1> QED
  BY <1>1, <1>2, <1>3, <1>4 DEF Call

LEMMA GuardRows ==
  ASSUME TypeOK, NEW i \in Items, Guard(i)
  PROVE  GuardRow(i)
<1>1. phase[i] = "guard" /\ at[i] \in Guarded /\ UNCHANGED <<git, data>>
  BY DEF Guard, At
<1>2. SameAttempt(i) /\ SameGit(i)
  BY <1>1, MovesLocally DEF SameGit
<1>3. GuardPasses(i) => Writes(i, "guard-intent")
  BY MovesLocally DEF GuardPasses
<1>4. GuardRefuses(i) => Keeps(i) \/ Writes(i, "guard-intent")
  BY MovesLocally DEF GuardRefuses, Writes, Set, TypeOK, EvidenceOK
<1>5. CASE at[i] = "prepare-item"
  <2>1. \/ GuardPasses(i) /\ Advance(i, "resolve")
        \/ GuardRefuses(i) /\ Return(i, "prepare-threw")
    BY <1>5 DEF Guard, Calls
  <2> QED
    BY <1>1, <1>2, <1>3, <1>4, <1>5, <2>1, MovesLocally DEF GuardRow, Calls
<1>6. CASE at[i] = "integration-deliver"
  <2>1. \/ GuardPasses(i) /\ Goto(i, "integration-worktree-create", "intent")
        \/ GuardRefuses(i) /\ Return(i, "threw")
    BY <1>6 DEF Guard, Calls
  <2> QED
    BY <1>1, <1>2, <1>3, <1>4, <1>6, <2>1, MovesLocally DEF GuardRow, Calls
<1>7. CASE at[i] = "integration-refresh"
  <2>1. \/ GuardPasses(i) /\ Advance(i, "resolve")
        \/ GuardRefuses(i) /\ Return(i, "threw")
    BY <1>7 DEF Guard, Calls
  <2> QED
    BY <1>1, <1>2, <1>3, <1>4, <1>7, <2>1, MovesLocally DEF GuardRow, Calls
<1>8. CASE at[i] = "integration-retry"
  <2>1. \/ GuardPasses(i) /\ Advance(i, "resolve")
        \/ GuardRefuses(i) /\ Return(i, "threw")
    BY <1>8 DEF Guard, Calls
  <2> QED
    BY <1>1, <1>2, <1>3, <1>4, <1>8, <2>1, MovesLocally DEF GuardRow, Calls
<1>9. CASE at[i] \in CleanupActions \union {"cas-publication"}
  <2>1. \/ GuardPasses(i) /\ Advance(i, "run")
        \/ GuardRefuses(i) /\ Advance(i, "undone")
    BY <1>9 DEF Guard, Calls, CleanupActions
  <2> QED
    BY <1>1, <1>2, <1>3, <1>4, <1>9, <2>1, MovesLocally DEF GuardRow
<1> QED
  BY <1>1, <1>5, <1>6, <1>7, <1>8, <1>9 DEF Guarded, Calls

LEMMA PrepareRows ==
  ASSUME TypeOK, NEW i \in Items,
         ResolveTarget(i) \/ AddItemWorktree(i) \/ RecordItemWorktree(i)
  PROVE  PrepareRow(i)
<1> USE MovesLocally DEF PrepareRow, SameGit, At
<1>1. CASE ResolveTarget(i)
  BY <1>1 DEF ResolveTarget, SameAttempt, git
<1>2. CASE AddItemWorktree(i)
  <2>1. /\ at[i] = "prepare-item" /\ phase[i] = "run" /\ UNCHANGED <<target, intTrees, data>>
        /\ Keeps(i)
    BY <1>2 DEF AddItemWorktree
  <2>2. \/ /\ branches' = branches \union {i} /\ itemTrees' = itemTrees \union {i}
           /\ Advance(i, "outcome") \/ Return(i, "prepare-threw")
        \/ UNCHANGED <<branches, itemTrees>> /\ Return(i, "prepare-threw")
    BY <1>2 DEF AddItemWorktree
  <2> QED
    BY <2>1, <2>2 DEF git
<1>3. CASE RecordItemWorktree(i)
  BY <1>3 DEF RecordItemWorktree, git
<1> QED
  BY <1>1, <1>2, <1>3

LEMMA RetryRows ==
  ASSUME TypeOK, NEW i \in Items, RefreshBase(i) \/ CheckReview(i)
  PROVE  RetryRow(i)
<1> USE MovesLocally DEF RetryRow, SameGit, At
<1>1. CASE RefreshBase(i)
  <2>1. CASE Goto(i, "integration-worktree-create", "intent") /\ ~Return(i, "threw")
    <3>1. attempt'[i] = 1 /\ cand'[i] = <<>> /\ head'[i] = head[i]
      BY <1>1, <2>1 DEF RefreshBase, NextAttempt, Set, TypeOK, DataOK
    <3>2. Keeps(i) /\ UNCHANGED git
      BY <1>1 DEF RefreshBase
    <3> QED
      BY <1>1, <2>1, <3>1, <3>2 DEF RefreshBase
  <2>2. CASE UNCHANGED <<base, attempt, cand, head>> /\ Return(i, "threw")
    BY <1>1, <2>2 DEF RefreshBase, SameAttempt
  <2>3. CASE Return(i, "threw") /\ Goto(i, "integration-worktree-create", "intent")
    <3>1. FALSE
      BY <2>3 DEF Moves, Ends
    <3> QED
      BY <3>1
  <2> QED
    BY <1>1, <2>1, <2>2, <2>3 DEF RefreshBase
<1>2. CASE CheckReview(i)
  BY <1>2 DEF CheckReview, ApprovedCandidate
<1> QED
  BY <1>1, <1>2

LEMMA EffectRows ==
  ASSUME TypeOK, NEW i \in Items,
         \/ CreateIntegrationWorktree(i) \/ Integrate(i) \/ SquashCommit(i)
         \/ RootAcceptance(i) \/ ReadCandidateSha(i)
  PROVE  EffectRow(i)
<1> USE MovesLocally DEF EffectRow, At, CandidateActions
<1>1. CASE CreateIntegrationWorktree(i)
  <2>1. /\ at[i] = "integration-worktree-create" /\ phase[i] = "run" /\ Keeps(i)
        /\ UNCHANGED <<target, branches, itemTrees, base, attempt, cand>>
    BY <1>1 DEF CreateIntegrationWorktree
  <2>2. \/ /\ <<i, attempt[i]>> \notin intTrees
           /\ intTrees' = intTrees \union {<<i, attempt[i]>>}
           /\ Advance(i, "outcome") \/ Advance(i, "undone")
        \/ UNCHANGED intTrees /\ Advance(i, "undone")
    BY <1>1 DEF CreateIntegrationWorktree, WorktreeAddable
  <2> QED
    BY <2>1, <2>2
<1>2. CASE Integrate(i) \/ SquashCommit(i)
  <2>1. /\ at[i] \in {"integrate", "squash-commit"} /\ phase[i] = "run" /\ Keeps(i)
        /\ UNCHANGED <<git, base, attempt, cand>>
    BY <1>2 DEF Integrate, SquashCommit
  <2>2. Advance(i, "outcome") \/ Advance(i, "undone") \/ Advance(i, "conflicted")
    BY <1>2 DEF Integrate, SquashCommit
  <2> QED
    BY <2>1, <2>2 DEF git
<1>3. CASE RootAcceptance(i)
  <2>1. /\ at[i] = "root-acceptance" /\ phase[i] = "run" /\ Keeps(i)
        /\ UNCHANGED <<git, data>>
    BY <1>3 DEF RootAcceptance, Keeps
  <2>2. \/ head[i] \in accepted' /\ Advance(i, "outcome")
        \/ Advance(i, "undone") \/ Advance(i, "rejected")
    BY <1>3 DEF RootAcceptance
  <2> QED
    BY <2>1, <2>2 DEF git, data
<1>4. CASE ReadCandidateSha(i)
  <2>1. /\ at[i] = "candidate-sha" /\ phase[i] = "run" /\ Keeps(i)
        /\ UNCHANGED <<git, base, attempt, head>>
    BY <1>4 DEF ReadCandidateSha
  <2>2. \/ cand'[i] = head[i] /\ Advance(i, "outcome")
        \/ UNCHANGED cand /\ Advance(i, "undone")
    BY <1>4 DEF ReadCandidateSha, Set, TypeOK, DataOK
  <2> QED
    BY <2>1, <2>2 DEF git
<1> QED
  BY <1>1, <1>2, <1>3, <1>4

LEMMA CandidateRows ==
  ASSUME TypeOK, NEW i \in Items,
         RecordIntent(i) \/ RecordOutcome(i) \/ RecordFailedOutcome(i) \/ RecordFailure(i)
  PROVE  CandidateRow(i)
<1>0. UNCHANGED <<git, data>> /\ at[i] \in CandidateActions
  BY DEF RecordIntent, RecordOutcome, RecordFailedOutcome, RecordFailure, At
<1>a. SameAttempt(i) /\ SameGit(i)
  BY <1>0, MovesLocally DEF SameGit
<1>1. CASE RecordIntent(i)
  BY <1>0, <1>a, <1>1, MovesLocally DEF RecordIntent, At, CandidateRow
<1>2. CASE RecordOutcome(i)
  <2>1. CASE phase[i] = "outcome" /\ OutcomeRecorded(i) /\ AfterSuccess(i)
    <3>1. \/ at[i] = "integration-worktree-create" /\ Goto(i, "integrate", "intent")
          \/ at[i] = "integrate" /\ Goto(i, "squash-commit", "intent")
          \/ at[i] \in {"integrate", "squash-commit"} /\ Goto(i, "root-acceptance", "intent")
          \/ at[i] = "root-acceptance" /\ Goto(i, "candidate-sha", "intent")
          \/ at[i] = "candidate-sha" /\ attempt[i] = 0 /\ Goto(i, "cas-publication", "intent")
          \/ at[i] = "candidate-sha" /\ attempt[i] # 0 /\ Return(i, "refreshed")
      <4>1. CASE at[i] \in {"integration-worktree-create", "squash-commit", "root-acceptance"}
        BY <2>1, <4>1 DEF AfterSuccess
      <4>2. CASE at[i] = "integrate"
        BY <2>1, <4>2 DEF AfterSuccess
      <4>3. CASE at[i] = "candidate-sha"
        BY <2>1, <4>3 DEF AfterSuccess
      <4> QED
        BY <1>0, <4>1, <4>2, <4>3 DEF CandidateActions
    <3> QED
      BY <1>0, <1>a, <2>1, <3>1, MovesLocally DEF OutcomeRecorded, CandidateRow
  <2>2. CASE ~(phase[i] = "outcome" /\ OutcomeRecorded(i) /\ AfterSuccess(i))
    BY <1>0, <1>a, <1>2, <2>2, MovesLocally DEF RecordOutcome, AfterRejection, CandidateRow
  <2> QED
    BY <2>1, <2>2
<1>3. CASE RecordFailedOutcome(i)
  <2>1. \/ Recorded(i, "failed") /\ (Advance(i, "report-conflict") \/ Advance(i, "report"))
        \/ Recorded(i, "failed") /\ at[i] = "candidate-sha" /\ Return(i, "failed")
        \/ Unrecorded /\ Return(i, "threw-post-effect")
    <3>1. CASE phase[i] = "conflicted"
      BY <1>3, <3>1 DEF RecordFailedOutcome
    <3>2. CASE phase[i] = "undone"
      BY <1>3, <3>2 DEF RecordFailedOutcome
    <3> QED
      BY <1>3, <3>1, <3>2 DEF RecordFailedOutcome
  <2> QED
    BY <1>0, <1>a, <1>3, <2>1, MovesLocally DEF RecordFailedOutcome, CandidateRow
<1>4. CASE RecordFailure(i)
  BY <1>0, <1>a, <1>4, MovesLocally DEF RecordFailure, CandidateRow
<1> QED
  BY <1>1, <1>2, <1>3, <1>4

LEMMA PublishRows ==
  ASSUME TypeOK, NEW i \in Items, Publish(i)
  PROVE  PublishRow(i)
<1> USE MovesLocally DEF PublishRow, At
<1>1. CASE RecordPublicationIntent(i)
  BY <1>1 DEF RecordPublicationIntent, git
<1>2. CASE CasPublish(i)
  <2>1. /\ at[i] = "cas-publication" /\ phase[i] = "run" /\ Keeps(i)
        /\ UNCHANGED <<branches, itemTrees, intTrees, data>>
    BY <1>2 DEF CasPublish
  <2>2. \/ /\ target = base[i] /\ target' = cand[i]
           /\ Advance(i, "outcome") \/ (LostAcks /\ Advance(i, "undone"))
        \/ UNCHANGED target /\ Advance(i, "undone")
    BY <1>2 DEF CasPublish, AtExpectedBase
  <2> QED
    BY <2>1, <2>2
<1>3. CASE RecordCasOutcome(i)
  BY <1>3 DEF RecordCasOutcome, git
<1>4. CASE RereadTarget(i)
  BY <1>4 DEF RereadTarget, AfterReread, TargetMoved, git
<1>5. CASE RecordUnpublished(i)
  BY <1>5 DEF RecordUnpublished, git
<1>6. CASE RecordPublished(i)
  BY <1>6 DEF RecordPublished, git
<1> QED
  BY <1>1, <1>2, <1>3, <1>4, <1>5, <1>6 DEF Publish

LEMMA CleanupRows ==
  ASSUME TypeOK, NEW i \in Items, Cleanup(i)
  PROVE  CleanupRow(i)
<1> USE MovesLocally DEF CleanupRow, At, SameGit
<1>1. CASE RecordCleanupIntent(i)
  BY <1>1 DEF RecordCleanupIntent, git
<1>2. CASE CleanupEffect(i)
  <2>1. /\ at[i] \in CleanupActions /\ phase[i] = "run" /\ Keeps(i)
        /\ UNCHANGED <<target, data>>
    BY <1>2 DEF CleanupEffect
  <2>2. \/ Discard(i) /\ (Advance(i, "outcome") \/ Advance(i, "undone"))
        \/ UNCHANGED <<intTrees, itemTrees, branches>> /\ Advance(i, "undone")
    BY <1>2 DEF CleanupEffect
  <2> QED
    BY <2>1, <2>2 DEF git
<1>3. CASE RecordCleanupOutcome(i)
  <2>1. CASE phase[i] = "outcome" /\ Recorded(i, "succeeded") /\ AfterCleanup(i)
    <3>1. \/ at[i] = "integration-worktree-remove" /\ Goto(i, "item-worktree-remove", "intent")
          \/ at[i] = "item-worktree-remove" /\ Goto(i, "branch-delete", "intent")
          \/ at[i] = "branch-delete" /\ Return(i, "delivered")
      BY <1>3, <2>1 DEF RecordCleanupOutcome, AfterCleanup, CleanupActions
    <3> QED
      BY <1>3, <2>1, <3>1 DEF RecordCleanupOutcome, git
  <2>2. CASE ~(phase[i] = "outcome" /\ Recorded(i, "succeeded") /\ AfterCleanup(i))
    BY <1>3, <2>2 DEF RecordCleanupOutcome, git
  <2> QED
    BY <2>1, <2>2
<1>4. CASE RecordCleanupFailed(i)
  BY <1>4 DEF RecordCleanupFailed, git
<1> QED
  BY <1>1, <1>2, <1>3, <1>4 DEF Cleanup

LEMMA Rows ==
  ASSUME TypeOK, NEW i \in Items, Call(i) \/ Run(i) \/ Approve(i)
  PROVE  Row(i)
<1>1. CASE Call(i)
  BY <1>1, CallRows DEF Row
<1>2. CASE Run(i)
  BY <1>2, GuardRows, PrepareRows, RetryRows, EffectRows, CandidateRows, PublishRows, CleanupRows
     DEF Run, Candidate, Row
<1>3. CASE Approve(i)
  <2>1. at[i] = "none" /\ UNCHANGED <<git, control, data, evidence>>
    BY <1>3 DEF Approve, TypeOK, ControlOK
  <2>2. approvals[i] \subseteq approvals'[i]
    BY <1>3 DEF Approve, Set, TypeOK, EnvironmentOK
  <2>3. SameAttempt(i) /\ Keeps(i)
    BY <2>1, MovesLocally
  <2> QED
    BY <2>1, <2>2, <2>3 DEF Row, ReviewRow, SameGit, control
<1> QED
  BY <1>1, <1>2, <1>3

-----------------------------------------------------------------------------
(* What a step of an item does to the target, and what the others see of it *)

LEMMA ContainsAppend ==
  ASSUME NEW S, NEW s \in Seq(S), NEW e \in S, NEW x
  PROVE  Contains(Append(s, e), x) <=> Contains(s, x) \/ x = e
<1>1. /\ Len(Append(s, e)) = Len(s) + 1
      /\ \A k \in 1..Len(s) : Append(s, e)[k] = s[k]
      /\ Append(s, e)[Len(s) + 1] = e
      /\ Len(s) \in Nat
  BY AppendProperties
<1>2. ASSUME NEW k \in 1..Len(Append(s, e)), Append(s, e)[k] = x
      PROVE  Contains(s, x) \/ x = e
  <2>1. k \in 1..Len(s) \/ k = Len(s) + 1
    BY <1>1
  <2> QED
    BY <1>1, <1>2, <2>1 DEF Contains
<1>3. Contains(s, x) => Contains(Append(s, e), x)
  <2>1. \A k \in 1..Len(s) : k \in 1..Len(Append(s, e))
    BY <1>1
  <2> QED
    BY <1>1, <2>1 DEF Contains
<1>4. x = e => Contains(Append(s, e), x)
  <2>1. Len(s) + 1 \in 1..Len(Append(s, e))
    BY <1>1
  <2> QED
    BY <1>1, <2>1 DEF Contains
<1> QED
  BY <1>2, <1>3, <1>4 DEF Contains

LEMMA WithItemContains ==
  ASSUME NEW h \in History, NEW i \in Items, NEW x
  PROVE  Contains(WithItem(h, i), x) <=> Contains(h, x) \/ x = i
<1>1. CASE Contains(h, i)
  BY <1>1 DEF WithItem
<1>2. CASE ~Contains(h, i)
  BY <1>2, ContainsAppend DEF WithItem, History
<1> QED
  BY <1>1, <1>2

\* The target changes for an item only by its own publication, which puts the
\* item's candidate there and nothing of anybody else's.
TargetRow(i) ==
  \/ UNCHANGED target
  \/ /\ at[i] = "cas-publication" /\ phase[i] = "run" /\ target = base[i]
     /\ target' = cand[i] /\ target' = WithItem(target, i)
     /\ \A j \in Items : Contains(target', j) <=> Contains(target, j) \/ j = i

LEMMA TargetRows ==
  ASSUME LineageInv, NEW i \in Items, Call(i) \/ Run(i) \/ Approve(i)
  PROVE  TargetRow(i)
<1>1. target \in History
  BY DEF LineageInv, TypeOK, GitOK
<1>2. CASE CasPublish(i)
  <2>1. target' = target \/ target' = WithItem(target, i)
    BY <1>2, CasAddsItem DEF LineageInv
  <2>2. CASE UNCHANGED target
    BY <2>2 DEF TargetRow
  <2>3. CASE target' # target
    <3>1. target' = WithItem(target, i)
      BY <2>1, <2>3
    <3>2. \A j \in Items : Contains(target', j) <=> Contains(target, j) \/ j = i
      BY <1>1, <3>1, WithItemContains
    <3>3. /\ at[i] = "cas-publication" /\ phase[i] = "run" /\ target = base[i]
          /\ target' = cand[i]
      BY <1>2, <2>3 DEF CasPublish, At, AtExpectedBase
    <3> QED
      BY <3>1, <3>2, <3>3 DEF TargetRow
  <2> QED
    BY <2>2, <2>3
<1>3. CASE ~CasPublish(i)
  BY <1>3, GitSteps DEF git, GitStep, AddItemWorktree, CreateIntegrationWorktree, CleanupEffect,
     TargetRow
<1> QED
  BY <1>2, <1>3

\* Nothing that concerns item j has changed, except that the target may have
\* grown and root acceptance may have passed more.
Untouched(j) ==
  /\ at'[j] = at[j] /\ phase'[j] = phase[j] /\ status'[j] = status[j]
  /\ attempt'[j] = attempt[j] /\ base'[j] = base[j] /\ cand'[j] = cand[j] /\ head'[j] = head[j]
  /\ journal'[j] = journal[j] /\ approvals'[j] = approvals[j]
  /\ j \in branches' <=> j \in branches
  /\ j \in itemTrees' <=> j \in itemTrees
  /\ \A n \in {0, 1} : <<j, n>> \in intTrees' <=> <<j, n>> \in intTrees
  /\ Contains(target', j) <=> Contains(target, j)
  /\ target # base[j] => target' # base[j]
  /\ accepted \subseteq accepted'

LEMMA BaseLeftBehind ==
  ASSUME LineageInv, TypeOK', NEW j \in Items, IsPrefix(target, target'), target # base[j]
  PROVE  target' # base[j]
<1>1. target \in History /\ base[j] \in History /\ IsPrefix(base[j], target)
  BY DEF LineageInv, Lineage, Grounded, TypeOK, GitOK, DataOK
<1> QED
  BY <1>1, PrefixAntisymmetric DEF History

LEMMA ApprovalsGrow ==
  ASSUME TypeOK, NEW i \in Items, Call(i) \/ Run(i) \/ Approve(i)
  PROVE  /\ approvals[i] \subseteq approvals'[i]
         /\ \A j \in Items \ {i} : approvals'[j] = approvals[j]
<1>1. CASE Approve(i)
  BY <1>1 DEF Approve, Set, TypeOK, EnvironmentOK
<1>2. CASE Call(i) \/ Run(i)
  <2>1. UNCHANGED approvals
    BY <1>2 DEF environment, Call, Run, Candidate, Publish, Cleanup, CallPrepare,
       CallDeliver, CallRefresh, CallRetry, Guard, ResolveTarget,
       AddItemWorktree, RecordItemWorktree, RefreshBase, CheckReview,
       RecordIntent, CreateIntegrationWorktree, Integrate, SquashCommit,
       RootAcceptance, ReadCandidateSha, RecordOutcome, RecordFailedOutcome,
       RecordFailure, RecordPublicationIntent, CasPublish, RecordCasOutcome,
       RereadTarget, RecordUnpublished, RecordPublished, RecordCleanupIntent,
       CleanupEffect, RecordCleanupOutcome, RecordCleanupFailed
  <2> QED
    BY <2>1
<1> QED
  BY <1>1, <1>2

LEMMA OthersUntouched ==
  ASSUME LineageInv, TypeOK', NEW i \in Items, Call(i) \/ Run(i) \/ Approve(i),
         NEW j \in Items \ {i}
  PROVE  Untouched(j)
<1>1. TypeOK
  BY DEF LineageInv
<1>2. /\ at'[j] = at[j] /\ phase'[j] = phase[j] /\ status'[j] = status[j]
      /\ base'[j] = base[j] /\ cand'[j] = cand[j] /\ head'[j] = head[j]
  BY <1>1, StepIsLocal
<1>3. attempt'[j] = attempt[j]
  BY <1>1, DataSteps DEF data, DataStep, CallDeliver, ResolveTarget, RefreshBase,
     CreateIntegrationWorktree, Integrate, SquashCommit, ReadCandidateSha, Set, TypeOK, DataOK
<1>4. journal'[j] = journal[j] /\ accepted \subseteq accepted'
  BY <1>1, EvidenceSteps DEF EvidenceStep, Logs, Set, TypeOK, EvidenceOK, ControlOK
<1>5. approvals'[j] = approvals[j]
  BY <1>1, ApprovalsGrow
<1>6. /\ j \in branches' <=> j \in branches
      /\ j \in itemTrees' <=> j \in itemTrees
      /\ \A n \in {0, 1} : <<j, n>> \in intTrees' <=> <<j, n>> \in intTrees
  BY GitSteps DEF git, GitStep, AddItemWorktree, CreateIntegrationWorktree, CasPublish,
     CleanupEffect, Discard
<1>7. Contains(target', j) <=> Contains(target, j)
  BY TargetRows DEF TargetRow
<1>8. IsPrefix(target, target')
  BY TargetGrows DEF Next
<1>9. target # base[j] => target' # base[j]
  BY <1>8, BaseLeftBehind
<1> QED
  BY <1>2, <1>3, <1>4, <1>5, <1>6, <1>7, <1>9 DEF Untouched

LEMMA PushLeavesAllUntouched ==
  ASSUME LineageInv, TypeOK', PushTarget, NEW j \in Items
  PROVE  Untouched(j)
<1>1. target \in History /\ target' = Append(target, Push)
  BY DEF LineageInv, TypeOK, GitOK, PushTarget
<1>2. Contains(target', j) <=> Contains(target, j)
  BY <1>1, ItemsAssumption, ContainsAppend DEF History
<1>3. IsPrefix(target, target')
  BY TargetGrows DEF Next
<1>4. target # base[j] => target' # base[j]
  BY <1>3, BaseLeftBehind
<1> QED
  BY <1>2, <1>4 DEF PushTarget, Untouched, control, data, evidence

LEMMA StutterLeavesAllUntouched ==
  ASSUME UNCHANGED vars, NEW j \in Items
  PROVE  Untouched(j)
BY DEF vars, git, control, data, evidence, environment, Untouched

-----------------------------------------------------------------------------
(* Where a call may be, and what is true of its item there.  None of the    *)
(* promises is inductive by itself: a status is honest because of what held *)
(* when the call was under way, so the invariants follow the call.          *)

Unprepared == {"none", "prepare-threw"}
Idle(i, S) == at[i] = "none" /\ status[i] \in S
InCleanup(i) == at[i] \in CleanupActions \/ Idle(i, Published)
Arrived(i) == \/ InCleanup(i)
              \/ at[i] = "cas-publication" /\ phase[i] \in {"outcome", "published"}
StaleAt(i) == \/ Idle(i, {"stale"}) \/ at[i] = "integration-refresh"
              \/ at[i] = "cas-publication" /\ phase[i] = "stale"

StatusInv(i) ==
  /\ at[i] = "prepare-item" => status[i] \in Unprepared
  /\ at[i] \notin {"none", "prepare-item"} => status[i] \in Deliverable \union {"stale", "refreshed"}
  /\ status[i] \in Unprepared => attempt[i] = 0 /\ \A e \in journal[i] : e[1] = "prepare-item"

ArrivalInv(i) ==
  /\ Arrived(i) => Contains(target, i)
  /\ Contains(target, i) => LostAcks \/ Arrived(i)
  /\ \A n \in {0, 1} : <<"cas-publication", "succeeded", n>> \in journal[i] => Arrived(i)
  /\ StaleAt(i) => target # base[i]

WorkspaceInv(i) ==
  /\ status[i] \notin Unprepared => InCleanup(i) \/ (i \in branches /\ i \in itemTrees)
  /\ at[i] = "prepare-item" /\ phase[i] = "outcome" => i \in branches /\ i \in itemTrees

\* What an item sees of its own step.
Sees(i) ==
  /\ Row(i) /\ TargetRow(i)
  /\ accepted \subseteq accepted' /\ approvals[i] \subseteq approvals'[i]
  /\ attempt[i] \in {0, 1} /\ attempt'[i] \in {0, 1}
  /\ at[i] = "none" <=> phase[i] = "idle"
  /\ Publishing(i) => cand[i] # <<>> /\ Contains(cand[i], i)

LEMMA ItemSees ==
  ASSUME LineageInv, TypeOK', NEW i \in Items, Call(i) \/ Run(i) \/ Approve(i)
  PROVE  Sees(i)
<1>1. TypeOK
  BY DEF LineageInv
<1>2. Row(i) /\ TargetRow(i)
  BY <1>1, Rows, TargetRows
<1>3. accepted \subseteq accepted'
  BY <1>1, EvidenceSteps DEF EvidenceStep, TypeOK
<1>4. approvals[i] \subseteq approvals'[i]
  BY <1>1, ApprovalsGrow
<1>5. /\ attempt[i] \in {0, 1} /\ attempt'[i] \in {0, 1}
      /\ at[i] = "none" <=> phase[i] = "idle"
  BY <1>1 DEF TypeOK, DataOK, ControlOK
<1>6. Publishing(i) => cand[i] # <<>> /\ Contains(cand[i], i)
  <2>1. onto[i] \in History
    BY <1>1 DEF TypeOK, DataOK
  <2>2. Contains(WithItem(onto[i], i), i)
    BY <2>1, WithItemContains
  <2> QED
    BY <2>2 DEF LineageInv, Lineage, PublishesCandidate, CandidateBuilt, Built
<1> QED
  BY <1>2, <1>3, <1>4, <1>5, <1>6 DEF Sees

LEMMA StatusOwn ==
  ASSUME NEW i \in Items, Sees(i), StatusInv(i)
  PROVE  StatusInv(i)'
<1> USE DEF StatusInv, Unprepared, Deliverable, Moves, Ends, Keeps, Writes, SameAttempt,
            CandidateActions, CleanupActions, Calls, Published
<1>1. CASE CallRow(i)
  BY <1>1 DEF CallRow
<1>2. CASE GuardRow(i)
  BY <1>2 DEF GuardRow
<1>3. CASE PrepareRow(i)
  BY <1>3 DEF PrepareRow
<1>4. CASE RetryRow(i)
  BY <1>4 DEF RetryRow
<1>5. CASE EffectRow(i)
  BY <1>5 DEF EffectRow
<1>6. CASE CandidateRow(i)
  BY <1>6 DEF CandidateRow
<1>7. CASE PublishRow(i)
  BY <1>7 DEF PublishRow
<1>8. CASE CleanupRow(i)
  BY <1>8 DEF CleanupRow
<1>9. CASE ReviewRow(i)
  BY <1>9 DEF ReviewRow
<1> QED
  BY <1>1, <1>2, <1>3, <1>4, <1>5, <1>6, <1>7, <1>8, <1>9 DEF Sees, Row

LEMMA ArrivalOwn ==
  ASSUME NEW i \in Items, Sees(i), StatusInv(i), ArrivalInv(i)
  PROVE  ArrivalInv(i)'
<1> USE DEF ArrivalInv, Arrived, StaleAt, InCleanup, Idle, Moves, Ends, Keeps, Writes, SameAttempt,
            SameGit, git, Deliverable, CandidateActions, CleanupActions, Calls, Published
<1>1. CASE CallRow(i)
  BY <1>1 DEF CallRow
<1>2. CASE GuardRow(i)
  BY <1>2 DEF GuardRow
<1>3. CASE PrepareRow(i)
  BY <1>3 DEF PrepareRow
<1>4. CASE RetryRow(i)
  BY <1>4 DEF RetryRow
<1>5. CASE EffectRow(i)
  BY <1>5 DEF EffectRow
<1>6. CASE CandidateRow(i)
  BY <1>6 DEF CandidateRow
<1>7. CASE PublishRow(i)
  <2>1. CASE phase[i] = "run"
    <3>1. target' = cand[i] => Contains(target', i)
      BY <1>7 DEF PublishRow, Sees, Publishing
    <3> QED
      BY <1>7, <2>1, <3>1 DEF PublishRow
  <2>2. CASE phase[i] \in {"outcome", "published"}
    BY <1>7, <2>2 DEF PublishRow
  <2>3. CASE phase[i] \in {"reread", "stale"}
    BY <1>7, <2>3 DEF PublishRow
  <2>4. CASE phase[i] \in {"intent", "undone", "unmoved"}
    BY <1>7, <2>4 DEF PublishRow
  <2> QED
    BY <1>7, <2>1, <2>2, <2>3, <2>4 DEF PublishRow
<1>8. CASE CleanupRow(i)
  BY <1>8 DEF CleanupRow
<1>9. CASE ReviewRow(i)
  BY <1>9 DEF ReviewRow
<1> QED
  BY <1>1, <1>2, <1>3, <1>4, <1>5, <1>6, <1>7, <1>8, <1>9 DEF Sees, Row

LEMMA WorkspaceOwn ==
  ASSUME NEW i \in Items, Sees(i), StatusInv(i), WorkspaceInv(i)
  PROVE  WorkspaceInv(i)'
<1> USE DEF WorkspaceInv, Unprepared, InCleanup, Idle, Moves, Ends, SameGit, git, Deliverable,
            CandidateActions, CleanupActions, Calls, Published
<1>1. CASE CallRow(i)
  BY <1>1 DEF CallRow
<1>2. CASE GuardRow(i)
  BY <1>2 DEF GuardRow, StatusInv
<1>3. CASE PrepareRow(i)
  BY <1>3 DEF PrepareRow, StatusInv
<1>4. CASE RetryRow(i)
  BY <1>4 DEF RetryRow, StatusInv
<1>5. CASE EffectRow(i)
  BY <1>5 DEF EffectRow
<1>6. CASE CandidateRow(i)
  BY <1>6 DEF CandidateRow, StatusInv
<1>7. CASE PublishRow(i)
  BY <1>7 DEF PublishRow, StatusInv
<1>8. CASE CleanupRow(i)
  BY <1>8 DEF CleanupRow, StatusInv
<1>9. CASE ReviewRow(i)
  BY <1>9 DEF ReviewRow
<1> QED
  BY <1>1, <1>2, <1>3, <1>4, <1>5, <1>6, <1>7, <1>8, <1>9 DEF Sees, Row

-----------------------------------------------------------------------------
Gone(i) == <<i, attempt[i]>> \notin intTrees
CleanupInv(i) ==
  /\ \A n \in {0, 1} :
       /\ <<"item-worktree-remove", "succeeded", n>> \in journal[i] => i \notin itemTrees
       /\ <<"branch-delete", "succeeded", n>> \in journal[i] => i \notin branches
  /\ at[i] = "integration-worktree-remove" /\ phase[i] = "outcome" => Gone(i)
  /\ at[i] = "item-worktree-remove" => Gone(i)
  /\ at[i] = "item-worktree-remove" /\ phase[i] = "outcome" => i \notin itemTrees
  /\ at[i] = "branch-delete" => Gone(i) /\ i \notin itemTrees
  /\ at[i] = "branch-delete" /\ phase[i] = "outcome" => i \notin branches
  /\ Idle(i, {"delivered"}) => Gone(i) /\ i \notin branches /\ i \notin itemTrees

Logged(i, a, kind, n) == <<a, kind, n>> \in journal[i]
ExplainedInv(i) ==
  /\ at[i] = "integration-worktree-create" /\ phase[i] = "run" =>
       Logged(i, "integration-worktree-create", "intent", attempt[i])
  /\ at[i] = "integration-worktree-create" /\ phase[i] = "outcome" => ~Gone(i)
  /\ at[i] = "prepare-item" /\ phase[i] # "guard" => Logged(i, "prepare-item", "guard-intent", 0)
  /\ at[i] \in {"cas-publication", "integration-worktree-remove"} /\ phase[i] \in {"guard", "run"} =>
       Logged(i, at[i], "intent", attempt[i])
  /\ at[i] = "cas-publication" /\ phase[i] = "run" =>
       Logged(i, "cas-publication", "guard-intent", attempt[i])
  /\ \A n \in {0, 1} : <<i, n>> \in intTrees => Logged(i, "integration-worktree-create", "intent", n)
  /\ i \in branches \/ i \in itemTrees => Logged(i, "prepare-item", "guard-intent", 0)
  /\ Contains(target, i) => \E n \in {0, 1} : /\ Logged(i, "cas-publication", "intent", n)
                                              /\ Logged(i, "cas-publication", "guard-intent", n)
  /\ \A n \in {0, 1} : Logged(i, "integration-worktree-create", "succeeded", n) /\ <<i, n>> \notin intTrees
        => Logged(i, "integration-worktree-remove", "intent", n)

\* No candidate without acceptance, none refreshed without its own approval.
VettedInv(i) ==
  /\ cand[i] # <<>> => cand[i] \in accepted
  /\ at[i] = "candidate-sha" \/ (at[i] = "root-acceptance" /\ phase[i] = "outcome")
       => head[i] \in accepted
  /\ at[i] = "cas-publication" /\ attempt[i] = 1 => cand[i] \in approvals[i]

LEMMA CleanupOwn ==
  ASSUME NEW i \in Items, Sees(i), StatusInv(i), CleanupInv(i)
  PROVE  CleanupInv(i)'
<1> USE DEF CleanupInv, Gone, Idle, Moves, Ends, Keeps, Writes, SameAttempt, SameGit, git, Deliverable,
            CandidateActions, CleanupActions, Calls
<1>1. CASE CallRow(i)
  BY <1>1 DEF CallRow
<1>2. CASE GuardRow(i)
  BY <1>2 DEF GuardRow
<1>3. CASE PrepareRow(i)
  BY <1>3 DEF PrepareRow, StatusInv
<1>4. CASE RetryRow(i)
  BY <1>4 DEF RetryRow
<1>5. CASE EffectRow(i)
  BY <1>5 DEF EffectRow
<1>6. CASE CandidateRow(i)
  BY <1>6 DEF CandidateRow
<1>7. CASE PublishRow(i)
  BY <1>7 DEF PublishRow
<1>8. CASE CleanupRow(i)
  BY <1>8 DEF CleanupRow, Discard
<1>9. CASE ReviewRow(i)
  BY <1>9 DEF ReviewRow
<1> QED
  BY <1>1, <1>2, <1>3, <1>4, <1>5, <1>6, <1>7, <1>8, <1>9 DEF Sees, Row

LEMMA ExplainedOwn ==
  ASSUME NEW i \in Items, Sees(i), StatusInv(i), ExplainedInv(i)
  PROVE  ExplainedInv(i)'
<1> USE DEF ExplainedInv, Logged, Gone, Moves, Ends, Keeps, Writes, SameAttempt, SameGit, git, Deliverable,
            CandidateActions, CleanupActions, Calls
<1>1. CASE CallRow(i)
  BY <1>1 DEF CallRow, StatusInv
<1>2. CASE GuardRow(i)
  BY <1>2 DEF GuardRow, StatusInv, Unprepared, Sees
<1>3. CASE PrepareRow(i)
  BY <1>3 DEF PrepareRow
<1>4. CASE RetryRow(i)
  BY <1>4 DEF RetryRow
<1>5. CASE EffectRow(i)
  BY <1>5 DEF EffectRow, Sees
<1>6. CASE CandidateRow(i)
  BY <1>6 DEF CandidateRow
<1>7. CASE PublishRow(i)
  BY <1>7 DEF PublishRow, Sees, TargetRow
<1>8. CASE CleanupRow(i)
  BY <1>8 DEF CleanupRow, Discard
<1>9. CASE ReviewRow(i)
  BY <1>9 DEF ReviewRow
<1> QED
  BY <1>1, <1>2, <1>3, <1>4, <1>5, <1>6, <1>7, <1>8, <1>9 DEF Sees, Row

LEMMA VettedOwn ==
  ASSUME NEW i \in Items, Sees(i), VettedInv(i)
  PROVE  VettedInv(i)'
<1> USE DEF VettedInv, Sees, Moves, Ends, Keeps, Writes, SameAttempt, SameGit, git, Deliverable,
            CandidateActions, CleanupActions, Calls
<1>1. CASE CallRow(i)
  BY <1>1 DEF CallRow
<1>2. CASE GuardRow(i)
  BY <1>2 DEF GuardRow
<1>3. CASE PrepareRow(i)
  BY <1>3 DEF PrepareRow
<1>4. CASE RetryRow(i)
  BY <1>4 DEF RetryRow
<1>5. CASE EffectRow(i)
  BY <1>5 DEF EffectRow
<1>6. CASE CandidateRow(i)
  BY <1>6 DEF CandidateRow
<1>7. CASE PublishRow(i)
  BY <1>7 DEF PublishRow
<1>8. CASE CleanupRow(i)
  BY <1>8 DEF CleanupRow
<1>9. CASE ReviewRow(i)
  BY <1>9 DEF ReviewRow
<1> QED
  BY <1>1, <1>2, <1>3, <1>4, <1>5, <1>6, <1>7, <1>8, <1>9 DEF Sees, Row

-----------------------------------------------------------------------------
\* What the journal of an attempt says once the call is at an action.
Building == {"integrate", "squash-commit", "root-acceptance", "candidate-sha"}
SequenceInv(i) ==
  /\ \A n \in {0, 1} :
       /\ Logged(i, "cas-publication", "intent", n) =>
            Logged(i, "integration-worktree-create", "succeeded", n)
       /\ Logged(i, "integration-worktree-remove", "intent", n) => InCleanup(i)
  /\ at[i] \in CandidateActions /\ phase[i] \in {"report", "report-conflict"} =>
       Logged(i, at[i], "failed", attempt[i])
  /\ at[i] \in Building \/ at[i] \in {"cas-publication", "integration-retry"} \/ cand[i] # <<>> =>
       Logged(i, "integration-worktree-create", "succeeded", attempt[i])
  /\ at[i] = "cas-publication" /\ phase[i] = "published" =>
       Logged(i, "cas-publication", "succeeded", attempt[i])

\* Which intents have no outcome.  While a candidate is built or cleaned up only
\* the action under way may be open; otherwise only the worktree creation or the
\* publication of an attempt, never both (SequenceInv).
Open(i, a, n) == /\ Logged(i, a, "intent", n)
                 /\ ~Logged(i, a, "succeeded", n) /\ ~Logged(i, a, "failed", n)
Over == {"threw-post-effect", "integration-effect-recording-uncertain"} \union Published
Alone(i) == \/ at[i] \in Building \/ at[i] \in CleanupActions
            \/ at[i] = "integration-worktree-create" /\ phase[i] = "outcome"
DoubtInv(i) ==
  /\ Alone(i) => \A a \in Actions : Open(i, a, attempt[i]) => a = at[i]
  /\ Idle(i, Over) => \A n \in {0, 1} : \E a \in Actions : \A b \in Actions : Open(i, b, n) => b = a
  /\ ~Idle(i, Over) => \A n \in {0, 1} : ~(Alone(i) /\ n = attempt[i]) =>
       \A a \in Actions : Open(i, a, n) => a \in {"integration-worktree-create", "cas-publication"}

LEMMA SequenceOwn ==
  ASSUME NEW i \in Items, Sees(i), StatusInv(i), SequenceInv(i)
  PROVE  SequenceInv(i)'
<1> USE DEF SequenceInv, Building, Logged, InCleanup, Idle, Published, Sees, Publishing, At, Moves, Ends, Keeps, Writes, SameAttempt, SameGit, git, Deliverable,
            CandidateActions, CleanupActions, Calls
<1>1. CASE CallRow(i)
  BY <1>1 DEF CallRow
<1>2. CASE GuardRow(i)
  BY <1>2 DEF GuardRow
<1>3. CASE PrepareRow(i)
  BY <1>3 DEF PrepareRow
<1>4. CASE RetryRow(i)
  BY <1>4 DEF RetryRow
<1>5. CASE EffectRow(i)
  BY <1>5 DEF EffectRow
<1>6. CASE CandidateRow(i)
  BY <1>6 DEF CandidateRow
<1>7. CASE PublishRow(i)
  BY <1>7 DEF PublishRow
<1>8. CASE CleanupRow(i)
  BY <1>8 DEF CleanupRow
<1>9. CASE ReviewRow(i)
  BY <1>9 DEF ReviewRow
<1> QED
  BY <1>1, <1>2, <1>3, <1>4, <1>5, <1>6, <1>7, <1>8, <1>9 DEF Sees, Row

\* How the open intents of an item change with what it journals.
LEMMA OpenMoves ==
  ASSUME NEW i, NEW a, NEW n
  PROVE  /\ Keeps(i) => (Open(i, a, n)' <=> Open(i, a, n))
         /\ Writes(i, "intent") /\ Open(i, a, n)' => Open(i, a, n) \/ (a = at[i] /\ n = attempt[i])
         /\ (Writes(i, "succeeded") \/ Writes(i, "failed")) /\ Open(i, a, n)' =>
              Open(i, a, n) /\ ~(a = at[i] /\ n = attempt[i])
         /\ \A kind \in {"guard-intent", "created", "report", "conflict", "stale", "published",
                         "publication-failed"} :
              Writes(i, kind) => (Open(i, a, n)' <=> Open(i, a, n))
BY DEF Open, Logged, Keeps, Writes

LEMMA DoubtOwn ==
  ASSUME NEW i \in Items, Sees(i), StatusInv(i), ExplainedInv(i), SequenceInv(i), DoubtInv(i)
  PROVE  DoubtInv(i)'
<1> USE DEF DoubtInv, Alone, Over, Building, Idle, Published, Moves, Ends, SameAttempt,
            CandidateActions, CleanupActions, Calls
<1>a. attempt[i] \in {0, 1} /\ attempt'[i] \in {0, 1}
  BY DEF Sees
<1>b. \A n \in {0, 1} : Open(i, "cas-publication", n) =>
        ~Open(i, "integration-worktree-create", n)
  BY DEF Open, SequenceInv
<1>c. /\ CandidateActions \subseteq Actions /\ CleanupActions \subseteq Actions
      /\ "cas-publication" \in Actions /\ "integration-worktree-create" \in Actions
  BY DEF Actions
<1>d. ASSUME NEW n \in {0, 1} PROVE \E a \in Actions : \A b \in Actions : Open(i, b, n) => b = a
  <2>1. CASE Alone(i) /\ n = attempt[i]
    <3>1. at[i] \in Actions
      BY <1>c, <2>1
    <3> QED
      BY <2>1, <3>1
  <2>2. CASE Idle(i, Over)
    BY <2>2
  <2>3. CASE ~(Alone(i) /\ n = attempt[i]) /\ ~Idle(i, Over)
    <3>1. CASE Open(i, "cas-publication", n)
      BY <1>b, <1>c, <2>3, <3>1
    <3>2. CASE ~Open(i, "cas-publication", n)
      BY <1>c, <2>3, <3>2
    <3> QED
      BY <3>1, <3>2
  <2> QED
    BY <2>1, <2>2, <2>3
<1>1. CASE CallRow(i)
  <2>1. \A b, n : Open(i, b, n)' <=> Open(i, b, n)
    BY <1>1, OpenMoves DEF CallRow
  <2> QED
    BY <1>a, <1>1, <2>1 DEF CallRow, Deliverable
<1>2. CASE GuardRow(i)
  <2>1. \A b, n : Open(i, b, n)' <=> Open(i, b, n)
    BY <1>2, OpenMoves DEF GuardRow
  <2> QED
    BY <1>a, <1>2, <2>1 DEF GuardRow
<1>3. CASE PrepareRow(i)
  <2>1. \A b, n : Open(i, b, n)' <=> Open(i, b, n)
    BY <1>3, OpenMoves DEF PrepareRow, SameGit
  <2> QED
    BY <1>a, <1>d, <1>3, <2>1 DEF PrepareRow
<1>4. CASE RetryRow(i)
  <2>1. \A b, n : Open(i, b, n)' <=> Open(i, b, n)
    BY <1>4, OpenMoves DEF RetryRow
  <2> QED
    BY <1>a, <1>4, <2>1 DEF RetryRow
<1>5. CASE EffectRow(i)
  <2>1. \A b, n : Open(i, b, n)' <=> Open(i, b, n)
    BY <1>5, OpenMoves DEF EffectRow
  <2>2. at'[i] = at[i] /\ phase'[i] \in {"outcome", "undone", "conflicted", "rejected"} /\ attempt'[i] = attempt[i]
    BY <1>5 DEF EffectRow
  <2>3. CASE at[i] # "integration-worktree-create"
    BY <1>a, <1>5, <2>1, <2>2, <2>3 DEF EffectRow
  <2>4. CASE at[i] = "integration-worktree-create" /\ phase'[i] = "outcome"
    <3>1. <<i, attempt[i]>> \notin intTrees
      BY <1>5, <2>4 DEF EffectRow
    <3>2. ~InCleanup(i)
      BY <2>4 DEF InCleanup
    <3>3. ~Logged(i, "integration-worktree-create", "succeeded", attempt[i])
      BY <1>a, <3>1, <3>2 DEF ExplainedInv, SequenceInv
    <3>4. ~Open(i, "cas-publication", attempt[i])
      BY <1>a, <3>3 DEF SequenceInv, Open
    <3>5. \A n \in {0, 1} : \A a \in Actions :
            Open(i, a, n) => a \in {"integration-worktree-create", "cas-publication"}
      BY <1>5, <2>4 DEF EffectRow
    <3> QED
      BY <1>a, <2>1, <2>2, <2>4, <3>4, <3>5
  <2>5. CASE at[i] = "integration-worktree-create" /\ phase'[i] # "outcome"
    BY <1>a, <1>5, <2>1, <2>2, <2>5 DEF EffectRow
  <2> QED
    BY <2>3, <2>4, <2>5
<1>6. CASE CandidateRow(i)
  <2>0. at[i] \in CandidateActions /\ attempt'[i] = attempt[i]
    BY <1>6 DEF CandidateRow
  <2>1. CASE phase[i] = "intent"
    <3>1. \A b, n : Open(i, b, n)' => Open(i, b, n) \/ (b = at[i] /\ n = attempt[i])
      BY <1>6, <2>1, OpenMoves DEF CandidateRow
    <3>2. at'[i] = at[i] /\ phase'[i] \in {"run", "undone"}
      BY <1>6, <2>1 DEF CandidateRow
    <3> QED
      BY <1>a, <2>0, <2>1, <3>1, <3>2
  <2>2. CASE phase[i] = "outcome" /\ Writes(i, "succeeded") /\ ~Ends(i, "integration-effect-recording-uncertain")
    <3>1. \A b, n : Open(i, b, n)' => Open(i, b, n) /\ ~(b = at[i] /\ n = attempt[i])
      BY <2>2, OpenMoves
    <3>2. \A b \in Actions : ~Open(i, b, attempt[i])'
      BY <1>a, <2>0, <2>2, <3>1
    <3>3. ~Idle(i, Over)'
      BY <1>6, <2>2 DEF CandidateRow, StatusInv, Deliverable
    <3>4. \A n \in {0, 1} : n # attempt[i] => \A a \in Actions :
            Open(i, a, n)' => a \in {"integration-worktree-create", "cas-publication"}
      BY <2>0, <3>1
    <3> QED
      BY <1>a, <2>0, <3>2, <3>3, <3>4
  <2>3. CASE /\ phase[i] \in {"outcome", "rejected"} /\ Keeps(i)
             /\ Ends(i, "integration-effect-recording-uncertain")
    <3>1. \A b, n : Open(i, b, n)' <=> Open(i, b, n)
      BY <2>3, OpenMoves
    <3> QED
      BY <1>d, <2>3, <3>1
  <2>4. CASE phase[i] = "rejected" /\ Writes(i, "failed") /\ Moves(i, at[i], "report")
    <3>1. \A b, n : Open(i, b, n)' => Open(i, b, n)
      BY <2>4, OpenMoves
    <3> QED
      BY <1>a, <2>0, <2>4, <3>1
  <2>5. CASE /\ phase[i] \in {"undone", "conflicted"} /\ Writes(i, "failed")
             /\ ~Ends(i, "threw-post-effect")
    <3>1. \A b, n : Open(i, b, n)' => Open(i, b, n) /\ ~(b = at[i] /\ n = attempt[i])
      BY <2>5, OpenMoves
    <3>2. CASE at'[i] = at[i] /\ phase'[i] \in {"report", "report-conflict"}
      BY <1>a, <2>0, <2>5, <3>1, <3>2
    <3>3. CASE at[i] = "candidate-sha" /\ Ends(i, "failed")
      BY <1>a, <2>0, <2>5, <3>1, <3>3
    <3> QED
      BY <1>6, <2>5, <3>2, <3>3 DEF CandidateRow
  <2>6. CASE phase[i] \in {"undone", "conflicted"} /\ Keeps(i) /\ Ends(i, "threw-post-effect")
    <3>1. \A b, n : Open(i, b, n)' <=> Open(i, b, n)
      BY <2>6, OpenMoves
    <3> QED
      BY <1>d, <2>6, <3>1
  <2>7. CASE phase[i] \in {"report", "report-conflict"}
    <3>1. \A b, n : Open(i, b, n)' <=> Open(i, b, n)
      BY <1>6, <2>7, OpenMoves DEF CandidateRow
    <3>2. ~Open(i, at[i], attempt[i])
      BY <2>0, <2>7 DEF SequenceInv, Open
    <3>3. \/ at'[i] = at[i] /\ phase'[i] = "report"
          \/ at'[i] = "none" /\ status'[i] \in {"failed", "conflict", "threw"}
      BY <1>6, <2>7 DEF CandidateRow
    <3>4. \A n \in {0, 1} : \A a \in Actions :
            Open(i, a, n) => a \in {"integration-worktree-create", "cas-publication"}
      BY <2>0, <2>7, <3>2
    <3> QED
      BY <1>a, <2>0, <2>7, <3>1, <3>3, <3>4
  <2> QED
    BY <1>6, <2>1, <2>2, <2>3, <2>4, <2>5, <2>6, <2>7 DEF CandidateRow
<1>7. CASE PublishRow(i)
  <2>0. at[i] = "cas-publication" /\ attempt'[i] = attempt[i] /\ ~Alone(i) /\ ~Idle(i, Over)
    BY <1>7 DEF PublishRow
  <2>1. CASE phase[i] = "intent" /\ Writes(i, "intent") /\ Moves(i, at[i], "guard")
    <3>1. \A b, n : Open(i, b, n)' => Open(i, b, n) \/ (b = at[i] /\ n = attempt[i])
      BY <2>1, OpenMoves
    <3> QED
      BY <1>a, <2>0, <2>1, <3>1
  <2>2. CASE ~(phase[i] = "intent" /\ Writes(i, "intent") /\ Moves(i, at[i], "guard"))
    <3>1. \A b, n : Open(i, b, n)' => Open(i, b, n)
      BY <1>7, <2>2, OpenMoves DEF PublishRow
    <3>2. CASE at'[i] = "cas-publication" \/ at'[i] = "none"
      BY <1>a, <1>d, <2>0, <3>1, <3>2
    <3>3. CASE phase[i] = "published" /\ at'[i] = "integration-worktree-remove"
      <4>1. \A a \in Actions : ~Open(i, a, attempt[i])
        BY <1>a, <2>0, <3>3 DEF SequenceInv, Open
      <4> QED
        BY <1>a, <2>0, <3>1, <3>3, <4>1
    <3> QED
      BY <1>7, <3>2, <3>3 DEF PublishRow
  <2> QED
    BY <2>1, <2>2
<1>8. CASE CleanupRow(i)
  <2>0. at[i] \in CleanupActions /\ attempt'[i] = attempt[i]
    BY <1>8 DEF CleanupRow
  <2>1. CASE phase[i] = "intent"
    <3>1. \A b, n : Open(i, b, n)' => Open(i, b, n) \/ (b = at[i] /\ n = attempt[i])
      BY <1>8, <2>1, OpenMoves DEF CleanupRow
    <3>2. at'[i] = at[i]
      BY <1>8, <2>1 DEF CleanupRow
    <3> QED
      BY <1>a, <2>0, <3>1, <3>2
  <2>2. CASE phase[i] = "outcome" /\ Writes(i, "succeeded") /\ at'[i] \in CleanupActions
    <3>1. \A b, n : Open(i, b, n)' => Open(i, b, n) /\ ~(b = at[i] /\ n = attempt[i])
      BY <2>2, OpenMoves
    <3> QED
      BY <1>a, <2>0, <2>2, <3>1
  <2>3. CASE phase[i] \notin {"intent"} /\ ~(phase[i] = "outcome" /\ at'[i] \in CleanupActions)
    <3>1. \A b, n : Open(i, b, n)' => Open(i, b, n)
      BY <1>8, <2>3, OpenMoves DEF CleanupRow
    <3>2. at'[i] = at[i] \/ Idle(i, Over)'
      BY <1>8, <2>3 DEF CleanupRow
    <3>3. CASE at'[i] = at[i]
      BY <1>a, <2>0, <3>1, <3>3
    <3>4. CASE Idle(i, Over)'
      BY <1>a, <1>d, <2>0, <3>1, <3>4
    <3> QED
      BY <3>2, <3>3, <3>4
  <2>4. phase[i] = "outcome" /\ at'[i] \in CleanupActions => Writes(i, "succeeded")
    BY <1>8 DEF CleanupRow
  <2> QED
    BY <2>1, <2>2, <2>3, <2>4
<1>9. CASE ReviewRow(i)
  <2>1. \A b, n : Open(i, b, n)' <=> Open(i, b, n)
    BY <1>9, OpenMoves DEF ReviewRow
  <2> QED
    BY <1>a, <1>9, <2>1 DEF ReviewRow
<1> QED
  BY <1>1, <1>2, <1>3, <1>4, <1>5, <1>6, <1>7, <1>8, <1>9 DEF Sees, Row

-----------------------------------------------------------------------------
(* The invariants together *)

Honest(i) == /\ StatusInv(i) /\ ArrivalInv(i) /\ WorkspaceInv(i) /\ CleanupInv(i)
             /\ ExplainedInv(i) /\ VettedInv(i) /\ SequenceInv(i) /\ DoubtInv(i)
DeliveryInv == LineageInv /\ \A i \in Items : Honest(i)

LEMMA HonestFrame ==
  ASSUME NEW j \in Items, attempt[j] \in {0, 1}, Untouched(j), Honest(j)
  PROVE  Honest(j)'
<1> USE DEF Untouched, Idle, InCleanup, Logged, Gone
<1>1. StatusInv(j)'
  BY DEF Honest, StatusInv
<1>2. ArrivalInv(j)'
  BY DEF Honest, ArrivalInv, Arrived, StaleAt
<1>3. WorkspaceInv(j)'
  BY DEF Honest, WorkspaceInv
<1>4. CleanupInv(j)'
  BY DEF Honest, CleanupInv
<1>5. ExplainedInv(j)'
  BY DEF Honest, ExplainedInv
<1>6. VettedInv(j)'
  BY DEF Honest, VettedInv
<1>7. SequenceInv(j)'
  BY DEF Honest, SequenceInv
<1>8. DoubtInv(j)'
  BY DEF Honest, DoubtInv, Alone, Open
<1> QED
  BY <1>1, <1>2, <1>3, <1>4, <1>5, <1>6, <1>7, <1>8 DEF Honest

LEMMA HonestOwn ==
  ASSUME NEW i \in Items, Sees(i), Honest(i)
  PROVE  Honest(i)'
<1>1. StatusInv(i)' /\ ArrivalInv(i)' /\ WorkspaceInv(i)' /\ CleanupInv(i)'
  BY StatusOwn, ArrivalOwn, WorkspaceOwn, CleanupOwn DEF Honest
<1>2. ExplainedInv(i)' /\ VettedInv(i)' /\ SequenceInv(i)' /\ DoubtInv(i)'
  BY ExplainedOwn, VettedOwn, SequenceOwn, DoubtOwn DEF Honest
<1> QED
  BY <1>1, <1>2 DEF Honest

LEMMA DeliveryStep == DeliveryInv /\ [Next]_vars => DeliveryInv'
<1> SUFFICES ASSUME DeliveryInv, [Next]_vars PROVE DeliveryInv'
  OBVIOUS
<1>1. LineageInv /\ LineageInv' /\ TypeOK'
  BY LineageStep DEF DeliveryInv, LineageInv
<1>2. \A j \in Items : attempt[j] \in {0, 1} /\ Honest(j)
  BY <1>1 DEF DeliveryInv, LineageInv, TypeOK, DataOK
<1>3. CASE UNCHANGED vars
  BY <1>1, <1>2, <1>3, StutterLeavesAllUntouched, HonestFrame DEF DeliveryInv
<1>4. CASE PushTarget
  BY <1>1, <1>2, <1>4, PushLeavesAllUntouched, HonestFrame DEF DeliveryInv
<1>5. ASSUME NEW i \in Items, Call(i) \/ Run(i) \/ Approve(i)
      PROVE  DeliveryInv'
  <2>1. Honest(i)'
    BY <1>1, <1>2, <1>5, ItemSees, HonestOwn
  <2>2. ASSUME NEW j \in Items \ {i} PROVE Honest(j)'
    BY <1>1, <1>2, <1>5, OthersUntouched, HonestFrame
  <2> QED
    BY <1>1, <2>1, <2>2 DEF DeliveryInv
<1> QED
  BY <1>3, <1>4, <1>5 DEF Next

LEMMA DeliveryInit == Init => DeliveryInv
<1> SUFFICES ASSUME Init PROVE DeliveryInv
  OBVIOUS
<1>1. \A i : ~Contains(target, i)
  BY DEF Init, Contains
<1>2. ASSUME NEW i \in Items PROVE Honest(i)
  <2> USE <1>1 DEF Init, Idle, InCleanup, Logged, Gone, Published, CleanupActions, CandidateActions
  <2>1. StatusInv(i) /\ ArrivalInv(i) /\ WorkspaceInv(i) /\ CleanupInv(i)
    BY DEF StatusInv, ArrivalInv, WorkspaceInv, CleanupInv, Unprepared, Arrived, StaleAt
  <2>2. ExplainedInv(i) /\ VettedInv(i) /\ SequenceInv(i)
    BY DEF ExplainedInv, VettedInv, SequenceInv, Building
  <2>3. DoubtInv(i)
    BY DEF DoubtInv, Alone, Over, Open, Building
  <2> QED
    BY <2>1, <2>2, <2>3 DEF Honest
<1> QED
  BY <1>2, LineageInit DEF DeliveryInv

\* Every item's call, journal, workspace and place in the target agree, for
\* any number of concurrent items and any pattern of faults.
THEOREM DeliveryCorrect == Spec => []DeliveryInv
BY DeliveryInit, DeliveryStep, PTL DEF Spec

-----------------------------------------------------------------------------
(* The promises *)

\* A recorded success is true of the repository and "delivered" is the whole
\* truth, whatever failed on the way and whoever else was delivering.
THEOREM Outcomes == Spec => []OutcomesAreTrue
<1>1. ASSUME DeliveryInv, NEW i \in Items
      PROVE  /\ \A n \in {0, 1} :
                  /\ <<"cas-publication", "succeeded", n>> \in journal[i] => Contains(target, i)
                  /\ <<"item-worktree-remove", "succeeded", n>> \in journal[i] => i \notin itemTrees
                  /\ <<"branch-delete", "succeeded", n>> \in journal[i] => i \notin branches
             /\ status[i] = "delivered" =>
                  /\ Contains(target, i)
                  /\ i \notin branches \union itemTrees
                  /\ <<i, attempt[i]>> \notin intTrees
  <2>1. Honest(i)
    BY <1>1 DEF DeliveryInv
  <2>2. status[i] = "delivered" => Idle(i, {"delivered"})
    BY <2>1 DEF Honest, StatusInv, Idle, Unprepared, Deliverable
  <2>3. Idle(i, {"delivered"}) => Arrived(i)
    BY DEF Idle, Arrived, InCleanup, Published
  <2> QED
    BY <2>1, <2>2, <2>3 DEF Honest, ArrivalInv, CleanupInv, Gone
<1>2. DeliveryInv => OutcomesAreTrue
  BY <1>1 DEF OutcomesAreTrue
<1> QED
  BY <1>2, DeliveryCorrect, PTL

\* An item reported as not published is not in the target unless an answer was
\* lost, and a stale candidate's base is behind the target.
THEOREM Unpublished == Spec => []UnpublishedIsHonest
<1>1. ASSUME DeliveryInv, NEW i \in Items
      PROVE  /\ status[i] \in {"failed", "conflict", "stale", "refreshed",
                               "publication-failed", "threw"} /\ phase[i] = "idle"
                  => \/ ~Contains(target, i)
                     \/ LostAcks /\ \A n \in {0, 1} :
                                      <<"cas-publication", "succeeded", n>> \notin journal[i]
             /\ status[i] = "stale" /\ phase[i] = "idle" => IsStrictPrefix(base[i], target)
  <2>1. Honest(i) /\ Lineage(i)
    BY <1>1 DEF DeliveryInv, LineageInv
  <2>2. phase[i] = "idle" => at[i] = "none"
    BY <1>1 DEF DeliveryInv, LineageInv, TypeOK, ControlOK
  <2>3. status[i] \in {"failed", "conflict", "stale", "refreshed", "publication-failed", "threw"}
          /\ phase[i] = "idle" => ~Arrived(i)
    BY <2>2 DEF Arrived, InCleanup, Idle, Published, CleanupActions
  <2>4. status[i] = "stale" /\ phase[i] = "idle" => target # base[i]
    BY <2>1, <2>2 DEF Honest, ArrivalInv, StaleAt, Idle
  <2>5. IsPrefix(base[i], target)
    BY <2>1 DEF Lineage, Grounded
  <2> QED
    BY <2>1, <2>3, <2>4, <2>5 DEF Honest, ArrivalInv, IsStrictPrefix
<1>2. DeliveryInv => UnpublishedIsHonest
  BY <1>1 DEF UnpublishedIsHonest
<1> QED
  BY <1>2, DeliveryCorrect, PTL

\* A run may stop anywhere: the journal names everything that may be in the
\* repository, and of every attempt at most one effect is in doubt.
THEOREM Recoverable == Spec => []RecoverableFromJournal
<1>1. ASSUME DeliveryInv, NEW i \in Items, NEW n \in {0, 1}
      PROVE  Cardinality(InDoubt(i, n)) <= 1
  <2>1. /\ Honest(i) /\ attempt[i] \in {0, 1}
    BY <1>1 DEF DeliveryInv, LineageInv, TypeOK, DataOK
  <2>2. \E a : InDoubt(i, n) \subseteq {a}
    <3>1. \A a \in Actions : a \in InDoubt(i, n) <=> Open(i, a, n)
      BY DEF InDoubt, Open, Logged
    <3>2. InDoubt(i, n) \subseteq Actions
      BY DEF InDoubt
    <3>3. CASE Alone(i) /\ n = attempt[i]
      BY <2>1, <3>1, <3>2, <3>3 DEF Honest, DoubtInv
    <3>4. CASE Idle(i, Over)
      BY <2>1, <3>1, <3>2, <3>4 DEF Honest, DoubtInv
    <3>5. CASE ~(Alone(i) /\ n = attempt[i]) /\ ~Idle(i, Over)
      <4>1. \A a \in Actions : Open(i, a, n) => a \in {"integration-worktree-create", "cas-publication"}
        BY <2>1, <3>5 DEF Honest, DoubtInv
      <4>2. ~(Open(i, "cas-publication", n) /\ Open(i, "integration-worktree-create", n))
        BY <2>1 DEF Honest, SequenceInv, Open
      <4> QED
        BY <3>1, <3>2, <4>1, <4>2
    <3> QED
      BY <3>3, <3>4, <3>5
  <2>3. PICK a : InDoubt(i, n) \subseteq {a}
    BY <2>2
  <2>4. IsFiniteSet({a}) /\ Cardinality({a}) = 1
    BY FS_Singleton
  <2>5. Cardinality(InDoubt(i, n)) <= Cardinality({a})
    BY <2>3, <2>4, FS_Subset
  <2> QED
    BY <2>4, <2>5
<1>2. ASSUME DeliveryInv, NEW i \in Items
      PROVE  ExplainedInv(i)
  BY <1>2 DEF DeliveryInv, Honest
<1>3. DeliveryInv => JournalExplainsRepository
  BY <1>2 DEF JournalExplainsRepository, ExplainedInv, Logged
<1>4. DeliveryInv => OneEffectInDoubt
  BY <1>1 DEF OneEffectInDoubt
<1> QED
  BY <1>3, <1>4, DeliveryCorrect, PTL DEF RecoverableFromJournal

\* The commit that brought an item into the target is one acceptance passed.
LEMMA AcceptedStep ==
  ASSUME DeliveryInv, TypeOK', PublishedWasAccepted, [Next]_vars
  PROVE  PublishedWasAccepted'
<1>1. target \in History
  BY DEF DeliveryInv, LineageInv, TypeOK, GitOK
<1>2. ASSUME accepted \subseteq accepted', UNCHANGED target
      PROVE  PublishedWasAccepted'
  BY <1>2 DEF PublishedWasAccepted
<1>3. ASSUME accepted \subseteq accepted', NEW e \in Items \union {Push},
             target' = Append(target, e), e \in Items => target' \in accepted'
      PROVE  PublishedWasAccepted'
  <2>1. /\ Len(target') = Len(target) + 1 /\ Len(target) \in Nat
        /\ \A k \in 1..Len(target) : target'[k] = target[k]
        /\ target'[Len(target) + 1] = e /\ target' \in History
    BY <1>1, <1>3, AppendProperties DEF History
  <2>2. ASSUME NEW k \in 1..Len(target'), target'[k] \in Items
        PROVE  SubSeq(target', 1, k) \in accepted'
    <3>1. CASE k \in 1..Len(target)
      <4>1. SubSeq(target', 1, k) = SubSeq(target, 1, k)
        <5>1. /\ SubSeq(target, 1, k) \in History /\ Len(SubSeq(target, 1, k)) = k
              /\ \A m \in 1..k : SubSeq(target, 1, k)[m] = target[m]
          BY <1>1, <3>1 DEF History
        <5>2. /\ SubSeq(target', 1, k) \in History /\ Len(SubSeq(target', 1, k)) = k
              /\ \A m \in 1..k : SubSeq(target', 1, k)[m] = target'[m]
          BY <2>1, <3>1 DEF History
        <5>3. \A m \in 1..k : m \in 1..Len(target)
          BY <2>1, <3>1
        <5> QED
          BY <2>1, <5>1, <5>2, <5>3, SeqEqual DEF History
      <4>2. target[k] \in Items
        BY <2>1, <2>2, <3>1
      <4> QED
        BY <1>3, <3>1, <4>1, <4>2 DEF PublishedWasAccepted
    <3>2. CASE k = Len(target')
      <4>1. SubSeq(target', 1, k) = target'
        BY <2>1, <3>2, SubSeqFull DEF History
      <4> QED
        BY <1>3, <2>1, <2>2, <3>2, <4>1
    <3> QED
      BY <2>1, <3>1, <3>2
  <2> QED
    BY <2>2 DEF PublishedWasAccepted
<1>4. CASE UNCHANGED vars
  BY <1>2, <1>4 DEF vars, git, evidence
<1>5. CASE PushTarget
  BY <1>3, <1>5, ItemsAssumption DEF PushTarget, evidence
<1>6. ASSUME NEW i \in Items, Call(i) \/ Run(i) \/ Approve(i)
      PROVE  PublishedWasAccepted'
  <2>1. Sees(i) /\ VettedInv(i)
    BY <1>6, ItemSees DEF DeliveryInv, Honest
  <2>2. accepted \subseteq accepted'
    BY <2>1 DEF Sees
  <2>3. CASE UNCHANGED target
    BY <1>2, <2>2, <2>3
  <2>4. CASE target' # target
    <3>1. at[i] = "cas-publication" /\ target' = cand[i] /\ target' = WithItem(target, i)
      BY <2>1, <2>4 DEF Sees, TargetRow
    <3>2. cand[i] \in accepted
      BY <2>1, <3>1 DEF Sees, Publishing, VettedInv
    <3>3. target' = Append(target, i)
      BY <2>4, <3>1 DEF WithItem
    <3> QED
      BY <1>3, <2>2, <3>1, <3>2, <3>3
  <2> QED
    BY <2>3, <2>4
<1> QED
  BY <1>4, <1>5, <1>6 DEF Next

LEMMA ReviewedStep ==
  ASSUME DeliveryInv, TypeOK', [Next]_vars, NEW i \in Items,
         attempt[i] = 1, target' # target, Last(target') = i
  PROVE  target' \in approvals[i]
<1>1. target \in History
  BY DEF DeliveryInv, LineageInv, TypeOK, GitOK
<1>2. \A e \in Items \union {Push} : target' = Append(target, e) => e = i
  BY <1>1, AppendProperties DEF Last, History
<1>3. ~UNCHANGED vars
  BY DEF vars, git
<1>4. ~PushTarget
  BY <1>2, ItemsAssumption DEF PushTarget
<1>5. ASSUME NEW j \in Items, Call(j) \/ Run(j) \/ Approve(j)
      PROVE  target' \in approvals[i]
  <2>1. Sees(j) /\ VettedInv(j)
    BY <1>5, ItemSees DEF DeliveryInv, Honest
  <2>2. at[j] = "cas-publication" /\ target' = cand[j] /\ target' = WithItem(target, j)
    BY <2>1 DEF Sees, TargetRow
  <2>3. j = i
    BY <1>2, <2>2 DEF WithItem
  <2> QED
    BY <2>1, <2>2, <2>3 DEF VettedInv
<1> QED
  BY <1>3, <1>4, <1>5 DEF Next

\* Whatever strategy and however often the base moved, what enters the target
\* was accepted as it stands, and after a refresh reviewed anew.
THEOREM Vetted == Spec => TargetIsVetted
<1>1. Init => PublishedWasAccepted
  BY DEF Init, PublishedWasAccepted
<1>2. DeliveryInv /\ DeliveryInv' /\ PublishedWasAccepted /\ [Next]_vars => PublishedWasAccepted'
  BY AcceptedStep DEF DeliveryInv, LineageInv
<1>3. DeliveryInv /\ DeliveryInv' /\ [Next]_vars =>
        [\A i \in Items : attempt[i] = 1 /\ target' # target /\ Last(target') = i
           => target' \in approvals[i]]_target
  BY ReviewedStep DEF DeliveryInv, LineageInv
<1>4. PublishedWasAccepted' => [PublishedWasAccepted']_vars
  OBVIOUS
<1>5. Spec => [][PublishedWasAccepted']_vars
  BY <1>1, <1>2, <1>4, DeliveryCorrect, PTL DEF Spec
<1>6. Spec => RefreshedWasReviewed
  BY <1>3, DeliveryCorrect, PTL DEF Spec, RefreshedWasReviewed
<1> QED
  BY <1>5, <1>6 DEF TargetIsVetted

-----------------------------------------------------------------------------
(* The transaction implements ItemDelivery *)

Told == {i \in Items : status[i] \in Published}
Given(i) == status[i] \notin Unprepared /\ ~(i \in branches /\ i \in itemTrees)
Released == {i \in Items : /\ status[i] \notin {"none", "prepare-threw"}
                           /\ i \notin branches \intersect itemTrees}

\* What the two sets see of a step of item i.
LEMMA TellOrRelease ==
  ASSUME NEW i \in Items, Sees(i), Honest(i)
  PROVE  /\ status[i] \in Published => status'[i] \in Published
         /\ status'[i] \in Published /\ status[i] \notin Published =>
              UNCHANGED git /\ Contains(target, i) /\ status[i] \notin Unprepared
         /\ Given(i) => Given(i)'
         /\ Given(i)' /\ ~Given(i) => UNCHANGED target /\ Contains(target, i)
         /\ target' # target =>
              /\ target' = Append(target, i) /\ ~Contains(target, i)
              /\ status'[i] = status[i] /\ UNCHANGED <<branches, itemTrees>>
<1> USE DEF Given, Unprepared, Published, Moves, Ends, SameGit, git, Deliverable, CandidateActions,
            CleanupActions, Calls
<1>0. StatusInv(i) /\ ArrivalInv(i) /\ WorkspaceInv(i)
  BY DEF Honest
<1>1. CASE CallRow(i)
  BY <1>0, <1>1 DEF CallRow, StatusInv
<1>2. CASE GuardRow(i)
  BY <1>0, <1>2 DEF GuardRow, StatusInv
<1>3. CASE PrepareRow(i)
  BY <1>0, <1>3 DEF PrepareRow, StatusInv, WorkspaceInv
<1>4. CASE RetryRow(i)
  BY <1>0, <1>4 DEF RetryRow, StatusInv
<1>5. CASE EffectRow(i)
  BY <1>0, <1>5 DEF EffectRow, StatusInv
<1>6. CASE CandidateRow(i)
  BY <1>0, <1>6 DEF CandidateRow, StatusInv
<1>7. CASE PublishRow(i)
  <2>1. CASE UNCHANGED target
    BY <1>0, <1>7, <2>1 DEF PublishRow, StatusInv, ArrivalInv, Arrived
  <2>2. CASE target' # target
    <3>1. phase[i] = "run" /\ target' = WithItem(target, i)
      BY <2>2 DEF Sees, TargetRow
    <3>2. status'[i] = status[i] /\ UNCHANGED <<branches, itemTrees>>
      BY <1>7, <3>1 DEF PublishRow
    <3> QED
      BY <2>2, <3>1, <3>2 DEF WithItem
  <2> QED
    BY <2>1, <2>2
<1>8. CASE CleanupRow(i)
  <2>1. Contains(target, i) /\ status[i] \notin Unprepared
    BY <1>0, <1>8 DEF CleanupRow, StatusInv, ArrivalInv, Arrived, InCleanup
  <2> QED
    BY <1>0, <1>8, <2>1 DEF CleanupRow, StatusInv, Discard
<1>9. CASE ReviewRow(i)
  BY <1>9 DEF ReviewRow
<1> QED
  BY <1>1, <1>2, <1>3, <1>4, <1>5, <1>6, <1>7, <1>8, <1>9 DEF Sees, Row

\* Every step of the transaction is a step of ItemDelivery or leaves the log
\* and the two sets alone.
LEMMA DeliveryRefines ==
  ASSUME DeliveryInv, TypeOK', [Next]_vars
  PROVE  \/ UNCHANGED <<target, Told, Released>>
         \/ target' = Append(target, Push) /\ UNCHANGED <<Told, Released>>
         \/ \E i \in Items :
              \/ ~Contains(target, i) /\ target' = Append(target, i) /\ UNCHANGED <<Told, Released>>
              \/ /\ Contains(target, i) /\ Told' = Told \union {i}
                 /\ UNCHANGED <<target, Released>>
              \/ /\ Contains(target, i) /\ Released' = Released \union {i}
                 /\ UNCHANGED <<target, Told>>
<1>1. CASE UNCHANGED vars
  BY <1>1 DEF vars, git, control, Told, Released
<1>2. CASE PushTarget
  BY <1>2 DEF PushTarget, control, Told, Released
<1>3. ASSUME NEW i \in Items, Call(i) \/ Run(i) \/ Approve(i)
      PROVE  \/ UNCHANGED <<target, Told, Released>>
             \/ ~Contains(target, i) /\ target' = Append(target, i) /\ UNCHANGED <<Told, Released>>
             \/ /\ Contains(target, i) /\ Told' = Told \union {i}
                /\ UNCHANGED <<target, Released>>
             \/ /\ Contains(target, i) /\ Released' = Released \union {i}
                /\ UNCHANGED <<target, Told>>
  <2>0. Sees(i) /\ Honest(i)
    BY <1>3, ItemSees DEF DeliveryInv
  <2>1. \A j \in Items \ {i} : Untouched(j)
    BY <1>3, OthersUntouched DEF DeliveryInv
  <2>2. \A j \in Items \ {i} : /\ status'[j] \in Published <=> status[j] \in Published
                               /\ Given(j)' <=> Given(j)
    BY <2>1 DEF Untouched, Given
  <2>3. CASE status'[i] \in Published /\ status[i] \notin Published
    <3>1. UNCHANGED git /\ Contains(target, i) /\ status[i] \notin Unprepared
      BY <2>0, <2>3, TellOrRelease
    <3>2. Given(i)' <=> Given(i)
      BY <2>3, <3>1 DEF Given, git, Published, Unprepared
    <3>3. Told' = Told \union {i}
      BY <2>2, <2>3 DEF Told
    <3>4. Released' = Released
      BY <2>2, <3>2 DEF Released, Given, Unprepared
    <3> QED
      BY <3>1, <3>3, <3>4 DEF git
  <2>4. CASE ~(status'[i] \in Published /\ status[i] \notin Published)
    <3>1. status'[i] \in Published <=> status[i] \in Published
      BY <2>0, <2>4, TellOrRelease
    <3>2. Told' = Told
      BY <2>2, <3>1 DEF Told
    <3>3. CASE Given(i)' /\ ~Given(i)
      <4>1. UNCHANGED target /\ Contains(target, i)
        BY <2>0, <3>3, TellOrRelease
      <4>2. Released' = Released \union {i}
        BY <2>2, <3>3 DEF Released, Given, Unprepared
      <4> QED
        BY <3>2, <4>1, <4>2
    <3>4. CASE ~(Given(i)' /\ ~Given(i))
      <4>1. Given(i)' <=> Given(i)
        BY <2>0, <3>4, TellOrRelease
      <4>2. Released' = Released
        BY <2>2, <4>1 DEF Released, Given, Unprepared
      <4>3. target' # target => target' = Append(target, i) /\ ~Contains(target, i)
        BY <2>0, TellOrRelease
      <4> QED
        BY <3>2, <4>2, <4>3
    <3> QED
      BY <3>3, <3>4
  <2> QED
    BY <2>3, <2>4
<1> QED
  BY <1>1, <1>2, <1>3 DEF Next

\* The abstract specification holds of every behaviour of the transaction.
THEOREM Refinement == Spec => ImplementsDelivery
<1>1. \A i : Delivery!Contains(target, i) <=> Contains(target, i)
  BY DEF Contains, Delivery!Contains
<1>2. Init => Delivery!Init
  BY DEF Init, Delivery!Init, Published
<1>3. DeliveryInv /\ DeliveryInv' /\ [Next]_vars => [Delivery!Next]_Delivery!vars
  <2> SUFFICES ASSUME DeliveryInv, DeliveryInv', [Next]_vars
               PROVE  Delivery!Next \/ UNCHANGED Delivery!vars
    OBVIOUS
  <2>1. TypeOK'
    BY DEF DeliveryInv, LineageInv
  <2>2. CASE UNCHANGED <<target, Told, Released>>
    BY <2>2 DEF Delivery!vars, Told, Released
  <2>3. CASE target' = Append(target, Push) /\ UNCHANGED <<Told, Released>>
    BY <2>3 DEF Delivery!Next, Delivery!PushByOthers, Told, Released
  <2>4. ASSUME NEW i \in Items,
               \/ ~Contains(target, i) /\ target' = Append(target, i) /\ UNCHANGED <<Told, Released>>
               \/ /\ Contains(target, i) /\ Told' = Told \union {i}
                  /\ UNCHANGED <<target, Released>>
               \/ /\ Contains(target, i) /\ Released' = Released \union {i}
                  /\ UNCHANGED <<target, Told>>
        PROVE  Delivery!Next
    <3>1. Delivery!Publish(i) \/ Delivery!Tell(i) \/ Delivery!Release(i)
      BY <1>1, <2>4 DEF Delivery!Publish, Delivery!Tell, Delivery!Release, Told, Released
    <3> QED
      BY <3>1 DEF Delivery!Next
  <2> QED
    BY <2>1, <2>2, <2>3, <2>4, DeliveryRefines
<1> QED
  BY <1>2, <1>3, DeliveryCorrect, PTL DEF Spec, ImplementsDelivery, Delivery!Spec

=============================================================================
