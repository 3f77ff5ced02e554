------------------------------ MODULE AfkDelivery ------------------------------
(***************************************************************************)
(* The composition root: run of                                            *)
(* blueprints/babysitter-dv/src/afk-delivery-blueprint.js, for runs that   *)
(* go on at the same time with one shared worktree transaction.  A run     *)
(* checks its input, opens its journal, binds the transaction to it, and   *)
(* takes its guarded steps in order; two of the steps act on the           *)
(* repository inside the transaction, which journals wherever it was bound *)
(* last.  Appending to a journal is one step here (EvidenceJournal has the *)
(* file operations); the review gate is its outcome (ReviewRemediation)    *)
(* and the transaction its effects (GitWorktreeTransaction).               *)
(***************************************************************************)
EXTENDS Integers, Sequences, SequencesExt, FiniteSets

CONSTANTS
  Runs,       \* runs of the blueprint, each for a work item of its own
  MaxFaults   \* bound on failures of journals, guards, ports and Git

ASSUME RunsAssumption == "none" \notin Runs
ASSUME FaultsAssumption == MaxFaults \in Nat

VARIABLES
  step,       \* 0 before the journal is open, else the index of the step
  phase,      \* how far the step is
  effect,     \* the effect of the transaction that is under way
  outcome,    \* what the review and delivery step answered
  runStatus,  \* what run returned, "none" while it runs
  bound,      \* the run whose journal and guard the transaction uses
  journals,   \* <<run, action, kind>> entries in each run's journal
  worktrees,  \* runs whose item worktree exists
  landed,  \* runs whose candidate reached the target
  refused,    \* <<run, action>> whose answer by Doc-Vader was no
  faults,
  \* observation
  happened    \* <<run, effect>> that happened

control == <<step, phase, effect, outcome, runStatus>>
repository == <<worktrees, landed, happened>>
runVars == <<control, bound, journals, repository, refused, faults>>

Steps == <<"dv-ready", "dv-show", "dv-validate", "evidence-journal-created",
           "prepare-item", "item-worktree-prepared", "integration-deliver",
           "delivery-outcome">>
Effects == {"item-worktree-create", "cas-publication", "cleanup"}
Phases == {"intent", "act", "effect-intent", "effect", "effect-outcome", "after",
           "over"}
DocVader == {"dv-ready", "dv-show", "dv-validate"}
Undelivered == {"paused", "failed"}
Uncertain == {"paused-after-side-effect", "published-uncertain"}
Outcomes == Undelivered \union Uncertain
              \union {"delivered", "published-but-cleanup-failed"}

With(f, r, v) == [f EXCEPT ![r] = v]
Now(r) == Steps[step[r]]

Fault == faults < MaxFaults /\ faults' = faults + 1

Goto(r, p) == /\ phase' = With(phase, r, p)
              /\ UNCHANGED <<step, effect, outcome, runStatus>>

\* The catch block of run, and its return statements.
Ends(r, s) == /\ phase' = With(phase, r, "over")
                /\ runStatus' = With(runStatus, r, s)
                /\ UNCHANGED <<step, effect, outcome>>
Pause(r) == Ends(r, "paused")
PauseAfterEffect(r) == Ends(r, "paused-after-side-effect")

Recorded(r, j, action, kind) ==
  /\ journals' = With(journals, j, journals[j] \union {<<r, action, kind>>})
  /\ UNCHANGED faults
Unrecorded == Fault /\ UNCHANGED journals

-----------------------------------------------------------------------------
\* A malformed or incompatible override, a supplied manifest that does not
\* verify and a journal that cannot be opened all end the run.
OpenRun(r) ==
  /\ step[r] = 0 /\ phase[r] = "intent"
  /\ \/ /\ bound' = r
        /\ step' = With(step, r, 1)
        /\ UNCHANGED <<phase, effect, outcome, runStatus>>
     \/ Pause(r) /\ UNCHANGED bound
  /\ UNCHANGED <<journals, repository, refused, faults>>

\* guarded: the intent goes to the run's own journal and is verified there.
AppendIntent(r) ==
  /\ step[r] > 0 /\ phase[r] = "intent"
  /\ \/ Recorded(r, r, Now(r), "intent") /\ Goto(r, "act")
     \/ Unrecorded /\ Pause(r)
     \/ /\ Fault                     \* the manifest does not verify
        /\ journals' = With(journals, r, journals[r] \union {<<r, Now(r), "intent">>})
        /\ Pause(r)
  /\ UNCHANGED <<bound, repository, refused>>

\* Doc-Vader commands and state transitions.  The answer is judged after it was
\* recorded: see AppendResult.
CallPort(r) ==
  /\ phase[r] = "act" /\ Now(r) \notin {"prepare-item", "integration-deliver"}
  /\ \/ Goto(r, "after") /\ UNCHANGED <<refused, faults>>
     \/ /\ Now(r) \in DocVader  \* not ready, not valid, or another item
        /\ refused' = refused \union {<<r, Now(r)>>}
        /\ Goto(r, "after") /\ UNCHANGED faults
     \/ Fault /\ Pause(r) /\ UNCHANGED refused
  /\ UNCHANGED <<bound, journals, repository>>

\* prepareItem and the delivery run inside the transaction; the review gate may
\* also end without delivering.
EnterTransaction(r, e) ==
  /\ phase' = With(phase, r, "effect-intent")
  /\ effect' = With(effect, r, e)
  /\ UNCHANGED <<step, outcome, runStatus>>

Review(r, o) ==
  /\ phase' = With(phase, r, "after")
  /\ outcome' = With(outcome, r, o)
  /\ UNCHANGED <<step, effect, runStatus>>

Prepare(r) ==
  /\ phase[r] = "act" /\ Now(r) = "prepare-item"
  /\ EnterTransaction(r, "item-worktree-create")
  /\ UNCHANGED <<bound, journals, repository, refused, faults>>

ReviewDelivery(r) ==
  /\ phase[r] = "act" /\ Now(r) = "integration-deliver"
  /\ \/ EnterTransaction(r, "cas-publication") /\ UNCHANGED faults
     \/ /\ \E o \in Undelivered \union {"paused-after-side-effect"} : Review(r, o)
        /\ UNCHANGED faults
     \/ Fault /\ Pause(r)
  /\ UNCHANGED <<bound, journals, repository, refused>>

-----------------------------------------------------------------------------
(* The transaction: record and guardBefore use activeJournal and           *)
(* activeGuard, which withEvidenceGuard replaced for everybody.            *)

ActiveJournal(r) == bound
NoJournal(r, e) == UNCHANGED <<journals, faults>>                 \* mutant
JournalIntent(r, e) == Recorded(r, ActiveJournal(r), e, "intent")

\* What the transaction's caller sees when the intent or the effect fails.
AnyFailureIsFailed(r) ==                                            \* mutant
  IF effect[r] = "item-worktree-create" THEN Pause(r) ELSE Review(r, "failed")
EffectFails(r) ==
  CASE effect[r] = "item-worktree-create" -> Pause(r)
    [] effect[r] = "cas-publication" -> Review(r, "failed")
    [] OTHER -> Review(r, "published-but-cleanup-failed")

EffectIntent(r) ==
  /\ phase[r] = "effect-intent"
  /\ \/ JournalIntent(r, effect[r]) /\ Goto(r, "effect")
     \/ Unrecorded /\ EffectFails(r)
  /\ UNCHANGED <<bound, repository, refused>>

Effect(r) ==
  /\ phase[r] = "effect"
  /\ \/ /\ happened' = happened \union {<<r, effect[r]>>}
        /\ worktrees' = CASE effect[r] = "item-worktree-create" -> worktrees \union {r}
                          [] effect[r] = "cleanup" -> worktrees \ {r}
                          [] OTHER -> worktrees
        /\ landed' = IF effect[r] = "cas-publication" THEN landed \union {r}
                                                         ELSE landed
        /\ Goto(r, "effect-outcome")
        /\ UNCHANGED faults
     \/ /\ Fault /\ EffectFails(r)
        /\ UNCHANGED repository
  /\ UNCHANGED <<bound, journals, refused>>

EffectOutcome(r) ==
  /\ phase[r] = "effect-outcome"
  /\ \/ /\ Recorded(r, ActiveJournal(r), effect[r], "after")
        /\ CASE effect[r] = "item-worktree-create" -> Goto(r, "after")
             [] effect[r] = "cas-publication" -> EnterTransaction(r, "cleanup")
             [] OTHER -> Review(r, "delivered")
     \/ /\ Unrecorded
        /\ IF effect[r] = "item-worktree-create" THEN PauseAfterEffect(r)
           ELSE Review(r, "published-uncertain")
  /\ UNCHANGED <<bound, repository, refused>>

-----------------------------------------------------------------------------
\* The result is appended and then judged: a refusal pauses; the last step
\* returns the outcome.
Accepted(r) == <<r, Now(r)>> \notin refused

LastStep(r) == step[r] = Len(Steps)

NextStep(r) ==
  /\ step' = With(step, r, step[r] + 1)
  /\ phase' = With(phase, r, "intent")
  /\ UNCHANGED <<effect, outcome, runStatus>>

AppendResult(r) ==
  /\ phase[r] = "after"
  /\ \/ /\ Recorded(r, r, Now(r), "after")
        /\ \/ /\ Accepted(r) /\ ~LastStep(r)
              /\ NextStep(r)
           \/ /\ Accepted(r) /\ LastStep(r)
              /\ Ends(r, outcome[r])
           \/ /\ ~Accepted(r)
              /\ Pause(r)
     \/ Unrecorded /\ PauseAfterEffect(r)
  /\ UNCHANGED <<bound, repository, refused>>

-----------------------------------------------------------------------------
RunInit ==
  /\ step = [r \in Runs |-> 0]
  /\ phase = [r \in Runs |-> "intent"]
  /\ effect = [r \in Runs |-> "cleanup"]
  /\ outcome = [r \in Runs |-> "paused"]
  /\ runStatus = [r \in Runs |-> "none"]
  /\ bound = "none"
  /\ journals = [r \in Runs |-> {}]
  /\ worktrees = {} /\ landed = {} /\ happened = {}
  /\ refused = {} /\ faults = 0

Go(r) == \/ OpenRun(r) \/ AppendIntent(r) \/ CallPort(r) \/ Prepare(r)
         \/ ReviewDelivery(r) \/ EffectIntent(r) \/ Effect(r)
         \/ EffectOutcome(r) \/ AppendResult(r)

RunNext == \E r \in Runs : Go(r)

-----------------------------------------------------------------------------
(* Properties *)

Actions == {Steps[k] : k \in 1..Len(Steps)} \union Effects

\* Every variable stays in its type, and the transaction is bound once a run
\* has begun its steps.
RunsOK ==
  /\ step \in [Runs -> 0..Len(Steps)] /\ phase \in [Runs -> Phases]
  /\ effect \in [Runs -> Effects] /\ outcome \in [Runs -> Outcomes]
  /\ runStatus \in [Runs -> Outcomes \union {"none"}]
  /\ \A r \in Runs : step[r] > 0 => bound \in Runs
  /\ journals \in [Runs -> SUBSET (Runs \X Actions \X {"intent", "after"})]
  /\ worktrees \subseteq Runs /\ landed \subseteq Runs
  /\ happened \subseteq Runs \X Effects /\ refused \subseteq Runs \X DocVader
  /\ faults \in 0..MaxFaults

\* No worktree is made and nothing else happens in the repository for a run
\* unless Doc-Vader called its item ready, shown and valid and the run said so
\* in its own journal (lines 70-75).
FailsClosed ==
  \A e \in happened :
    /\ \A a \in DocVader : <<e[1], a>> \notin refused
    /\ \A a \in DocVader \union {"evidence-journal-created"} :
          <<e[1], a, "after">> \in journals[e[1]]

\* Also when runs share the transaction, every effect on the repository has its
\* intent in some run's journal before it happens (line 57).
EffectsAreJournaled ==
  \A e \in happened : \E j \in Runs : <<e[1], e[2], "intent">> \in journals[j]

\* Every run is well typed, and no effect is without its validation and its
\* intent.
EffectsAreCovered == RunsOK /\ FailsClosed /\ EffectsAreJournaled

\* A run that says "delivered" has published and given up its worktree, and one
\* that says "failed" has published nothing (lines 77-91).
StatusIsHonest ==
  \A r \in Runs : /\ runStatus[r] = "delivered" => r \in landed \ worktrees
                  /\ runStatus[r] = "failed" => r \notin landed
=============================================================================
