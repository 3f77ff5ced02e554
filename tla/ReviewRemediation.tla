--------------------------- MODULE ReviewRemediation ---------------------------
(***************************************************************************)
(* The review gate of                                                      *)
(* blueprints/babysitter-dv/src/review-remediation-coordinator.js: review  *)
(* asks an independent reviewer, remediates and re-checks within a bounded *)
(* number of cycles, closes the item in its workspace, delivers it, and    *)
(* recovers once from a stale candidate.  One item; the calls on it follow *)
(* each other, and the finding fingerprints outlive a call.  Every await   *)
(* on a port is one step; the synchronous code after it belongs to it.     *)
(*                                                                         *)
(* The item's content is a revision number; a candidate is the revision on *)
(* the item branch together with the version of the target below it.       *)
(***************************************************************************)
EXTENDS Integers, Sequences, FiniteSets

CONSTANTS
  Contexts,       \* contexts that reviewers work in
  Implementer,    \* the implementer's own context
  Findings,       \* canonical fingerprints of findings
  Cycles,         \* remediation cycles a caller may configure
  Acceptances,    \* whether acceptance.execute exists (FALSE: legacy callers)
  LostAcks,       \* TRUE: a port may throw although its effect happened
  MaxCalls, MaxReworks, MaxMoves  \* bounds on calls, rework between calls,
                                  \* and commits others put on the target

ASSUME ContextsAssumption == Implementer \notin Contexts
ASSUME CyclesAssumption == Cycles \subseteq Nat
ASSUME SwitchesAssumption == Acceptances \subseteq BOOLEAN /\ LostAcks \in BOOLEAN
ASSUME BoundsAssumption == {MaxCalls, MaxReworks, MaxMoves} \subseteq Nat

VARIABLES
  \* the call in progress
  pc,            \* the port call it awaits, "idle" between calls
  status,        \* what the last call returned
  cycles,        \* remediation cycles of this call
  completed,     \* completedCycles
  reviewers,     \* reviewerContexts of this call
  review,        \* the last review result
  \* the coordinator
  acceptance,    \* acceptance.execute exists
  fingerprints,  \* findingFingerprintsByItem, kept between calls
  \* the item, the target branch and the evidence
  rev,           \* revision in the workspace
  target,        \* version of the target branch
  closed,        \* Doc-Vader closed the item in its workspace
  branch,        \* what the closure commit put on the item branch
  refreshed,     \* the candidate refreshStale built
  published,     \* what reached the target
  log,           \* review decisions in the journal
  calls, reworks,
  \* observation
  authorized,    \* revisions whose changed paths the policy authorized
  checked,       \* revisions and candidates that passed affected acceptance
  requested,     \* findings handed to the implementer, in order
  doubt          \* an effect happened whose record is missing

call == <<pc, status, cycles, completed, reviewers, review>>
item == <<rev, target, closed, branch, refreshed, published>>
seen == <<authorized, checked, requested, doubt>>
gateVars == <<call, acceptance, fingerprints, item, log, calls, reworks, seen>>

Nothing == [rev |-> 0, base |-> 0, closed |-> FALSE]
Candidate(n) == [rev |-> branch.rev, base |-> n, closed |-> branch.closed]
Verdicts == {"approved", "changes-requested", "blocked"}
NoReview == [verdict |-> "blocked", context |-> Implementer, findings |-> {},
             twice |-> FALSE]
\* twice: the reviewer listed one finding two times.
Reviews ==
  [verdict : Verdicts \ {"changes-requested"}, context : Contexts,
   findings : {{}}, twice : {FALSE}]
  \union [verdict : {"changes-requested"}, context : Contexts,
          findings : SUBSET Findings \ {{}}, twice : BOOLEAN]

Ports == {"initial", "request", "journal", "remediate", "post-remediation",
          "acceptance", "close", "commit", "deliver", "refresh",
          "refreshed-acceptance", "refreshed-request", "refreshed-journal",
          "retry"}
\* What deliver and retryStale answer when they publish nothing.
Unpublished == {"failed", "conflict", "publication-failed"}
Statuses == {"none", "paused", "paused-after-side-effect", "threw",
             "changes-requested", "stale", "delivered",
             "published-uncertain"} \union Unpublished
\* A caller may ask again after these.
Open == {"none", "paused", "threw", "changes-requested", "stale"} \union Unpublished

-----------------------------------------------------------------------------
Await(p) == pc' = p /\ UNCHANGED status
Return(s) == pc' = "idle" /\ status' = s

\* The catch blocks: an error marked postEffectRecord is reported as such.
AlwaysPaused(marked) == Return("paused")                          \* mutant
PostEffectPaused(marked) ==
  Return(IF marked THEN "paused-after-side-effect" ELSE "paused")

\* A port throws: before its effect, after it with the mark that the guarded
\* wrapper sets when the after-record fails, or (a lost answer) after it.
Throws(effect, none) ==
  \/ none /\ PostEffectPaused(FALSE) /\ UNCHANGED doubt
  \/ effect /\ PostEffectPaused(TRUE) /\ doubt' = TRUE
  \/ LostAcks /\ effect /\ PostEffectPaused(FALSE) /\ doubt' = TRUE

-----------------------------------------------------------------------------
Call(c) ==
  /\ pc = "idle" /\ status \in Open /\ calls < MaxCalls
  /\ Await("initial")
  /\ calls' = calls + 1
  /\ cycles' = c
  /\ completed' = 0
  /\ reviewers' = {}
  /\ UNCHANGED <<review, fingerprints, item, log, reworks, seen>>

\* An invalid cycle configuration, incomplete guards or a missing journal.
RefuseCall ==
  /\ pc = "idle" /\ status \in Open /\ calls < MaxCalls
  /\ calls' = calls + 1
  /\ Return("paused")
  /\ UNCHANGED <<cycles, completed, reviewers, review, fingerprints, item, log,
                 reworks, seen>>

\* authorizeChangedPaths, on entry and after every remediation.
AuthorizeChangedPaths ==
  /\ pc \in {"initial", "post-remediation"}
  /\ \/ /\ authorized' = authorized \union {rev}
        /\ Await(IF pc = "initial" THEN "request" ELSE "acceptance")
     \/ Return("paused") /\ UNCHANGED authorized
  /\ UNCHANGED <<cycles, completed, reviewers, review, fingerprints, item, log,
                 calls, reworks, checked, requested, doubt>>

\* A later reviewer of a call must work in a context of its own.
FreshContext(c) == c \notin reviewers

RequestReview ==
  /\ pc = "request"
  /\ \/ /\ \E r \in Reviews :
             /\ completed > 0 => FreshContext(r.context)
             /\ review' = r
             /\ reviewers' = reviewers \union {r.context}
        /\ Await("journal")
        /\ UNCHANGED doubt
     \/ /\ \/ Return("paused")        \* unstructured findings
           \/ Return("threw")         \* invalid verdict, not independent
        /\ UNCHANGED <<review, reviewers, doubt>>
     \/ /\ completed > 0 /\ \E c \in Contexts : ~FreshContext(c)
        /\ Return("paused")
        /\ UNCHANGED <<review, reviewers, doubt>>
     \/ Throws(TRUE, TRUE) /\ UNCHANGED <<review, reviewers>>
  /\ UNCHANGED <<cycles, completed, fingerprints, item, log, calls, reworks,
                 authorized, checked, requested>>

Decision(base) == [call |-> calls, verdict |-> review.verdict,
                   context |-> review.context, rev |-> rev, base |-> base]

\* Churn: a finding already persisted for the item or, unless the caller is a
\* legacy one, a finding listed twice.
OnlyDuplicates(r) == r.twice                                      \* mutant
Churn(r) == \/ acceptance /\ r.twice
            \/ r.findings \intersect fingerprints # {}

CyclesLeft == completed < cycles

Request == requested' = Append(requested, review.findings)

\* The journal append and the decision that follows it.  The fingerprints are
\* persisted before the remaining cycles are looked at.
JournalDecision ==
  /\ pc = "journal"
  /\ \/ /\ log' = Append(log, Decision(0))
        /\ UNCHANGED doubt
        /\ \/ /\ review.verdict = "blocked"
              /\ Return("paused") /\ UNCHANGED <<fingerprints, requested>>
           \/ /\ review.verdict = "approved"
              /\ Await("close") /\ UNCHANGED <<fingerprints, requested>>
           \/ /\ review.verdict = "changes-requested" /\ Churn(review)
              /\ Return("paused") /\ UNCHANGED <<fingerprints, requested>>
           \/ /\ review.verdict = "changes-requested" /\ ~Churn(review)
              /\ fingerprints' = fingerprints \union review.findings
              /\ \/ /\ ~acceptance
                    /\ Return("changes-requested") /\ Request
                 \/ /\ acceptance /\ CyclesLeft
                    /\ Await("remediate") /\ Request
                 \/ /\ acceptance /\ ~CyclesLeft
                    /\ Return("paused") /\ UNCHANGED requested
     \/ /\ PostEffectPaused(TRUE) /\ doubt' = TRUE
        /\ UNCHANGED <<log, fingerprints, requested>>
  /\ UNCHANGED <<cycles, completed, reviewers, review, item, calls, reworks,
                 authorized, checked>>

\* The implementer changes the workspace, says it could not (false), or throws.
Remediate ==
  /\ pc = "remediate"
  /\ \/ /\ rev' = rev + 1
        /\ \/ Await("post-remediation") /\ UNCHANGED doubt
           \/ Return("paused") /\ UNCHANGED doubt
           \/ Throws(TRUE, FALSE)
     \/ /\ UNCHANGED rev
        /\ Return("paused") /\ UNCHANGED doubt
  /\ UNCHANGED <<cycles, completed, reviewers, review, fingerprints, target,
                 closed, branch, refreshed, published, log, calls, reworks,
                 authorized, checked, requested>>

\* Affected acceptance of the remediated revision; a passed check ends a cycle
\* and asks for another review.
OldApproval == Await("close")                                     \* mutant
NextReview == Await("request")

AffectedAcceptance ==
  /\ pc = "acceptance"
  /\ \/ /\ checked' = checked \union {<<rev, 0>>}
        /\ completed' = completed + 1
        /\ NextReview
        /\ UNCHANGED doubt
     \/ Return("paused") /\ UNCHANGED <<checked, completed, doubt>>
     \/ Throws(TRUE, TRUE) /\ UNCHANGED <<checked, completed>>
  /\ UNCHANGED <<cycles, reviewers, review, fingerprints, item, log, calls,
                 reworks, authorized, requested>>

\* Doc-Vader closes the item in its worktree.  An acknowledgement that is
\* malformed or for another item pauses.
Close ==
  /\ pc = "close"
  /\ \/ /\ closed' = TRUE
        /\ \/ Await("commit") /\ UNCHANGED doubt
           \/ Return("paused") /\ UNCHANGED doubt
           \/ Throws(TRUE, FALSE)
     \/ Throws(FALSE, TRUE) /\ UNCHANGED closed
  /\ UNCHANGED <<cycles, completed, reviewers, review, fingerprints, rev, target,
                 branch, refreshed, published, log, calls, reworks, authorized,
                 checked, requested>>

\* Only {committed: true} leads on to the delivery.
CommitClosure ==
  /\ pc = "commit"
  /\ \/ /\ branch' = [rev |-> rev, closed |-> closed]
        /\ \/ Await("deliver") /\ UNCHANGED doubt
           \/ Return("paused") /\ UNCHANGED doubt
           \/ Throws(TRUE, FALSE)
     \/ /\ UNCHANGED branch
        /\ \/ Return("paused") /\ UNCHANGED doubt
           \/ Throws(FALSE, TRUE)
  /\ UNCHANGED <<cycles, completed, reviewers, review, fingerprints, rev, target,
                 closed, refreshed, published, log, calls, reworks, authorized,
                 checked, requested>>

\* The transaction publishes a candidate, as its caller is told or not.
Publishes(c) ==
  /\ published' = c
  /\ \/ /\ \E s \in {"delivered", "published-uncertain"} : Return(s)
        /\ UNCHANGED doubt
     \/ Throws(TRUE, FALSE)

\* deliver: any answer but "stale" is the caller's answer.
DeliveredAgain(s) == Await("commit")                              \* mutant
Answer(s) == Return(s)

Deliver ==
  /\ pc = "deliver"
  /\ \/ Publishes(Candidate(target)) /\ UNCHANGED target
     \/ /\ \E s \in Unpublished : Answer(s)
        /\ UNCHANGED <<published, target, doubt>>
     \/ /\ target < MaxMoves /\ target' = target + 1  \* moved under the candidate
        /\ IF acceptance THEN Await("refresh") ELSE Return("paused")
        /\ UNCHANGED <<published, doubt>>
     \/ Throws(FALSE, TRUE) /\ UNCHANGED <<published, target>>
  /\ UNCHANGED <<cycles, completed, reviewers, review, fingerprints, rev, closed,
                 branch, refreshed, log, calls, reworks, authorized, checked,
                 requested>>

-----------------------------------------------------------------------------
(* recoverStaleDelivery *)

RefreshStale ==
  /\ pc = "refresh"
  /\ \/ /\ refreshed' = Candidate(target)
        /\ \/ Await("refreshed-acceptance") /\ UNCHANGED doubt
           \/ Throws(TRUE, FALSE)
     \/ /\ UNCHANGED refreshed
        /\ \/ Return("paused") /\ UNCHANGED doubt   \* no refreshed candidate
           \/ Throws(FALSE, TRUE)
  /\ UNCHANGED <<cycles, completed, reviewers, review, fingerprints, rev, target,
                 closed, branch, published, log, calls, reworks, authorized,
                 checked, requested>>

AcceptRefreshed ==
  /\ pc = "refreshed-acceptance"
  /\ \/ /\ checked' = checked \union {<<refreshed.rev, refreshed.base>>}
        /\ Await("refreshed-request")
        /\ UNCHANGED doubt
     \/ Return("paused") /\ UNCHANGED <<checked, doubt>>
     \/ Throws(TRUE, TRUE) /\ UNCHANGED checked
  /\ UNCHANGED <<cycles, completed, reviewers, review, fingerprints, item, log,
                 calls, reworks, authorized, requested>>

\* Everything but an approval in a context of its own pauses.
Approves(r) == r.verdict = "approved"

RereviewRefreshed ==
  /\ pc = "refreshed-request"
  /\ \/ /\ \E r \in Reviews :
             /\ Approves(r) /\ FreshContext(r.context)
             /\ review' = r
             /\ reviewers' = reviewers \union {r.context}
        /\ Await("refreshed-journal")
        /\ UNCHANGED doubt
     \/ Return("paused") /\ UNCHANGED <<review, reviewers, doubt>>
     \/ Throws(TRUE, TRUE) /\ UNCHANGED <<review, reviewers>>
  /\ UNCHANGED <<cycles, completed, fingerprints, item, log, calls, reworks,
                 authorized, checked, requested>>

JournalRereview ==
  /\ pc = "refreshed-journal"
  /\ \/ /\ log' = Append(log, Decision(refreshed.base))
        /\ Await("retry") /\ UNCHANGED doubt
     \/ PostEffectPaused(TRUE) /\ doubt' = TRUE /\ UNCHANGED log
  /\ UNCHANGED <<cycles, completed, reviewers, review, fingerprints, item, calls,
                 reworks, authorized, checked, requested>>

\* retryStale publishes the refreshed candidate unless the target moved on; a
\* second stale answer is the caller's.
RetryStale ==
  /\ pc = "retry"
  /\ \/ target = refreshed.base /\ Publishes(refreshed)
     \/ /\ \/ \E s \in Unpublished : Return(s)
           \/ target # refreshed.base /\ Return("stale")
        /\ UNCHANGED <<published, doubt>>
     \/ Throws(FALSE, TRUE) /\ UNCHANGED published
  /\ UNCHANGED <<cycles, completed, reviewers, review, fingerprints, rev, target,
                 closed, branch, refreshed, log, calls, reworks, authorized,
                 checked, requested>>

-----------------------------------------------------------------------------
\* Between calls somebody repairs the paused item in its preserved workspace.
Rework ==
  /\ pc = "idle" /\ status \in Open /\ calls > 0 /\ reworks < MaxReworks
  /\ rev' = rev + 1 /\ reworks' = reworks + 1
  /\ UNCHANGED <<call, fingerprints, target, closed, branch, refreshed,
                 published, log, calls, seen>>

MoveTarget ==
  /\ target < MaxMoves /\ published = Nothing
  /\ target' = target + 1
  /\ UNCHANGED <<call, fingerprints, rev, closed, branch, refreshed, published,
                 log, calls, reworks, seen>>

GateInit ==
  /\ pc = "idle" /\ status = "none"
  /\ cycles = 0 /\ completed = 0
  /\ reviewers = {} /\ review = NoReview
  /\ acceptance \in Acceptances /\ fingerprints = {}
  /\ rev = 1 /\ target = 1 /\ closed = FALSE
  /\ branch = [rev |-> 0, closed |-> FALSE]
  /\ refreshed = Nothing /\ published = Nothing
  /\ log = <<>> /\ calls = 0 /\ reworks = 0
  /\ authorized = {} /\ checked = {} /\ requested = <<>> /\ doubt = FALSE

Gate == \/ AuthorizeChangedPaths \/ RequestReview \/ JournalDecision
        \/ Remediate \/ AffectedAcceptance
        \/ Close \/ CommitClosure \/ Deliver
Recovery == \/ RefreshStale \/ AcceptRefreshed \/ RereviewRefreshed
            \/ JournalRereview \/ RetryStale

\* The ports of a coordinator stay what they are.
GateNext == /\ \/ \E c \in Cycles : Call(c)
               \/ RefuseCall \/ Gate \/ Recovery
               \/ Rework \/ MoveTarget
            /\ UNCHANGED acceptance

\* Every port that a call awaits settles.
GateFairness == WF_gateVars((Gate \/ Recovery) /\ UNCHANGED acceptance)

-----------------------------------------------------------------------------
(* Properties *)

Revisions == 0..(1 + MaxReworks + Len(requested))
Candidates == [rev : Revisions, base : 0..MaxMoves + 1, closed : BOOLEAN]

\* Every variable stays in its type; the counters of a call keep to its bounds.
GateOK ==
  /\ pc \in Ports \union {"idle"} /\ status \in Statuses
  /\ cycles \in Cycles \union {0} /\ completed \in Nat
  /\ reviewers \subseteq Contexts /\ review \in Reviews \union {NoReview}
  /\ acceptance \in Acceptances /\ fingerprints \subseteq Findings
  /\ rev \in Revisions \ {0} /\ target \in Nat \ {0}
  /\ closed \in BOOLEAN
  /\ branch \in [rev : Revisions, closed : BOOLEAN]
  /\ {refreshed, published} \subseteq Candidates
  /\ \A k \in 1..Len(log) :
       log[k] \in [call : 1..calls, verdict : Verdicts, context : Contexts,
                  rev : Revisions, base : 0..MaxMoves + 1]
  /\ calls \in 0..MaxCalls /\ reworks \in 0..MaxReworks
  /\ authorized \subseteq Revisions /\ checked \subseteq Revisions \X Nat
  /\ doubt \in BOOLEAN

Approved(c) ==
  {k \in 1..Len(log) : /\ log[k].call = calls /\ log[k].verdict = "approved"
                       /\ log[k].rev = c.rev /\ log[k].base \in {0, c.base}}

\* What reaches the target is the very revision that the same call had approved
\* and journaled, whose paths were authorized, which carries the closure commit,
\* and which was checked again if this call had it remediated (lines 30-112).
PublishedPassedTheGate ==
  [][published' # published =>
       /\ Approved(published') # {}
       /\ published'.closed
       /\ published'.rev \in authorized
       /\ completed > 0 => <<published'.rev, 0>> \in checked]_published

\* A refreshed candidate is published only after acceptance passed on it and a
\* reviewer approved it on its new base: the approval of the stale one does not
\* count (recoverStaleDelivery, lines 149-183).
RetriedWasRechecked ==
  [][pc = "retry" /\ published' # published =>
       /\ <<published'.rev, published'.base>> \in checked
       /\ \E k \in Approved(published') : log[k].base = published'.base]_gateVars

\* The gate as a whole, for the first publication and for the retried one.
PassedTheGate == PublishedPassedTheGate /\ RetriedWasRechecked

\* No two decisions of one call come from the same reviewer context, the one of
\* the stale recovery included (lines 46-49, 160-164).
FreshReviewers ==
  \A j, k \in 1..Len(log) :
    j # k /\ log[j].call = log[k].call => log[j].context # log[k].context

\* No finding reaches the implementer twice, however many calls review the
\* item (the fingerprints outlive a call, lines 71-82).
NoFindingTwice ==
  \A j, k \in 1..Len(requested) :
    j # k => requested[j] \intersect requested[k] = {}

\* One call journals at most one decision per remediation cycle and the first,
\* besides the one of the stale recovery, whatever reviewers and checks answer.
EffortIsBounded ==
  Cardinality({k \in 1..Len(log) : log[k].call = calls /\ log[k].base = 0})
    <= cycles + 1

\* A review goes on only with new reviewers, new findings and a bounded number
\* of decisions, over well-typed states.
ReviewsConverge == GateOK /\ FreshReviewers /\ NoFindingTwice /\ EffortIsBounded

\* While no answer is lost, a call that leaves an effect without its record
\* says so, and no other pause hides a publication (postEffectPaused,
\* lines 210-215).
PauseIsHonest ==
  pc = "idle" =>
    /\ doubt => status = "paused-after-side-effect"
    /\ published # Nothing =>
         status \in {"delivered", "published-uncertain", "paused-after-side-effect"}

\* Every call ends, whatever reviewers, checks and the target do.
CallEnds == pc # "idle" ~> pc = "idle"
=============================================================================
