--------------------------- MODULE BlueprintProofs ---------------------------
(***************************************************************************)
(* Runs that share the worktree transaction, for any number of runs and    *)
(* failures: what they do to the repository is validated and journaled,    *)
(* and what they answer is true.  That a run takes the right work item and *)
(* what it is told of it, for any number of runs, items, listings,         *)
(* overrides and odd answers, whatever is edited between two commands.     *)
(* And that what the review gate lets through has passed it, and a review  *)
(* goes on only with new reviewers, new findings and a bounded number of   *)
(* decisions, for any contexts, findings, cycles, calls and reworks, also  *)
(* when answers are lost.  And that an acceptance plan runs the scripts of *)
(* the workspaces that a change reaches and no others, for any repository  *)
(* whose packages are listed in the order of their directories.            *)
(***************************************************************************)
EXTENDS Blueprint, FilteringProofs

-----------------------------------------------------------------------------
(* Runs that share the transaction.                                        *)

RunSpec == RunInit /\ [][RunNext]_runVars

\* Which step and effect a run is at, and what that step and the earlier ones left.
InEffect(r) == phase[r] \in {"effect-intent", "effect", "effect-outcome"}
Placed(r) ==
  /\ phase[r] \notin {"intent", "over"} => step[r] > 0
  /\ InEffect(r) => \/ step[r] = 5 /\ effect[r] = "item-worktree-create"
                    \/ step[r] = 7 /\ effect[r] \in {"cas-publication", "cleanup"}

\* A run goes on only from steps it recorded and that were not refused.
Recording(r) ==
  \A m \in 1..8 : m < step[r] => /\ <<r, Steps[m], "after">> \in journals[r]
                                 /\ <<r, Steps[m]>> \notin refused

Intended(r, e) == \E j \in Runs : <<r, e, "intent">> \in journals[j]
Covered(r) ==
  /\ phase[r] = "effect" => Intended(r, effect[r])
  /\ \A e \in Effects : <<r, e>> \in happened => step[r] >= 5 /\ Intended(r, e)

\* Until the review is over the outcome is the one a run begins with; a run has
\* landed at the earliest when its publication took effect.
Unreviewed(r) == step[r] < 7 \/ (step[r] = 7 /\ (phase[r] \in {"intent", "act"} \/ InEffect(r)))
Delivering(r) ==
  /\ Unreviewed(r) => outcome[r] = "paused"
  /\ r \in landed => \/ ~Unreviewed(r)
                     \/ InEffect(r) /\ effect[r] = "cleanup"
                     \/ phase[r] = "effect-outcome" /\ effect[r] = "cas-publication"
  /\ InEffect(r) /\ effect[r] = "cleanup" => r \in landed
  /\ phase[r] = "effect-outcome" /\ effect[r] = "cas-publication" => r \in landed
  /\ phase[r] = "effect-outcome" /\ effect[r] = "cleanup" => r \notin worktrees
  /\ outcome[r] = "delivered" => r \in landed /\ r \notin worktrees
  /\ outcome[r] = "failed" => r \notin landed
  /\ runStatus[r] \in {"delivered", "failed"} => phase[r] = "over" /\ outcome[r] = runStatus[r]

Running(r) == Placed(r) /\ Recording(r) /\ Covered(r) /\ Delivering(r)
RunInv == RunsOK /\ \A r \in Runs : Running(r)

LEMMA StepsAre ==
  /\ Len(Steps) = 8
  /\ Steps[1] = "dv-ready" /\ Steps[2] = "dv-show" /\ Steps[3] = "dv-validate"
  /\ Steps[4] = "evidence-journal-created" /\ Steps[5] = "prepare-item"
  /\ Steps[6] = "item-worktree-prepared" /\ Steps[7] = "integration-deliver"
  /\ Steps[8] = "delivery-outcome"
BY DEF Steps

LEMMA StepsDiffer == \A m, n \in 1..8 : Steps[m] = Steps[n] => m = n
<1>1. ASSUME NEW m \in 1..8
      PROVE  m = 1 \/ m = 2 \/ m = 3 \/ m = 4 \/ m = 5 \/ m = 6 \/ m = 7 \/ m = 8
  OBVIOUS
<1> QED
  BY <1>1, StepsAre

\* Where a step takes its run, and what it leaves in the repository.
Goes(r, s, p) == step'[r] = s /\ phase'[r] = p /\ runStatus'[r] = runStatus[r]
Stops(r, s) == /\ step'[r] = step[r] /\ phase'[r] = "over" /\ runStatus'[r] = s
               /\ effect'[r] = effect[r] /\ outcome'[r] = outcome[r]
Same(r) == effect'[r] = effect[r] /\ outcome'[r] = outcome[r]
Still == UNCHANGED <<repository, refused>>

EarlyRow(r) ==
  \/ /\ step[r] = 0 /\ phase[r] = "intent" /\ Still
     /\ (Goes(r, 1, "intent") /\ Same(r)) \/ Stops(r, "paused")
  \/ /\ step[r] > 0 /\ phase[r] = "intent" /\ Still
     /\ (Goes(r, step[r], "act") /\ Same(r)) \/ Stops(r, "paused")
  \/ /\ phase[r] = "act" /\ step[r] \notin {5, 7} /\ UNCHANGED repository
     /\ refused' \subseteq refused \union {<<r, Now(r)>>}
     /\ (Goes(r, step[r], "after") /\ Same(r)) \/ Stops(r, "paused")
  \/ /\ phase[r] = "act" /\ step[r] = 5 /\ Still
     /\ Goes(r, 5, "effect-intent") /\ outcome'[r] = outcome[r]
     /\ effect'[r] = "item-worktree-create"
  \/ /\ phase[r] = "act" /\ step[r] = 7 /\ Still
     /\ \/ /\ Goes(r, 7, "effect-intent") /\ outcome'[r] = outcome[r]
           /\ effect'[r] = "cas-publication"
        \/ /\ Goes(r, 7, "after") /\ effect'[r] = effect[r]
           /\ outcome'[r] \in {"paused", "failed", "paused-after-side-effect"}
        \/ Stops(r, "paused")
  \/ /\ phase[r] = "after" /\ Still
     /\ \/ /\ step[r] < 8 /\ Goes(r, step[r] + 1, "intent") /\ Same(r)
           /\ <<r, Now(r), "after">> \in journals'[r] /\ <<r, Now(r)>> \notin refused
        \/ step[r] = 8 /\ Stops(r, outcome[r])
        \/ Stops(r, "paused") \/ Stops(r, "paused-after-side-effect")

Failing(r) ==
  \/ effect[r] = "item-worktree-create" /\ Stops(r, "paused")
  \/ /\ effect[r] = "cas-publication" /\ outcome'[r] = "failed"
     /\ Goes(r, step[r], "after") /\ effect'[r] = effect[r]
  \/ /\ effect[r] = "cleanup" /\ outcome'[r] = "published-but-cleanup-failed"
     /\ Goes(r, step[r], "after") /\ effect'[r] = effect[r]

EffectRow(r) ==
  \/ /\ phase[r] = "effect-intent" /\ Still
     /\ \/ Intended(r, effect[r])' /\ Goes(r, step[r], "effect") /\ Same(r)
        \/ Failing(r)
  \/ /\ phase[r] = "effect" /\ UNCHANGED refused
     /\ \/ /\ Goes(r, step[r], "effect-outcome") /\ Same(r)
           /\ happened' = happened \union {<<r, effect[r]>>}
           /\ effect[r] = "cleanup" => r \notin worktrees'
           /\ r \in worktrees' => r \in worktrees \/ effect[r] = "item-worktree-create"
           /\ r \in landed' <=> r \in landed \/ effect[r] = "cas-publication"
        \/ UNCHANGED repository /\ Failing(r)
  \/ /\ phase[r] = "effect-outcome" /\ Still
     /\ \/ /\ effect[r] = "item-worktree-create"
           /\ (Goes(r, step[r], "after") /\ Same(r)) \/ Stops(r, "paused-after-side-effect")
        \/ /\ effect[r] = "cas-publication" /\ Goes(r, step[r], "effect-intent")
           /\ outcome'[r] = outcome[r] /\ effect'[r] = "cleanup"
        \/ /\ effect[r] \in {"cas-publication", "cleanup"} /\ Goes(r, step[r], "after")
           /\ effect'[r] = effect[r] /\ outcome'[r] = "published-uncertain"
        \/ /\ effect[r] = "cleanup" /\ Goes(r, step[r], "after")
           /\ effect'[r] = effect[r] /\ outcome'[r] = "delivered"

LEMMA Typed ==
  ASSUME RunsOK, NEW r \in Runs
  PROVE  /\ step[r] \in 0..8 /\ phase[r] \in Phases
         /\ effect[r] \in Effects /\ outcome[r] \in Outcomes
BY StepsAre DEF RunsOK
LEMMA GotoTakes ==
  ASSUME RunsOK, NEW r \in Runs, NEW p, Goto(r, p)
  PROVE  Goes(r, step[r], p) /\ Same(r)
BY DEF RunsOK, Goto, With, Goes, Same
LEMMA EndsTakes ==
  ASSUME RunsOK, NEW r \in Runs, NEW s, Ends(r, s)
  PROVE  Stops(r, s)
BY DEF RunsOK, Ends, With, Stops
LEMMA EnterTakes ==
  ASSUME RunsOK, NEW r \in Runs, NEW e, EnterTransaction(r, e)
  PROVE  Goes(r, step[r], "effect-intent") /\ outcome'[r] = outcome[r] /\ effect'[r] = e
BY DEF RunsOK, EnterTransaction, With, Goes
LEMMA ReviewTakes ==
  ASSUME RunsOK, NEW r \in Runs, NEW o, Review(r, o)
  PROVE  Goes(r, step[r], "after") /\ effect'[r] = effect[r] /\ outcome'[r] = o
BY DEF RunsOK, Review, With, Goes
LEMMA NextTakes ==
  ASSUME RunsOK, NEW r \in Runs, NextStep(r)
  PROVE  Goes(r, step[r] + 1, "intent") /\ Same(r)
BY DEF RunsOK, NextStep, With, Goes, Same
LEMMA RecordedTakes ==
  ASSUME RunsOK, NEW r, NEW j \in Runs, NEW a, NEW k, Recorded(r, j, a, k)
  PROVE  /\ <<r, a, k>> \in journals'[j]
         /\ journals' = [journals EXCEPT ![j] = journals[j] \union {<<r, a, k>>}]
BY DEF RunsOK, Recorded, With

LEMMA NowIs ==
  ASSUME NEW r, step[r] \in 1..8
  PROVE  /\ Now(r) = "prepare-item" <=> step[r] = 5
         /\ Now(r) = "integration-deliver" <=> step[r] = 7
BY StepsAre, StepsDiffer DEF Now

LEMMA Failed ==
  ASSUME RunsOK, NEW r \in Runs, EffectFails(r)
  PROVE  Failing(r)
<1>1. CASE effect[r] = "item-worktree-create"
  <2>1. Ends(r, "paused")
    BY <1>1 DEF EffectFails, Pause
  <2> QED
    BY <1>1, <2>1, EndsTakes DEF Failing
<1>2. CASE effect[r] = "cas-publication"
  <2>1. Review(r, "failed")
    BY <1>2 DEF EffectFails
  <2> QED
    BY <1>2, <2>1, ReviewTakes DEF Failing
<1>3. CASE effect[r] = "cleanup"
  <2>1. Review(r, "published-but-cleanup-failed")
    BY <1>3 DEF EffectFails
  <2> QED
    BY <1>3, <2>1, ReviewTakes DEF Failing
<1> QED
  BY <1>1, <1>2, <1>3, Typed DEF Effects

LEMMA Paused ==
  ASSUME RunsOK, NEW r \in Runs
  PROVE  /\ Pause(r) => Stops(r, "paused")
         /\ PauseAfterEffect(r) => Stops(r, "paused-after-side-effect")
BY EndsTakes DEF Pause, PauseAfterEffect

LEMMA RunRows ==
  ASSUME RunsOK, NEW r \in Runs, Placed(r), Go(r)
  PROVE  EarlyRow(r) \/ EffectRow(r)
<1>0. /\ phase[r] = "act" \/ phase[r] = "after" => step[r] \in 1..8
      /\ step[r] > 0 => step[r] \in 1..8
  BY Typed DEF Placed
<1>1. CASE OpenRun(r)
  <2>1. /\ step[r] = 0 /\ phase[r] = "intent" /\ Still
        /\ (step' = With(step, r, 1) /\ UNCHANGED <<phase, effect, outcome, runStatus>>) \/ Pause(r)
    BY <1>1 DEF OpenRun, Still
  <2>2. step' = With(step, r, 1) => step'[r] = 1
    BY DEF RunsOK, With
  <2> QED
    BY <2>1, <2>2, Paused DEF EarlyRow, Goes, Same
<1>2. CASE AppendIntent(r)
  <2>1. step[r] > 0 /\ phase[r] = "intent" /\ Still /\ (Goto(r, "act") \/ Pause(r))
    BY <1>2 DEF AppendIntent, Still
  <2> QED
    BY <2>1, GotoTakes, Paused DEF EarlyRow
<1>3. CASE CallPort(r)
  <2>1. phase[r] = "act" /\ Now(r) \notin {"prepare-item", "integration-deliver"} /\ UNCHANGED repository
    BY <1>3 DEF CallPort
  <2>2. refused' \subseteq refused \union {<<r, Now(r)>>}
    BY <1>3 DEF CallPort
  <2>3. Goto(r, "after") \/ Pause(r)
    BY <1>3 DEF CallPort
  <2>4. step[r] \notin {5, 7}
    BY <1>0, <2>1, NowIs
  <2>5. (Goes(r, step[r], "after") /\ Same(r)) \/ Stops(r, "paused")
    BY <2>3, GotoTakes, Paused
  <2> QED
    BY <2>1, <2>2, <2>4, <2>5 DEF EarlyRow
<1>4. CASE Prepare(r)
  <2>1. /\ phase[r] = "act" /\ Now(r) = "prepare-item" /\ Still
        /\ EnterTransaction(r, "item-worktree-create")
    BY <1>4 DEF Prepare, Still
  <2>2. step[r] = 5
    BY <1>0, <2>1, NowIs
  <2>3. /\ Goes(r, step[r], "effect-intent") /\ outcome'[r] = outcome[r]
        /\ effect'[r] = "item-worktree-create"
    BY <2>1, EnterTakes
  <2> QED
    BY <2>1, <2>2, <2>3 DEF EarlyRow
<1>5. CASE ReviewDelivery(r)
  <2>1. phase[r] = "act" /\ Now(r) = "integration-deliver" /\ Still
    BY <1>5 DEF ReviewDelivery, Still
  <2>2. step[r] = 7
    BY <1>0, <2>1, NowIs
  <2>3. \/ EnterTransaction(r, "cas-publication")
        \/ Review(r, "paused") \/ Review(r, "failed") \/ Review(r, "paused-after-side-effect")
        \/ Pause(r)
    BY <1>5 DEF ReviewDelivery, Undelivered
  <2>4. \/ /\ Goes(r, step[r], "effect-intent") /\ outcome'[r] = outcome[r]
           /\ effect'[r] = "cas-publication"
        \/ /\ Goes(r, step[r], "after") /\ effect'[r] = effect[r]
           /\ outcome'[r] \in {"paused", "failed", "paused-after-side-effect"}
        \/ Stops(r, "paused")
    BY <2>3, EnterTakes, ReviewTakes, Paused
  <2> QED
    BY <2>1, <2>2, <2>4 DEF EarlyRow
<1>6. CASE EffectIntent(r)
  <2>0. phase[r] = "effect-intent" /\ Still
    BY <1>6 DEF EffectIntent, Still
  <2>1. CASE JournalIntent(r, effect[r]) /\ Goto(r, "effect")
    <3>1. bound \in Runs
      BY <2>0 DEF Placed, RunsOK
    <3>2. <<r, effect[r], "intent">> \in journals'[bound]
      BY <2>1, <3>1, RecordedTakes DEF JournalIntent, ActiveJournal
    <3>3. Goes(r, step[r], "effect") /\ Same(r)
      BY <2>1, GotoTakes
    <3>4. Intended(r, effect[r])'
      BY <3>1, <3>2, <3>3 DEF Intended, Same
    <3> QED
      BY <2>0, <3>3, <3>4 DEF EffectRow
  <2>2. CASE EffectFails(r)
    BY <2>0, <2>2, Failed DEF EffectRow
  <2> QED
    BY <1>6, <2>1, <2>2 DEF EffectIntent
<1>7. CASE Effect(r)
  <2>1. phase[r] = "effect" /\ UNCHANGED refused
    BY <1>7 DEF Effect
  <2>2. CASE UNCHANGED repository /\ EffectFails(r)
    BY <2>1, <2>2, Failed DEF EffectRow
  <2>3. CASE ~(UNCHANGED repository /\ EffectFails(r))
    <3>1. /\ happened' = happened \union {<<r, effect[r]>>} /\ Goto(r, "effect-outcome")
          /\ worktrees' = CASE effect[r] = "item-worktree-create" -> worktrees \union {r}
                            [] effect[r] = "cleanup" -> worktrees \ {r}
                            [] OTHER -> worktrees
          /\ landed' = IF effect[r] = "cas-publication" THEN landed \union {r} ELSE landed
      BY <1>7, <2>3 DEF Effect
    <3>2. /\ effect[r] = "cleanup" => r \notin worktrees'
          /\ r \in worktrees' => r \in worktrees \/ effect[r] = "item-worktree-create"
      <4>1. CASE effect[r] = "item-worktree-create"
        BY <4>1
      <4>2. CASE effect[r] = "cleanup"
        <5>1. worktrees' = worktrees \ {r}
          BY <3>1, <4>2
        <5> QED
          BY <4>2, <5>1
      <4>3. CASE effect[r] = "cas-publication"
        <5>1. worktrees' = worktrees
          BY <3>1, <4>3
        <5> QED
          BY <4>3, <5>1
      <4> QED
        BY <4>1, <4>2, <4>3, Typed DEF Effects
    <3>3. r \in landed' <=> r \in landed \/ effect[r] = "cas-publication"
      BY <3>1
    <3>4. Goes(r, step[r], "effect-outcome") /\ Same(r)
      BY <3>1, GotoTakes
    <3> QED
      BY <2>1, <3>1, <3>2, <3>3, <3>4 DEF EffectRow
  <2> QED
    BY <2>2, <2>3
<1>8. CASE EffectOutcome(r)
  <2>1. phase[r] = "effect-outcome" /\ Still
    BY <1>8 DEF EffectOutcome, Still
  <2>2. CASE effect[r] = "item-worktree-create"
    <3>1. Goto(r, "after") \/ PauseAfterEffect(r)
      BY <1>8, <2>2 DEF EffectOutcome
    <3> QED
      BY <2>1, <2>2, <3>1, GotoTakes, Paused DEF EffectRow
  <2>3. CASE effect[r] = "cas-publication"
    <3>1. EnterTransaction(r, "cleanup") \/ Review(r, "published-uncertain")
      BY <1>8, <2>3 DEF EffectOutcome
    <3>2. \/ Goes(r, step[r], "effect-intent") /\ outcome'[r] = outcome[r] /\ effect'[r] = "cleanup"
          \/ /\ Goes(r, step[r], "after") /\ effect'[r] = effect[r]
             /\ outcome'[r] = "published-uncertain"
      BY <3>1, EnterTakes, ReviewTakes
    <3> QED
      BY <2>1, <2>3, <3>2 DEF EffectRow
  <2>4. CASE effect[r] = "cleanup"
    <3>1. Review(r, "delivered") \/ Review(r, "published-uncertain")
      BY <1>8, <2>4 DEF EffectOutcome
    <3>2. /\ Goes(r, step[r], "after") /\ effect'[r] = effect[r]
          /\ outcome'[r] = "delivered" \/ outcome'[r] = "published-uncertain"
      BY <3>1, ReviewTakes
    <3> QED
      BY <2>1, <2>4, <3>2 DEF EffectRow
  <2> QED
    BY <2>2, <2>3, <2>4, Typed DEF Effects
<1>9. CASE AppendResult(r)
  <2>1. phase[r] = "after" /\ Still /\ step[r] \in 1..8
    BY <1>0, <1>9 DEF AppendResult, Still
  <2>2. CASE Recorded(r, r, Now(r), "after") /\ Accepted(r) /\ ~LastStep(r) /\ NextStep(r)
    <3>1. step[r] < 8
      BY <2>1, <2>2, StepsAre DEF LastStep
    <3>2. <<r, Now(r), "after">> \in journals'[r] /\ <<r, Now(r)>> \notin refused
      BY <2>2, RecordedTakes DEF Accepted
    <3> QED
      BY <2>1, <2>2, <3>1, <3>2, NextTakes DEF EarlyRow
  <2>3. CASE LastStep(r) /\ Ends(r, outcome[r])
    BY <2>1, <2>3, EndsTakes, StepsAre DEF EarlyRow, LastStep
  <2>4. CASE Pause(r) \/ PauseAfterEffect(r)
    BY <2>1, <2>4, Paused DEF EarlyRow
  <2> QED
    BY <1>9, <2>2, <2>3, <2>4 DEF AppendResult
<1> QED
  BY <1>1, <1>2, <1>3, <1>4, <1>5, <1>6, <1>7, <1>8, <1>9 DEF Go

-----------------------------------------------------------------------------
(* A run's own steps keep its invariant *)

LEMMA PlacedOwn ==
  ASSUME RunsOK, NEW r \in Runs, Placed(r), EarlyRow(r) \/ EffectRow(r)
  PROVE  Placed(r)'
<1> USE Typed DEF Placed, InEffect, Goes, Stops, Same
<1>1. CASE EarlyRow(r)
  BY <1>1 DEF EarlyRow
<1>2. CASE EffectRow(r)
  BY <1>2 DEF EffectRow, Failing
<1> QED
  BY <1>1, <1>2

LEMMA RecordingOwn ==
  ASSUME RunsOK, NEW r \in Runs, Placed(r), Recording(r), EarlyRow(r) \/ EffectRow(r),
         \A j \in Runs : journals[j] \subseteq journals'[j]
  PROVE  Recording(r)'
<1>1. CASE step'[r] = step[r] /\ refused' = refused
  BY <1>1 DEF Recording
<1>2. CASE step'[r] = step[r] /\ refused' \subseteq refused \union {<<r, Now(r)>>} /\ step[r] > 0
  <2>1. step[r] \in 1..8
    BY <1>2, Typed
  <2>2. \A m \in 1..8 : m < step[r] => <<r, Steps[m]>> # <<r, Now(r)>>
    BY <2>1, StepsDiffer DEF Now
  <2> QED
    BY <1>2, <2>2 DEF Recording
<1>3. CASE /\ step[r] < 8 /\ step'[r] = step[r] + 1 /\ refused' = refused
           /\ <<r, Now(r), "after">> \in journals'[r] /\ <<r, Now(r)>> \notin refused
  <2>1. step[r] \in 0..8
    BY Typed
  <2>2. \A m \in 1..8 : m < step'[r] => m < step[r] \/ m = step[r]
    BY <1>3, <2>1
  <2> QED
    BY <1>3, <2>2 DEF Recording, Now
<1>4. CASE step[r] = 0 /\ step'[r] = 1
  BY <1>4 DEF Recording
<1>5. phase[r] = "act" => step[r] > 0
  BY DEF Placed
<1>6. CASE EarlyRow(r)
  BY <1>1, <1>2, <1>3, <1>4, <1>5, <1>6 DEF EarlyRow, Goes, Stops, Still
<1>7. CASE EffectRow(r)
  BY <1>1, <1>7 DEF EffectRow, Failing, Goes, Stops, Still
<1> QED
  BY <1>6, <1>7

LEMMA CoveredOwn ==
  ASSUME RunsOK, NEW r \in Runs, Placed(r), Covered(r), EarlyRow(r) \/ EffectRow(r),
         \A j \in Runs : journals[j] \subseteq journals'[j]
  PROVE  Covered(r)'
<1>1. \A e : Intended(r, e) => Intended(r, e)'
  BY DEF Intended
<1>2. CASE EarlyRow(r)
  <2>1. /\ happened' = happened /\ phase'[r] # "effect"
        /\ step'[r] \in 0..9 /\ step'[r] >= step[r]
    BY <1>2, Typed DEF EarlyRow, Goes, Stops, Still, repository
  <2> QED
    BY <1>1, <2>1, Typed DEF Covered
<1>3. CASE EffectRow(r)
  <2>1. step'[r] = step[r]
    BY <1>3 DEF EffectRow, Failing, Goes, Stops
  <2>2. CASE phase[r] = "effect" /\ happened' = happened \union {<<r, effect[r]>>} /\ phase'[r] = "effect-outcome"
    <3>1. step[r] >= 5
      BY <2>2 DEF Placed, InEffect
    <3> QED
      BY <1>1, <2>1, <2>2, <3>1 DEF Covered
  <2>3. CASE happened' = happened /\ phase'[r] # "effect"
    BY <1>1, <2>1, <2>3 DEF Covered
  <2>4. CASE happened' = happened /\ Intended(r, effect[r])' /\ effect'[r] = effect[r]
    BY <1>1, <2>1, <2>4 DEF Covered
  <2> QED
    BY <1>3, <2>2, <2>3, <2>4 DEF EffectRow, Failing, Goes, Stops, Same, Still, repository
<1> QED
  BY <1>2, <1>3

LEMMA DeliveringOwn ==
  ASSUME RunsOK, NEW r \in Runs, Placed(r), Delivering(r), EarlyRow(r) \/ EffectRow(r)
  PROVE  Delivering(r)'
<1> USE DEF Delivering, Unreviewed, InEffect, Goes, Stops, Same
<1>0. step[r] \in 0..8
  BY Typed
<1>1. CASE EarlyRow(r)
  <2>1. UNCHANGED repository
    BY <1>1 DEF EarlyRow, Still
  <2>2. CASE phase[r] = "intent"
    BY <1>0, <1>1, <2>1, <2>2 DEF EarlyRow, repository
  <2>3. CASE phase[r] = "act"
    BY <1>0, <1>1, <2>1, <2>3 DEF EarlyRow, repository
  <2>4. CASE phase[r] = "after"
    BY <1>0, <1>1, <2>1, <2>4 DEF EarlyRow, repository
  <2> QED
    BY <1>1, <2>2, <2>3, <2>4 DEF EarlyRow
<1>2. CASE EffectRow(r)
  <2>1. \/ step[r] = 5 /\ effect[r] = "item-worktree-create"
        \/ step[r] = 7 /\ effect[r] \in {"cas-publication", "cleanup"}
    BY <1>2 DEF EffectRow, Placed
  <2>2. CASE phase[r] = "effect-intent"
    BY <1>2, <2>1, <2>2 DEF EffectRow, Failing, Still, repository
  <2>3. CASE phase[r] = "effect"
    BY <1>2, <2>1, <2>3 DEF EffectRow, Failing, repository
  <2>4. CASE phase[r] = "effect-outcome"
    BY <1>2, <2>1, <2>4 DEF EffectRow, Failing, Still, repository
  <2> QED
    BY <1>2, <2>2, <2>3, <2>4 DEF EffectRow
<1> QED
  BY <1>1, <1>2

-----------------------------------------------------------------------------
(* What a step leaves alone, and types *)

\* A step of r moves only r: its control state, its marks in the repository and its
\* refusals, and no journal loses an entry.
OnlyControl(r) ==
  /\ step' = With(step, r, step'[r]) /\ phase' = With(phase, r, phase'[r])
  /\ effect' = With(effect, r, effect'[r]) /\ outcome' = With(outcome, r, outcome'[r])
  /\ runStatus' = With(runStatus, r, runStatus'[r])
OnlyMarks(r) ==
  \A q \in Runs \ {r} : /\ q \in landed' <=> q \in landed
                        /\ q \in worktrees' <=> q \in worktrees
                        /\ \A e : <<q, e>> \in happened' <=> <<q, e>> \in happened
                        /\ \A a : <<q, a>> \in refused' <=> <<q, a>> \in refused
JournalsGrow ==
  /\ journals' \in [Runs -> SUBSET (Runs \X Actions \X {"intent", "after"})]
  /\ \A j \in Runs : journals[j] \subseteq journals'[j]

LEMMA Unmoved ==
  ASSUME RunsOK, NEW r \in Runs
  PROVE  /\ step = With(step, r, step[r]) /\ phase = With(phase, r, phase[r])
         /\ effect = With(effect, r, effect[r]) /\ outcome = With(outcome, r, outcome[r])
         /\ runStatus = With(runStatus, r, runStatus[r])
BY DEF RunsOK, With
LEMMA Moved ==
  ASSUME RunsOK, NEW r \in Runs
  PROVE  \A v : /\ With(step, r, v)[r] = v /\ With(phase, r, v)[r] = v
                /\ With(effect, r, v)[r] = v /\ With(outcome, r, v)[r] = v
                /\ With(runStatus, r, v)[r] = v
BY DEF RunsOK, With

LEMMA FormsOnly ==
  ASSUME RunsOK, NEW r \in Runs
  PROVE  /\ \A p : Goto(r, p) => OnlyControl(r)
         /\ \A s : Ends(r, s) => OnlyControl(r)
         /\ \A e : EnterTransaction(r, e) => OnlyControl(r)
         /\ \A o : Review(r, o) => OnlyControl(r)
         /\ NextStep(r) => OnlyControl(r)
BY Unmoved, Moved DEF Goto, Ends, EnterTransaction, Review, NextStep, OnlyControl

LEMMA FailedOnly == ASSUME RunsOK, NEW r \in Runs, EffectFails(r) PROVE OnlyControl(r)
<1>1. CASE effect[r] = "item-worktree-create"
  BY <1>1, FormsOnly DEF EffectFails, Pause
<1>2. CASE effect[r] = "cas-publication"
  BY <1>2, FormsOnly DEF EffectFails
<1>3. CASE effect[r] = "cleanup"
  BY <1>3, FormsOnly DEF EffectFails
<1> QED
  BY <1>1, <1>2, <1>3, Typed DEF Effects

LEMMA ControlOnly == ASSUME RunsOK, NEW r \in Runs, Go(r) PROVE OnlyControl(r)
<1> USE FormsOnly, FailedOnly DEF Pause, PauseAfterEffect
<1>1. CASE OpenRun(r)
  BY <1>1, Unmoved, Moved DEF OpenRun, OnlyControl
<1>2. CASE AppendIntent(r) \/ CallPort(r) \/ Prepare(r)
  BY <1>2 DEF AppendIntent, CallPort, Prepare
<1>3. CASE ReviewDelivery(r)
  BY <1>3 DEF ReviewDelivery
<1>4. CASE EffectIntent(r) \/ Effect(r)
  BY <1>4 DEF EffectIntent, Effect
<1>5. CASE EffectOutcome(r)
  <2>1. CASE effect[r] = "item-worktree-create"
    BY <1>5, <2>1 DEF EffectOutcome
  <2>2. CASE effect[r] = "cas-publication"
    BY <1>5, <2>2 DEF EffectOutcome
  <2>3. CASE effect[r] = "cleanup"
    BY <1>5, <2>3 DEF EffectOutcome
  <2> QED
    BY <2>1, <2>2, <2>3, Typed DEF Effects
<1>6. CASE AppendResult(r)
  BY <1>6 DEF AppendResult
<1> QED
  BY <1>1, <1>2, <1>3, <1>4, <1>5, <1>6 DEF Go

LEMMA MarksOnly == ASSUME RunsOK, NEW r \in Runs, Go(r) PROVE OnlyMarks(r)
<1>1. CASE OpenRun(r) \/ AppendIntent(r) \/ Prepare(r) \/ ReviewDelivery(r) \/ EffectIntent(r)
           \/ EffectOutcome(r) \/ AppendResult(r)
  <2>1. UNCHANGED <<landed, worktrees, happened, refused>>
    BY <1>1 DEF OpenRun, AppendIntent, Prepare, ReviewDelivery, EffectIntent, EffectOutcome,
                AppendResult, repository
  <2> QED
    BY <2>1 DEF OnlyMarks
<1>2. CASE CallPort(r)
  <2>1. UNCHANGED <<landed, worktrees, happened>>
    BY <1>2 DEF CallPort, repository
  <2>2. refused' = refused \/ refused' = refused \union {<<r, Now(r)>>}
    BY <1>2 DEF CallPort
  <2> QED
    BY <2>1, <2>2 DEF OnlyMarks
<1>3. CASE Effect(r)
  <2>1. refused' = refused
    BY <1>3 DEF Effect
  <2>2. CASE UNCHANGED repository
    BY <2>1, <2>2 DEF OnlyMarks, repository
  <2>3. CASE ~ UNCHANGED repository
    <3>1. /\ happened' = happened \union {<<r, effect[r]>>}
          /\ worktrees' = CASE effect[r] = "item-worktree-create" -> worktrees \union {r}
                            [] effect[r] = "cleanup" -> worktrees \ {r}
                            [] OTHER -> worktrees
          /\ landed' = IF effect[r] = "cas-publication" THEN landed \union {r} ELSE landed
      BY <1>3, <2>3 DEF Effect
    <3>2. worktrees' = worktrees \union {r} \/ worktrees' = worktrees \ {r} \/ worktrees' = worktrees
      <4>1. CASE effect[r] = "item-worktree-create"
        BY <3>1, <4>1
      <4>2. CASE effect[r] = "cleanup"
        BY <3>1, <4>2
      <4>3. CASE effect[r] = "cas-publication"
        BY <3>1, <4>3
      <4> QED
        BY <4>1, <4>2, <4>3, Typed DEF Effects
    <3>3. landed' = landed \union {r} \/ landed' = landed
      BY <3>1
    <3> QED
      BY <2>1, <3>1, <3>2, <3>3 DEF OnlyMarks
  <2> QED
    BY <2>2, <2>3
<1> QED
  BY <1>1, <1>2, <1>3 DEF Go

LEMMA RecordsGrow ==
  ASSUME RunsOK, NEW r \in Runs, NEW j \in Runs, NEW a \in Actions, NEW k \in {"intent", "after"},
         journals' = [journals EXCEPT ![j] = journals[j] \union {<<r, a, k>>}]
  PROVE  JournalsGrow
BY DEF RunsOK, JournalsGrow

LEMMA ActionsAre == ASSUME NEW r, step[r] \in 1..8 PROVE Now(r) \in Actions
BY StepsAre DEF Now, Actions

LEMMA GrowOnly == ASSUME RunsOK, NEW r \in Runs, Placed(r), Go(r) PROVE JournalsGrow
<1>0. /\ UNCHANGED journals => JournalsGrow
      /\ step[r] > 0 => step[r] \in 1..8 /\ bound \in Runs
      /\ effect[r] \in Actions
  BY Typed DEF RunsOK, JournalsGrow, Actions
<1>1. CASE UNCHANGED journals
  BY <1>0, <1>1
<1>2. CASE ~ UNCHANGED journals
  <2>1. CASE AppendIntent(r)
    <3>1. journals' = [journals EXCEPT ![r] = journals[r] \union {<<r, Now(r), "intent">>}] /\ step[r] > 0
      BY <1>2, <2>1 DEF AppendIntent, Recorded, Unrecorded, With
    <3> QED
      BY <1>0, <3>1, ActionsAre, RecordsGrow
  <2>2. CASE AppendResult(r)
    <3>1. journals' = [journals EXCEPT ![r] = journals[r] \union {<<r, Now(r), "after">>}] /\ phase[r] = "after"
      BY <1>2, <2>2 DEF AppendResult, Recorded, Unrecorded, With
    <3> QED
      BY <1>0, <3>1, ActionsAre, RecordsGrow DEF Placed
  <2>3. CASE EffectIntent(r) \/ EffectOutcome(r)
    <3>1. phase[r] \in {"effect-intent", "effect-outcome"}
      BY <2>3 DEF EffectIntent, EffectOutcome
    <3>2. \E k \in {"intent", "after"} :
            journals' = [journals EXCEPT ![bound] = journals[bound] \union {<<r, effect[r], k>>}]
      BY <1>2, <2>3 DEF EffectIntent, EffectOutcome, Recorded, Unrecorded, With, JournalIntent, ActiveJournal
    <3>3. bound \in Runs
      BY <1>0, <3>1 DEF Placed
    <3> QED
      BY <1>0, <3>2, <3>3, RecordsGrow
  <2>4. ~(OpenRun(r) \/ CallPort(r) \/ Prepare(r) \/ ReviewDelivery(r) \/ Effect(r))
    BY <1>2 DEF OpenRun, CallPort, Prepare, ReviewDelivery, Effect
  <2> QED
    BY <2>1, <2>2, <2>3, <2>4 DEF Go
<1> QED
  BY <1>1, <1>2

LEMMA OtherRun ==
  ASSUME RunsOK, NEW r \in Runs, NEW q \in Runs, q # r, OnlyControl(r), OnlyMarks(r), JournalsGrow,
         Running(q)
  PROVE  Running(q)'
<1>1. /\ step'[q] = step[q] /\ phase'[q] = phase[q] /\ effect'[q] = effect[q]
      /\ outcome'[q] = outcome[q] /\ runStatus'[q] = runStatus[q]
  BY DEF OnlyControl, RunsOK, With
<1>2. Placed(q)'
  BY <1>1 DEF Running, Placed, InEffect
<1>a. /\ q \in landed' <=> q \in landed
      /\ q \in worktrees' <=> q \in worktrees
  BY DEF OnlyMarks
<1>b. /\ \A e : <<q, e>> \in happened' <=> <<q, e>> \in happened
      /\ \A a : <<q, a>> \in refused' <=> <<q, a>> \in refused
  BY DEF OnlyMarks
<1>c. \A j \in Runs : \A x : x \in journals[j] => x \in journals'[j]
  BY DEF JournalsGrow
<1>3. Recording(q)'
  <2>1. \A m \in 1..8 : m < step[q] => /\ <<q, Steps[m], "after">> \in journals[q]
                                       /\ <<q, Steps[m]>> \notin refused
    BY DEF Running, Recording
  <2>2. \A m \in 1..8 : m < step'[q] => /\ <<q, Steps[m], "after">> \in journals'[q]
                                        /\ <<q, Steps[m]>> \notin refused'
    BY <1>1, <1>b, <1>c, <2>1
  <2> QED
    BY <2>2 DEF Recording
<1>4. \A e : Intended(q, e) => \E j \in Runs : <<q, e, "intent">> \in journals'[j]
  BY <1>c DEF Intended
<1>5. Covered(q)'
  <2>1. phase'[q] = "effect" => \E j \in Runs : <<q, effect'[q], "intent">> \in journals'[j]
    BY <1>1, <1>4 DEF Running, Covered
  <2>2. \A e \in Effects : <<q, e>> \in happened' =>
          step'[q] >= 5 /\ \E j \in Runs : <<q, e, "intent">> \in journals'[j]
    BY <1>1, <1>4, <1>b DEF Running, Covered
  <2> QED
    BY <2>1, <2>2 DEF Covered, Intended
<1>6. Delivering(q)'
  BY <1>1, <1>a DEF Running, Delivering, Unreviewed, InEffect
<1> QED
  BY <1>2, <1>3, <1>5, <1>6 DEF Running

LEMMA OwnRun ==
  ASSUME RunsOK, NEW r \in Runs, Running(r), Go(r), JournalsGrow
  PROVE  Running(r)'
BY RunRows, PlacedOwn, RecordingOwn, CoveredOwn, DeliveringOwn DEF Running, JournalsGrow

\* The values a step gives its run are of their types.
LEMMA ControlTyped ==
  ASSUME RunsOK, NEW r \in Runs, EarlyRow(r) \/ EffectRow(r), Placed(r)
  PROVE  /\ step'[r] \in 0..8 /\ phase'[r] \in Phases /\ effect'[r] \in Effects
         /\ outcome'[r] \in Outcomes /\ runStatus'[r] \in Outcomes \union {"none"}
<1>1. runStatus[r] \in Outcomes \union {"none"}
  BY DEF RunsOK
<1> USE Typed DEF Goes, Stops, Same, Phases, Effects, Outcomes, Undelivered, Uncertain
<1>2. CASE EarlyRow(r)
  BY <1>1, <1>2 DEF EarlyRow
<1>3. CASE EffectRow(r)
  BY <1>1, <1>3 DEF EffectRow, Failing
<1> QED
  BY <1>2, <1>3

LEMMA MarksTyped ==
  ASSUME RunsOK, NEW r \in Runs, Placed(r), Go(r)
  PROVE  /\ worktrees' \subseteq Runs /\ landed' \subseteq Runs
         /\ happened' \subseteq Runs \X Effects /\ refused' \subseteq Runs \X DocVader
         /\ faults' \in 0..MaxFaults
         /\ \A q \in Runs : step'[q] > 0 => bound' \in Runs
<1>1. UNCHANGED repository \/ Effect(r)
  BY DEF Go, OpenRun, AppendIntent, CallPort, Prepare, ReviewDelivery, EffectIntent, EffectOutcome,
         AppendResult
<1>2. worktrees' \subseteq Runs /\ landed' \subseteq Runs /\ happened' \subseteq Runs \X Effects
  <2>1. CASE UNCHANGED repository
    BY <2>1 DEF repository, RunsOK
  <2>2. CASE Effect(r) /\ ~ UNCHANGED repository
    <3>1. /\ happened' = happened \union {<<r, effect[r]>>}
          /\ worktrees' = CASE effect[r] = "item-worktree-create" -> worktrees \union {r}
                            [] effect[r] = "cleanup" -> worktrees \ {r}
                            [] OTHER -> worktrees
          /\ landed' = IF effect[r] = "cas-publication" THEN landed \union {r} ELSE landed
      BY <2>2 DEF Effect
    <3>2. worktrees' \subseteq worktrees \union {r}
      <4>1. CASE effect[r] = "item-worktree-create"
        BY <3>1, <4>1
      <4>2. CASE effect[r] = "cleanup"
        BY <3>1, <4>2
      <4>3. CASE effect[r] = "cas-publication"
        BY <3>1, <4>3
      <4> QED
        BY <4>1, <4>2, <4>3, Typed DEF Effects
    <3>3. landed' \subseteq landed \union {r}
      BY <3>1
    <3>4. happened' \subseteq Runs \X Effects
      BY <3>1, Typed DEF RunsOK
    <3> QED
      BY <3>2, <3>3, <3>4 DEF RunsOK
  <2> QED
    BY <1>1, <2>1, <2>2
<1>3. refused' \subseteq Runs \X DocVader
  <2>1. refused' = refused \/ (Now(r) \in DocVader /\ refused' = refused \union {<<r, Now(r)>>})
    BY DEF Go, OpenRun, AppendIntent, CallPort, Prepare, ReviewDelivery, EffectIntent, Effect,
           EffectOutcome, AppendResult
  <2> QED
    BY <2>1 DEF RunsOK
<1>4. faults' \in 0..MaxFaults
  <2>1. faults' = faults \/ Fault
    BY DEF Go, OpenRun, AppendIntent, CallPort, Prepare, ReviewDelivery, EffectIntent, Effect,
           EffectOutcome, AppendResult, Recorded, Unrecorded, JournalIntent
  <2> QED
    BY <2>1, FaultsAssumption DEF Fault, RunsOK
<1>5. \A q \in Runs : step'[q] > 0 => bound' \in Runs
  <2>1. bound' = r \/ (bound' = bound /\ (step'[r] = step[r] \/ step[r] > 0))
    <3>1. CASE OpenRun(r)
      BY <3>1 DEF OpenRun, Pause, Ends
    <3>2. CASE ~OpenRun(r)
      <4>1. bound' = bound /\ (phase[r] \notin {"intent", "over"} \/ step[r] > 0)
        BY <3>2 DEF Go, AppendIntent, CallPort, Prepare, ReviewDelivery, EffectIntent, Effect,
                    EffectOutcome, AppendResult
      <4> QED
        BY <4>1 DEF Placed
    <3> QED
      BY <3>1, <3>2
  <2>2. \A q \in Runs : q # r => step'[q] = step[q]
    BY ControlOnly DEF OnlyControl, With, RunsOK
  <2> QED
    BY <2>1, <2>2 DEF RunsOK
<1> QED
  BY <1>2, <1>3, <1>4, <1>5

LEMMA StepRuns == ASSUME RunInv, NEW r \in Runs, Go(r) PROVE RunInv'
<1>1. RunsOK /\ Running(r) /\ Placed(r)
  BY DEF RunInv, Running
<1>2. OnlyControl(r) /\ OnlyMarks(r) /\ JournalsGrow
  BY <1>1, ControlOnly, MarksOnly, GrowOnly
<1>3. \A q \in Runs : Running(q)'
  BY <1>1, <1>2, OwnRun, OtherRun DEF RunInv
<1>4. RunsOK'
  <2>1. /\ step'[r] \in 0..8 /\ phase'[r] \in Phases /\ effect'[r] \in Effects
        /\ outcome'[r] \in Outcomes /\ runStatus'[r] \in Outcomes \union {"none"}
    BY <1>1, RunRows, ControlTyped
  <2>2. /\ step' \in [Runs -> 0..8] /\ phase' \in [Runs -> Phases]
        /\ effect' \in [Runs -> Effects] /\ outcome' \in [Runs -> Outcomes]
        /\ runStatus' \in [Runs -> Outcomes \union {"none"}]
    BY <1>1, <1>2, <2>1, StepsAre DEF OnlyControl, With, RunsOK
  <2> QED
    BY <1>1, <1>2, <2>2, MarksTyped, StepsAre DEF RunsOK, JournalsGrow
<1> QED
  BY <1>3, <1>4 DEF RunInv

LEMMA InitRuns == RunInit => RunInv
<1> SUFFICES ASSUME RunInit PROVE RunInv
  OBVIOUS
<1>1. RunsOK
  BY FaultsAssumption, StepsAre DEF RunInit, RunsOK, Phases, Effects, Outcomes, Undelivered, Uncertain
<1>2. \A r \in Runs : Running(r)
  BY DEF RunInit, Running, Placed, InEffect, Recording, Covered, Delivering, Unreviewed
<1> QED
  BY <1>1, <1>2 DEF RunInv

LEMMA NextRuns == RunInv /\ [RunNext]_runVars => RunInv'
<1>1. CASE RunInv /\ RunNext
  BY <1>1, StepRuns DEF RunNext
<1>2. CASE RunInv /\ UNCHANGED runVars
  <2>1. /\ UNCHANGED <<step, phase, effect, outcome, runStatus>>
        /\ UNCHANGED <<bound, journals, worktrees, landed, happened, refused, faults>>
    BY <1>2 DEF runVars, control, repository
  <2>2. RunsOK'
    BY <1>2, <2>1 DEF RunInv, RunsOK
  <2>3. ASSUME NEW r \in Runs PROVE Running(r)'
    <3>1. Running(r)
      BY <1>2 DEF RunInv
    <3>2. Placed(r)' /\ Recording(r)'
      BY <2>1, <3>1 DEF Running, Placed, InEffect, Recording
    <3>3. Covered(r)'
      BY <2>1, <3>1 DEF Running, Covered, Intended
    <3>4. Delivering(r)'
      BY <2>1, <3>1 DEF Running, Delivering, Unreviewed, InEffect
    <3> QED
      BY <3>2, <3>3, <3>4 DEF Running
  <2> QED
    BY <2>2, <2>3 DEF RunInv
<1> QED
  BY <1>1, <1>2

LEMMA RunsCovered == RunInv => EffectsAreCovered
<1> SUFFICES ASSUME RunInv PROVE EffectsAreCovered
  OBVIOUS
<1>1. RunsOK
  BY DEF RunInv
<1>2. ASSUME NEW e \in happened
      PROVE  /\ e[1] \in Runs /\ e[2] \in Effects /\ e = <<e[1], e[2]>>
             /\ step[e[1]] >= 5 /\ Intended(e[1], e[2]) /\ Recording(e[1])
  <2>1. e[1] \in Runs /\ e[2] \in Effects /\ e = <<e[1], e[2]>>
    BY <1>1 DEF RunsOK
  <2> QED
    BY <2>1 DEF RunInv, Running, Covered
<1>3. FailsClosed
  <2> SUFFICES ASSUME NEW e \in happened
               PROVE  /\ \A a \in DocVader : <<e[1], a>> \notin refused
                      /\ \A a \in DocVader \union {"evidence-journal-created"} :
                           <<e[1], a, "after">> \in journals[e[1]]
    BY DEF FailsClosed
  <2>1. \A m \in 1..4 : /\ <<e[1], Steps[m], "after">> \in journals[e[1]]
                        /\ <<e[1], Steps[m]>> \notin refused
    <3>0. step[e[1]] \in 0..8
      BY <1>1, <1>2, Typed
    <3>1. \A m \in 1..4 : m \in 1..8 /\ m < step[e[1]]
      BY <1>2, <3>0
    <3> QED
      BY <1>2, <3>1 DEF Recording
  <2>2. /\ 1 \in 1..4 /\ 2 \in 1..4 /\ 3 \in 1..4 /\ 4 \in 1..4
    OBVIOUS
  <2> QED
    BY <2>1, <2>2, StepsAre DEF DocVader
<1>4. EffectsAreJournaled
  BY <1>2 DEF EffectsAreJournaled, Intended
<1> QED
  BY <1>1, <1>3, <1>4 DEF EffectsAreCovered

-----------------------------------------------------------------------------
(* Work items *)

IntakeSpec == IntakeInit /\ [][IntakeNext]_intakeVars

\* What the run of t selected from its listing.
WasSelected(t) ==
  /\ wanted[t] \in {AnyId, chosen[t]}
  /\ \E e \in ToSet(listed[t]) :
       /\ e.id = chosen[t] /\ Eligible(e.item)
       /\ wanted[t] = AnyId => \A f \in ToSet(listed[t]) : Eligible(f.item) => ~Before(f, e)
WasJudged(t) == judged[t].afk /\ ~judged[t].hitl /\ judged[t].deps # "open" /\ judged[t].status = "ready"

\* Beside what is to be shown: a run that goes on has an override it may use.
IntakeInv ==
  /\ DOMAIN stage = Takers /\ DOMAIN chosen = Takers /\ DOMAIN listed = Takers /\ DOMAIN judged = Takers
  /\ \A t \in Takers :
       /\ stage[t] \in Selecting => WasSelected(t)
       /\ stage[t] \in {"taken", "closed"} => WasJudged(t)
       /\ stage[t] \notin {"load", "paused"} => Loads
  /\ CommandsAreStructured /\ AnswersFitTheirSchema

-----------------------------------------------------------------------------
(* Commands and answers *)

\* Where a command of five or six words has the item it names and the option it ends with.
LEMMA FiveWords ==
  ASSUME NEW a, NEW b, NEW c, NEW d, NEW e
  PROVE  /\ 4 \in DOMAIN <<a, b, c, d, e>> /\ <<a, b, c, d, e>>[4] = d
         /\ 5 \in DOMAIN <<a, b, c, d, e>> /\ <<a, b, c, d, e>>[5] = e
OBVIOUS
LEMMA SixWords ==
  ASSUME NEW a, NEW b, NEW c, NEW d, NEW e, NEW f
  PROVE  /\ 4 \in DOMAIN <<a, b, c, d, e, f>> /\ <<a, b, c, d, e, f>>[4] = d
         /\ 6 \in DOMAIN <<a, b, c, d, e, f>> /\ <<a, b, c, d, e, f>>[6] = f
OBVIOUS

\* A built-in command asks for JSON and names its item.
LEMMA BuiltInIsStructured ==
  ASSUME NEW name \in {"ready", "show", "validate", "close"}
  PROVE  /\ \E k \in DOMAIN BuiltIn[name] : BuiltIn[name][k] = "--json"
         /\ name # "ready" => \E k \in DOMAIN BuiltIn[name] : BuiltIn[name][k] = "{workId}"
<1>1. CASE name = "ready"
  <2>1. BuiltIn[name] = <<"dv", "work", "ready", "--json">>
    BY <1>1 DEF BuiltIn
  <2>2. 4 \in DOMAIN BuiltIn[name] /\ BuiltIn[name][4] = "--json"
    BY <2>1
  <2> QED
    BY <1>1, <2>2
<1>2. CASE name = "show"
  <2> DEFINE words == <<"dv", "work", "show", "{workId}", "--json">>
  <2>1. BuiltIn[name] = words
    BY <1>2 DEF BuiltIn
  <2>2. 4 \in DOMAIN words /\ words[4] = "{workId}" /\ 5 \in DOMAIN words /\ words[5] = "--json"
    BY FiveWords, Zenon
  <2> HIDE DEF words
  <2> QED
    BY <2>1, <2>2
<1>3. CASE name = "validate"
  <2> DEFINE words == <<"dv", "work", "status", "{workId}", "--validate", "--json">>
  <2>1. BuiltIn[name] = words
    BY <1>3 DEF BuiltIn
  <2>2. 4 \in DOMAIN words /\ words[4] = "{workId}" /\ 6 \in DOMAIN words /\ words[6] = "--json"
    BY SixWords, Zenon
  <2> HIDE DEF words
  <2> QED
    BY <2>1, <2>2
<1>4. CASE name = "close"
  <2> DEFINE words == <<"dv", "work", "close", "{workId}", "--json">>
  <2>1. BuiltIn[name] = words
    BY <1>4 DEF BuiltIn
  <2>2. 4 \in DOMAIN words /\ words[4] = "{workId}" /\ 5 \in DOMAIN words /\ words[5] = "--json"
    BY FiveWords, Zenon
  <2> HIDE DEF words
  <2> QED
    BY <2>1, <2>2
<1> QED
  BY <1>1, <1>2, <1>3, <1>4

\* Whatever an override says, a command asks for JSON and names its item.
LEMMA ArgvIsStructured ==
  ASSUME Loads, NEW name \in DOMAIN BuiltIn, NEW id
  PROVE  /\ "--json" \in ToSet(Argv(name, id))
         /\ name # "ready" => id \in ToSet(Argv(name, id))
<1> DEFINE argv == IF override.file = "there" /\ name \in DOMAIN override.commands
                   THEN override.commands[name] ELSE BuiltIn[name]
<1>1. /\ \E k \in DOMAIN argv : argv[k] = "--json"
      /\ name # "ready" => \E k \in DOMAIN argv : argv[k] = "{workId}"
  <2>1. CASE override.file = "there" /\ name \in DOMAIN override.commands
    BY <2>1 DEF Loads, Compatible, ToSet
  <2>2. CASE ~(override.file = "there" /\ name \in DOMAIN override.commands)
    <3>1. name \in {"ready", "show", "validate", "close"}
      BY DEF BuiltIn
    <3>2. argv = BuiltIn[name]
      BY <2>2
    <3> QED
      BY <3>1, <3>2, BuiltInIsStructured
  <2> QED
    BY <2>1, <2>2
<1>2. Argv(name, id) = [k \in DOMAIN argv |-> IF argv[k] = "{workId}" THEN id ELSE argv[k]]
  BY DEF Argv
<1> HIDE DEF argv
<1>3. \E k \in DOMAIN argv : Argv(name, id)[k] = "--json"
  BY <1>1, <1>2
<1>4. name # "ready" => \E k \in DOMAIN argv : Argv(name, id)[k] = id
  BY <1>1, <1>2
<1> QED
  BY <1>2, <1>3, <1>4 DEF ToSet

\* A parsed answer has only shapes that its schema takes.
LEMMA ParsedFits ==
  ASSUME NEW a, Parsed(a), a.field # "none"
  PROVE  a.shape \in SchemaTakes[a.kind][a.field]
BY DEF Parsed, Takes

\* What is selected may be taken, is what was asked for, and nothing comes before it.
LEMMA SelectedIsFirst ==
  ASSUME NEW list, NEW id, NEW e \in Selected(list, id)
  PROVE  /\ e \in ToSet(list) /\ Eligible(e.item)
         /\ id # AnyId => e.id = id
         /\ id = AnyId => \A f \in ToSet(list) : Eligible(f.item) => ~Before(f, e)
BY DEF Selected, FirstEligible

-----------------------------------------------------------------------------
(* The invariant *)

LEMMA InitIntake == IntakeInit => IntakeInv
BY DEF IntakeInit, IntakeInv, Selecting, CommandsAreStructured, AnswersFitTheirSchema

\* A step that only moves the stage of t, and perhaps what is its own.
LEMMA Asking ==
  ASSUME IntakeInv, Loads, NEW name \in DOMAIN BuiltIn, NEW id, Asks(name, id), UNCHANGED override
  PROVE  CommandsAreStructured'
<1>1. asked' = asked \union {[name |-> name, id |-> id, argv |-> Argv(name, id)]}
  BY DEF Asks
<1> QED
  BY <1>1, ArgvIsStructured DEF IntakeInv, CommandsAreStructured

LEMMA Acting ==
  ASSUME IntakeInv, NEW a, Parsed(a), Acts(a)
  PROVE  AnswersFitTheirSchema'
BY ParsedFits DEF IntakeInv, AnswersFitTheirSchema, Acts

LEMMA LoadsStays == ASSUME UNCHANGED override PROVE Loads' = Loads
BY DEF Loads, Compatible, BuiltIn

LEMMA StepIntake ==
  ASSUME IntakeInv, NEW t \in Takers, IntakeStep(t)
  PROVE  IntakeInv'
<1> USE DEF IntakeInv, At, Becomes, Selecting, WasSelected, WasJudged
<1>0. {"ready", "show", "validate"} \subseteq DOMAIN BuiltIn
  BY DEF BuiltIn
<1>1. CASE Load(t)
  <2>1. Loads' = Loads /\ stage'[t] \in {"ready", "paused"} /\ (stage'[t] = "ready" => Loads)
    BY <1>1, LoadsStays DEF Load
  <2> QED
    BY <1>1, <2>1 DEF Load, CommandsAreStructured, AnswersFitTheirSchema
<1>2. CASE SelectReadyWork(t)
  <2>1. Loads' = Loads /\ Loads /\ stage[t] = "ready"
    BY <1>2, LoadsStays DEF SelectReadyWork
  <2>2. CommandsAreStructured'
    BY <1>0, <1>2, <2>1, Asking DEF SelectReadyWork
  <2>3. PICK l \in Listings, a \in Answers("ready") :
          LET list == [k \in DOMAIN l |-> [id |-> l[k], item |-> backlog[l[k]]]]
          IN \/ Pauses(t)
             \/ /\ Parsed(a) /\ \E e \in Selected(list, wanted[t]) : chosen' = [chosen EXCEPT ![t] = e.id]
                /\ listed' = [listed EXCEPT ![t] = list]
                /\ Becomes(t, "show") /\ Acts(a) /\ UNCHANGED judged
    BY <1>2 DEF SelectReadyWork
  <2>4. UNCHANGED <<backlog, override, wanted, edits>>
    BY <1>2 DEF SelectReadyWork
  <2>5. CASE Pauses(t)
    BY <2>1, <2>2, <2>4, <2>5 DEF Pauses, AnswersFitTheirSchema
  <2>6. CASE ~Pauses(t)
    <3> DEFINE list == [k \in DOMAIN l |-> [id |-> l[k], item |-> backlog[l[k]]]]
    <3>1. PICK e \in Selected(list, wanted[t]) : chosen' = [chosen EXCEPT ![t] = e.id]
      BY <2>3, <2>6
    <3>2. Parsed(a) /\ listed' = [listed EXCEPT ![t] = list] /\ Becomes(t, "show") /\ Acts(a) /\ UNCHANGED judged
      BY <2>3, <2>6
    <3> HIDE DEF list
    <3>3. /\ e \in ToSet(list) /\ Eligible(e.item)
          /\ wanted[t] # AnyId => e.id = wanted[t]
          /\ wanted[t] = AnyId => \A f \in ToSet(list) : Eligible(f.item) => ~Before(f, e)
      BY SelectedIsFirst
    <3>4. AnswersFitTheirSchema'
      BY <3>2, Acting
    <3>5. listed'[t] = list /\ chosen'[t] = e.id
      BY <3>1, <3>2
    <3>6. WasSelected(t)'
      BY <2>4, <3>3, <3>5
    <3> QED
      BY <2>1, <2>2, <2>4, <3>1, <3>2, <3>4, <3>6
  <2> QED
    BY <2>5, <2>6
<1>3. CASE ShowWork(t)
  <2>1. Loads' = Loads /\ Loads /\ stage[t] = "show"
    BY <1>3, LoadsStays DEF ShowWork
  <2>2. CommandsAreStructured'
    BY <1>0, <1>3, <2>1, Asking DEF ShowWork
  <2>3. PICK id \in Ids, a \in Answers("show") :
          \/ /\ Parsed(a) /\ Becomes(t, "validate") /\ Acts(a) /\ UNCHANGED <<chosen, listed, judged>>
          \/ Pauses(t)
    BY <1>3 DEF ShowWork
  <2>4. AnswersFitTheirSchema'
    BY <2>3, Acting DEF Pauses, AnswersFitTheirSchema
  <2> QED
    BY <1>3, <2>1, <2>2, <2>3, <2>4 DEF ShowWork, Pauses
<1>4. CASE ValidateReadyWork(t)
  <2>1. Loads' = Loads /\ Loads /\ stage[t] = "validate"
    BY <1>4, LoadsStays DEF ValidateReadyWork
  <2>2. CommandsAreStructured'
    BY <1>0, <1>4, <2>1, Asking DEF ValidateReadyWork
  <2>3. PICK id \in Ids, a \in Answers("validate") :
          \/ /\ Parsed(a) /\ StillReady(backlog[id]) /\ judged' = [judged EXCEPT ![t] = backlog[id]]
             /\ Becomes(t, "taken") /\ Acts(a) /\ UNCHANGED <<chosen, listed>>
          \/ Pauses(t)
    BY <1>4 DEF ValidateReadyWork
  <2>4. AnswersFitTheirSchema'
    BY <2>3, Acting DEF Pauses, AnswersFitTheirSchema
  <2> QED
    BY <1>4, <2>1, <2>2, <2>3, <2>4 DEF ValidateReadyWork, Pauses, StillReady
<1>5. CASE CloseWork(t)
  <2>1. Loads' = Loads /\ Loads /\ stage[t] = "taken"
    BY <1>5, LoadsStays DEF CloseWork
  <2>2. CommandsAreStructured'
    BY <1>5 DEF CloseWork, CommandsAreStructured
  <2>3. PICK id \in Ids, a \in Answers("close") :
          \/ /\ Parsed(a) /\ Becomes(t, "closed") /\ Acts(a) /\ UNCHANGED <<chosen, listed, judged>>
          \/ Pauses(t)
    BY <1>5 DEF CloseWork
  <2>4. AnswersFitTheirSchema'
    BY <2>3, Acting DEF Pauses, AnswersFitTheirSchema
  <2> QED
    BY <1>5, <2>1, <2>2, <2>3, <2>4 DEF CloseWork, Pauses
<1> QED
  BY <1>1, <1>2, <1>3, <1>4, <1>5 DEF IntakeStep

LEMMA NextIntake == IntakeInv /\ [IntakeNext]_intakeVars => IntakeInv'
<1> SUFFICES ASSUME IntakeInv, [IntakeNext]_intakeVars PROVE IntakeInv'
  OBVIOUS
<1>1. CASE Edit \/ UNCHANGED intakeVars
  <2>1. UNCHANGED <<override, stage, wanted, chosen, listed, judged, asked, used>>
    BY <1>1 DEF Edit, intakeVars
  <2>2. Loads' = Loads
    BY <2>1, LoadsStays
  <2> QED
    BY <2>1, <2>2 DEF IntakeInv, WasSelected, WasJudged, CommandsAreStructured, AnswersFitTheirSchema
<1>2. CASE \E t \in Takers : IntakeStep(t)
  BY <1>2, StepIntake
<1> QED
  BY <1>1, <1>2 DEF IntakeNext

-----------------------------------------------------------------------------
(* The theorems *)

\* What the whole blueprint does, its runs do, and so do those who take the work items.
LEMMA BlueprintRuns == Spec => RunSpec
<1>1. Init => RunInit
  BY DEF Init
<1>2. [Next]_vars => [RunNext]_runVars
  BY DEF Next, vars
<1> QED
  BY <1>1, <1>2, PTL DEF Spec, RunSpec

LEMMA BlueprintIntake == Spec => IntakeSpec
<1>1. Init => IntakeInit
  BY DEF Init
<1>2. [Next]_vars => [IntakeNext]_intakeVars
  BY DEF Next, vars
<1> QED
  BY <1>1, <1>2, PTL DEF Spec, IntakeSpec

\* However runs share the transaction, whatever fails: no effect on the repository is
\* without its run's validated item and without its intent in a journal (run, guarded and
\* withEvidenceGuard of afk-delivery-blueprint.js).
THEOREM EffectsCovered == Spec => []EffectsAreCovered
BY InitRuns, NextRuns, RunsCovered, BlueprintRuns, PTL DEF RunSpec

\* A run that says "delivered" has published and given up its worktree, one that says
\* "failed" has published nothing, for any number of runs and failures (the review and
\* delivery step, whose outcome run returns).
THEOREM StatusHonest == Spec => []StatusIsHonest
<1>1. RunInv => StatusIsHonest
  BY DEF RunInv, Running, Delivering, StatusIsHonest
<1> QED
  BY <1>1, InitRuns, NextRuns, BlueprintRuns, PTL DEF RunSpec

\* A run works on the right item, and on what Doc-Vader really said of it (selectReadyWork,
\* validateReadyWork, loadRepositoryOverride), for any number of runs and any backlog.
THEOREM IntakeIsVetted == Spec => []WorkIsVetted
<1>1. IntakeInv => WorkIsVetted
  BY DEF IntakeInv, WorkIsVetted, TakenWasReady, WasSelected, WasJudged
<1> QED
  BY <1>1, InitIntake, NextIntake, BlueprintIntake, PTL DEF IntakeSpec

-----------------------------------------------------------------------------
(* The review gate.                                                        *)

GateSpec == GateInit /\ [][GateNext]_gateVars

LEMMA BlueprintGate == Spec => GateSpec
<1>1. Init => GateInit
  BY DEF Init
<1>2. [Next]_vars => [GateNext]_gateVars
  BY DEF Next, vars
<1> QED
  BY <1>1, <1>2, PTL DEF Spec, GateSpec

\* What a call has behind it, by the port it awaits.
Refreshing == {"refreshed-acceptance", "refreshed-request", "refreshed-journal", "retry"}
Publishing == {"deliver", "refresh"} \union Refreshing
Closing == {"close", "commit"} \union Publishing
Reviewing == {"request", "journal"} \union Closing
Reworking == {"remediate", "post-remediation", "acceptance"}

Decisions == [call : Nat, verdict : Verdicts, context : Contexts, rev : Nat, base : Nat]

\* Beside the types: a revision stands for a rework or for findings that were requested.
GateTyped ==
  /\ pc \in Ports \union {"idle"} /\ status \in Statuses
  /\ cycles \in Cycles \union {0} /\ completed \in Nat
  /\ reviewers \subseteq Contexts /\ review \in Reviews \union {NoReview}
  /\ acceptance \in Acceptances /\ fingerprints \subseteq Findings
  /\ rev \in Nat \ {0} /\ target \in 1..MaxMoves + 1 /\ closed \in BOOLEAN
  /\ requested \in Seq(SUBSET Findings)
  /\ rev + (IF pc = "remediate" THEN 1 ELSE 0) <= 1 + reworks + Len(requested)
  /\ branch \in [rev : Revisions, closed : BOOLEAN]
  /\ {refreshed, published} \subseteq Candidates
  /\ log \in Seq(Decisions)
  /\ \A k \in 1..Len(log) : log[k].call \in 1..calls /\ log[k].rev \in Revisions /\ log[k].base \in 0..MaxMoves + 1
  /\ calls \in 0..MaxCalls /\ reworks \in 0..MaxReworks /\ (pc # "idle" => calls > 0)
  /\ authorized \subseteq Revisions /\ checked \subseteq Revisions \X Nat
  /\ doubt \in BOOLEAN
  /\ pc \in {"journal", "refreshed-journal"} => review \in Reviews

-----------------------------------------------------------------------------
(* Types *)

LEMMA Appended ==
  ASSUME NEW S, NEW s \in Seq(S), NEW x \in S
  PROVE  /\ Append(s, x) \in Seq(S) /\ Len(Append(s, x)) = Len(s) + 1 /\ Len(s) \in Nat
         /\ \A k \in 1..Len(s) : Append(s, x)[k] = s[k]
         /\ Append(s, x)[Len(s) + 1] = x
OBVIOUS

\* A decision that fits is journaled.
LEMMA LogGrows ==
  ASSUME log \in Seq(Decisions), NEW d \in Decisions, log' = Append(log, d), NEW F,
         \A k \in 1..Len(log) : log[k] \in F, d \in F
  PROVE  log' \in Seq(Decisions) /\ \A k \in 1..Len(log') : log'[k] \in F
<1>1. /\ log' \in Seq(Decisions) /\ Len(log') = Len(log) + 1 /\ Len(log) \in Nat
      /\ \A k \in 1..Len(log) : log'[k] = log[k]
      /\ log'[Len(log) + 1] = d
  BY Appended
<1>2. \A k \in 1..Len(log') : k \in 1..Len(log) \/ k = Len(log) + 1
  BY <1>1
<1> QED
  BY <1>1, <1>2

LEMMA Bounds == MaxCalls \in Nat /\ MaxReworks \in Nat /\ MaxMoves \in Nat
BY BoundsAssumption

LEMMA RevisionKnown == GateTyped => rev \in Revisions
<1> SUFFICES ASSUME GateTyped PROVE rev \in Revisions
  OBVIOUS
<1>1. Len(requested) \in Nat /\ rev \in Nat \ {0} /\ reworks \in 0..MaxReworks
  BY DEF GateTyped
<1>2. rev <= 1 + reworks + Len(requested)
  BY <1>1, Bounds DEF GateTyped
<1> QED
  BY <1>1, <1>2, Bounds DEF Revisions

\* A longer list of requests has all the revisions of a shorter one.
LEMMA RevisionsGrow ==
  ASSUME GateTyped, requested' \in Seq(SUBSET Findings), Len(requested) <= Len(requested')
  PROVE  /\ Revisions \subseteq Revisions' /\ Candidates \subseteq Candidates'
<1>1. Len(requested) \in Nat /\ Len(requested') \in Nat /\ rev \in Nat \ {0} /\ reworks \in 0..MaxReworks
  BY DEF GateTyped
<1>2. Revisions \subseteq Revisions'
  BY <1>1, Bounds DEF Revisions
<1> QED
  BY <1>2 DEF Candidates

LEMMA InitTyped == GateInit => GateTyped
<1> SUFFICES ASSUME GateInit PROVE GateTyped
  OBVIOUS
<1>1. requested = <<>> /\ Len(requested) = 0 /\ log = <<>> /\ Len(log) = 0
  BY DEF GateInit
<1>2. {0, 1} \subseteq Revisions
  BY <1>1, Bounds DEF Revisions
<1>3. Nothing \in Candidates /\ [rev |-> 0, closed |-> FALSE] \in [rev : Revisions, closed : BOOLEAN]
  BY <1>2, Bounds DEF Nothing, Candidates
<1>4. requested \in Seq(SUBSET Findings) /\ log \in Seq(Decisions)
  BY <1>1
<1>5. rev = 1 /\ reworks = 0 /\ pc = "idle" /\ target = 1 /\ calls = 0
  BY DEF GateInit
<1>6. rev + (IF pc = "remediate" THEN 1 ELSE 0) <= 1 + reworks + Len(requested)
  BY <1>1, <1>5
<1>7. /\ rev \in Nat \ {0} /\ target \in 1..MaxMoves + 1 /\ calls \in 0..MaxCalls /\ reworks \in 0..MaxReworks
  BY <1>5, Bounds
<1>8. /\ pc \in Ports \union {"idle"} /\ status \in Statuses /\ (pc # "idle" => calls > 0)
      /\ pc \in {"journal", "refreshed-journal"} => review \in Reviews
  BY DEF GateInit, Statuses
<1>9. /\ cycles \in Cycles \union {0} /\ completed \in Nat /\ reviewers \subseteq Contexts /\ review \in Reviews \union {NoReview}
      /\ acceptance \in Acceptances /\ fingerprints \subseteq Findings /\ closed \in BOOLEAN
      /\ authorized \subseteq Revisions /\ checked \subseteq Revisions \X Nat /\ doubt \in BOOLEAN
  BY DEF GateInit
<1>10. branch \in [rev : Revisions, closed : BOOLEAN] /\ {refreshed, published} \subseteq Candidates
  BY <1>3 DEF GateInit
<1> QED
  BY <1>1, <1>4, <1>6, <1>7, <1>8, <1>9, <1>10 DEF GateTyped

\* A step of a call that goes on elsewhere or returns, and leaves what the types relate.
LEMMA Quiet ==
  ASSUME GateTyped, pc' \in (Ports \ {"remediate", "journal", "refreshed-journal"}) \union {"idle"}, status' \in Statuses,
         pc # "idle" \/ pc' = "idle",
         UNCHANGED <<cycles, review, fingerprints, acceptance, rev, target, requested, log, calls, reworks>>,
         completed' \in Nat, reviewers' \subseteq Contexts, closed' \in BOOLEAN, doubt' \in BOOLEAN,
         branch' \in [rev : Revisions, closed : BOOLEAN], {refreshed', published'} \subseteq Candidates,
         authorized' \subseteq Revisions, checked' \subseteq Revisions \X Nat
  PROVE  GateTyped'
<1>1. Revisions' = Revisions /\ Candidates' = Candidates
  BY DEF Revisions, Candidates
<1>2. Len(requested) \in Nat /\ rev \in Nat /\ reworks \in Nat
  BY Bounds DEF GateTyped
<1>3. rev' + (IF pc' = "remediate" THEN 1 ELSE 0) <= 1 + reworks' + Len(requested')
  BY <1>2 DEF GateTyped
<1> QED
  BY <1>1, <1>3 DEF GateTyped

LEMMA NextTyped == GateTyped /\ [GateNext]_gateVars => GateTyped'
<1> SUFFICES ASSUME GateTyped, [GateNext]_gateVars PROVE GateTyped'
  OBVIOUS
<1> USE Bounds
<1>0. /\ rev \in Revisions /\ Len(requested) \in Nat /\ Len(log) \in Nat
      /\ acceptance' = acceptance
  <2>1. Len(requested) \in Nat /\ Len(log) \in Nat
    BY DEF GateTyped
  <2>2. acceptance' = acceptance
    BY DEF GateNext, gateVars
  <2> QED
    BY <2>1, <2>2, RevisionKnown
<1>1. ASSUME NEW c \in Cycles, Call(c) PROVE GateTyped'
  <2>1. Revisions' = Revisions /\ Candidates' = Candidates
    BY <1>1 DEF Revisions, Candidates, Call, seen
  <2>2. /\ pc = "idle" /\ pc' = "initial" /\ calls' = calls + 1 /\ calls < MaxCalls /\ calls \in Nat
        /\ UNCHANGED <<status, review, fingerprints, rev, target, closed, branch, refreshed, published, log, reworks, authorized,
                       checked, requested, doubt>>
        /\ completed' = 0 /\ reviewers' = {} /\ cycles' = c
    BY <1>1 DEF Call, Await, item, seen, GateTyped
  <2> QED
    BY <1>0, <1>1, <2>1, <2>2 DEF GateTyped, Ports
<1>2. CASE RefuseCall
  <2>1. Revisions' = Revisions /\ Candidates' = Candidates
    BY <1>2 DEF Revisions, Candidates, RefuseCall, seen
  <2>2. /\ pc = "idle" /\ pc' = "idle" /\ status' = "paused" /\ calls' = calls + 1 /\ calls < MaxCalls /\ calls \in Nat
        /\ UNCHANGED <<cycles, completed, reviewers, review, fingerprints, rev, target, closed, branch, refreshed, published,
                       log, reworks, authorized, checked, requested, doubt>>
    BY <1>2 DEF RefuseCall, Return, item, seen, GateTyped
  <2> QED
    BY <1>0, <2>1, <2>2 DEF GateTyped, Statuses
<1>3. CASE AuthorizeChangedPaths
  <2>1. /\ UNCHANGED <<cycles, completed, reviewers, review, fingerprints, rev, target, closed, branch, refreshed, published,
                       log, calls, reworks, checked, requested, doubt>>
        /\ pc # "idle" /\ pc' \in {"request", "acceptance", "idle"} /\ status' \in Statuses
        /\ authorized' \subseteq Revisions
    BY <1>0, <1>3 DEF AuthorizeChangedPaths, Await, Return, item, GateTyped, Statuses
  <2> QED
    BY <1>0, <2>1, Quiet DEF GateTyped, Ports
<1>4. CASE RequestReview
  <2>1. /\ UNCHANGED <<cycles, completed, fingerprints, rev, target, closed, branch, refreshed, published, log, calls, reworks,
                       authorized, checked, requested>>
        /\ pc = "request" /\ doubt' \in BOOLEAN /\ status' \in Statuses
    BY <1>4 DEF RequestReview, item, Throws, PostEffectPaused, Await, Return, GateTyped, Statuses
  <2>2. CASE pc' = "journal"
    <3>1. PICK r \in Reviews : review' = r /\ reviewers' = reviewers \union {r.context}
      BY <1>4, <2>2 DEF RequestReview, Throws, PostEffectPaused, Return
    <3>2. r.context \in Contexts
      BY DEF Reviews
    <3>3. Revisions' = Revisions /\ Candidates' = Candidates
      BY <2>1 DEF Revisions, Candidates
    <3> QED
      BY <1>0, <2>1, <2>2, <3>1, <3>2, <3>3 DEF GateTyped, Ports
  <2>3. CASE pc' # "journal"
    <3>1. pc' = "idle" /\ UNCHANGED <<review, reviewers>>
      BY <1>4, <2>3 DEF RequestReview, Throws, PostEffectPaused, Await, Return
    <3> QED
      BY <1>0, <2>1, <3>1, Quiet DEF GateTyped
  <2> QED
    BY <2>2, <2>3
<1>5. CASE JournalDecision
  <2>1. /\ UNCHANGED <<cycles, completed, reviewers, review, rev, target, closed, branch, refreshed, published, calls, reworks,
                       authorized, checked>>
        /\ pc = "journal" /\ pc' \in {"idle", "close", "remediate"} /\ doubt' \in BOOLEAN /\ status' \in Statuses
        /\ review \in Reviews
    BY <1>5 DEF JournalDecision, item, PostEffectPaused, Await, Return, GateTyped, Statuses
  <2>2. review.context \in Contexts /\ review.verdict \in Verdicts /\ review.findings \subseteq Findings
    BY <2>1 DEF Reviews, Verdicts
  <2>3. fingerprints' \subseteq Findings
    BY <1>5, <2>2 DEF JournalDecision, GateTyped
  <2>4. Decision(0) \in Decisions /\ Decision(0).call = calls /\ Decision(0).rev = rev /\ Decision(0).base = 0
    BY <1>0, <2>2 DEF Decision, Decisions, GateTyped
  <2>5. UNCHANGED log \/ log' = Append(log, Decision(0))
    BY <1>5 DEF JournalDecision
  <2>6. \/ (requested' = requested /\ pc' # "remediate")
        \/ requested' = Append(requested, review.findings)
    BY <1>5 DEF JournalDecision, Request, PostEffectPaused, Await, Return
  <2>7. /\ requested' \in Seq(SUBSET Findings)
        /\ (Len(requested') = Len(requested) /\ pc' # "remediate") \/ Len(requested') = Len(requested) + 1
    <3>1. requested \in Seq(SUBSET Findings) /\ review.findings \in SUBSET Findings
      BY <2>2 DEF GateTyped
    <3>2. Append(requested, review.findings) \in Seq(SUBSET Findings) /\ Len(Append(requested, review.findings)) = Len(requested) + 1
      BY <3>1
    <3> QED
      BY <2>6, <3>1, <3>2
  <2>8. Revisions \subseteq Revisions' /\ Candidates \subseteq Candidates'
    BY <1>0, <2>7, RevisionsGrow
  <2>9. /\ log' \in Seq(Decisions)
        /\ \A k \in 1..Len(log') : log'[k].call \in 1..calls /\ log'[k].rev \in Revisions /\ log'[k].base \in 0..MaxMoves + 1
    <3>1. CASE UNCHANGED log
      BY <3>1 DEF GateTyped
    <3>2. CASE log' = Append(log, Decision(0))
      <4> DEFINE F == {x \in Decisions : x.call \in 1..calls /\ x.rev \in Revisions /\ x.base \in 0..MaxMoves + 1}
                 d == Decision(0)
      <4>1. calls \in 1..calls /\ 0 \in 0..MaxMoves + 1 /\ log \in Seq(Decisions) /\ rev \in Revisions
        BY <1>0, <2>1 DEF GateTyped
      <4>2. d \in Decisions /\ d \in F /\ log' = Append(log, d)
        BY <2>4, <3>2, <4>1
      <4>3. \A k \in 1..Len(log) : log[k] \in F
        BY <4>1 DEF GateTyped
      <4> HIDE DEF d, F
      <4>4. log' \in Seq(Decisions) /\ \A k \in 1..Len(log') : log'[k] \in F
        BY <4>1, <4>2, <4>3, LogGrows
      <4> QED
        BY <4>4 DEF F
    <3> QED
      BY <2>5, <3>1, <3>2
  <2>10. rev' + (IF pc' = "remediate" THEN 1 ELSE 0) <= 1 + reworks' + Len(requested')
    BY <1>0, <2>1, <2>7 DEF GateTyped
  <2> QED
    BY <1>0, <2>1, <2>3, <2>7, <2>8, <2>9, <2>10 DEF GateTyped, Ports
<1>6. CASE Remediate
  <2>1. /\ UNCHANGED <<cycles, completed, reviewers, review, fingerprints, target, closed, branch, refreshed, published, log,
                       calls, reworks, authorized, checked, requested>>
        /\ pc = "remediate" /\ pc' \in {"idle", "post-remediation"} /\ doubt' \in BOOLEAN /\ status' \in Statuses
        /\ rev' \in {rev, rev + 1}
    BY <1>6 DEF Remediate, Throws, PostEffectPaused, Await, Return, GateTyped, Statuses
  <2>2. Revisions' = Revisions /\ Candidates' = Candidates
    BY <2>1 DEF Revisions, Candidates
  <2>3. rev' \in Nat \ {0} /\ rev' + (IF pc' = "remediate" THEN 1 ELSE 0) <= 1 + reworks' + Len(requested')
    BY <1>0, <2>1 DEF GateTyped
  <2> QED
    BY <1>0, <2>1, <2>2, <2>3 DEF GateTyped, Ports
<1>7. CASE AffectedAcceptance
  <2>1. /\ UNCHANGED <<cycles, reviewers, review, fingerprints, rev, target, closed, branch, refreshed, published, log, calls,
                       reworks, authorized, requested>>
        /\ pc = "acceptance" /\ pc' \in {"idle", "request"} /\ doubt' \in BOOLEAN /\ status' \in Statuses
        /\ completed' \in {completed, completed + 1} /\ checked' \in {checked, checked \union {<<rev, 0>>}}
    BY <1>7 DEF AffectedAcceptance, NextReview, item, Throws, PostEffectPaused, Await, Return, GateTyped, Statuses
  <2>2. completed' \in Nat /\ checked' \subseteq Revisions \X Nat
    BY <1>0, <2>1 DEF GateTyped
  <2> QED
    BY <1>0, <2>1, <2>2, Quiet DEF GateTyped, Ports
<1>8. CASE Close
  <2>1. /\ UNCHANGED <<cycles, completed, reviewers, review, fingerprints, rev, target, branch, refreshed, published, log, calls,
                       reworks, authorized, checked, requested>>
        /\ pc = "close" /\ pc' \in {"idle", "commit"} /\ doubt' \in BOOLEAN /\ status' \in Statuses /\ closed' \in BOOLEAN
    BY <1>8 DEF Close, Throws, PostEffectPaused, Await, Return, GateTyped, Statuses
  <2> QED
    BY <1>0, <2>1, Quiet DEF GateTyped, Ports
<1>9. CASE CommitClosure
  <2>1. /\ UNCHANGED <<cycles, completed, reviewers, review, fingerprints, rev, target, closed, refreshed, published, log, calls,
                       reworks, authorized, checked, requested>>
        /\ pc = "commit" /\ pc' \in {"idle", "deliver"} /\ doubt' \in BOOLEAN /\ status' \in Statuses
        /\ branch' \in {branch, [rev |-> rev, closed |-> closed]}
    BY <1>9 DEF CommitClosure, Throws, PostEffectPaused, Await, Return, GateTyped, Statuses
  <2>2. branch' \in [rev : Revisions, closed : BOOLEAN]
    BY <1>0, <2>1 DEF GateTyped
  <2> QED
    BY <1>0, <2>1, <2>2, Quiet DEF GateTyped, Ports
<1>10. Candidate(target) \in Candidates
  BY DEF Candidate, Candidates, GateTyped
<1>11. CASE Deliver
  <2>1. /\ UNCHANGED <<cycles, completed, reviewers, review, fingerprints, rev, closed, branch, refreshed, log, calls, reworks,
                       authorized, checked, requested>>
        /\ pc = "deliver"
    BY <1>11 DEF Deliver
  <2>2. pc' \in {"idle", "refresh"}
    BY <1>11 DEF Deliver, Publishes, Answer, Throws, PostEffectPaused, Await, Return
  <2>3. status' \in Statuses
    <3>1. status \in Statuses /\ Unpublished \subseteq Statuses
      BY DEF GateTyped, Statuses
    <3>2. {"paused", "paused-after-side-effect", "delivered", "published-uncertain"} \subseteq Statuses
      BY DEF Statuses
    <3>3. CASE Publishes(Candidate(target))
      <4>1. status' \in {"paused", "paused-after-side-effect", "delivered", "published-uncertain"}
        BY <3>3 DEF Publishes, Throws, PostEffectPaused, Return
      <4> QED
        BY <3>2, <4>1
    <3>4. CASE \E r \in Unpublished : Answer(r)
      BY <3>1, <3>4 DEF Answer, Return
    <3>5. CASE Await("refresh") \/ Return("paused")
      BY <3>1, <3>2, <3>5 DEF Await, Return
    <3>6. CASE Throws(FALSE, TRUE)
      <4>1. status' = "paused"
        BY <3>6 DEF Throws, PostEffectPaused, Return
      <4> QED
        BY <3>2, <4>1
    <3> QED
      BY <1>11, <3>3, <3>4, <3>5, <3>6 DEF Deliver
  <2>4. doubt' \in BOOLEAN
    <3>1. UNCHANGED doubt \/ doubt' = TRUE
      BY <1>11, Zenon DEF Deliver, Publishes, Throws
    <3>2. doubt \in BOOLEAN
      BY DEF GateTyped
    <3> QED
      BY <3>1, <3>2
  <2>5. published' = published \/ published' = Candidate(target)
    BY <1>11, Zenon DEF Deliver, Publishes
  <2>6. target' \in 1..MaxMoves + 1
    <3>1. UNCHANGED target \/ (target < MaxMoves /\ target' = target + 1)
      BY <1>11, Zenon DEF Deliver
    <3> QED
      BY <3>1 DEF GateTyped
  <2>7. Revisions' = Revisions /\ Candidates' = Candidates
    BY <2>1 DEF Revisions, Candidates
  <2>8. rev' + (IF pc' = "remediate" THEN 1 ELSE 0) <= 1 + reworks' + Len(requested')
    BY <1>0, <2>1, <2>2 DEF GateTyped
  <2> QED
    BY <1>0, <1>10, <2>1, <2>2, <2>3, <2>4, <2>5, <2>6, <2>7, <2>8 DEF GateTyped, Ports
<1>12. CASE RefreshStale
  <2>1. /\ UNCHANGED <<cycles, completed, reviewers, review, fingerprints, rev, target, closed, branch, published, log, calls,
                       reworks, authorized, checked, requested>>
        /\ pc = "refresh" /\ pc' \in {"idle", "refreshed-acceptance"} /\ doubt' \in BOOLEAN /\ status' \in Statuses
        /\ refreshed' \in {refreshed, Candidate(target)}
    BY <1>12 DEF RefreshStale, Throws, PostEffectPaused, Await, Return, GateTyped, Statuses
  <2> QED
    BY <1>0, <1>10, <2>1, Quiet DEF GateTyped, Ports
<1>13. CASE AcceptRefreshed
  <2>1. /\ UNCHANGED <<cycles, completed, reviewers, review, fingerprints, rev, target, closed, branch, refreshed, published, log,
                       calls, reworks, authorized, requested>>
        /\ pc = "refreshed-acceptance" /\ pc' \in {"idle", "refreshed-request"} /\ doubt' \in BOOLEAN /\ status' \in Statuses
        /\ checked' \in {checked, checked \union {<<refreshed.rev, refreshed.base>>}}
    BY <1>13 DEF AcceptRefreshed, item, Throws, PostEffectPaused, Await, Return, GateTyped, Statuses
  <2>2. refreshed.rev \in Revisions /\ refreshed.base \in Nat
    BY DEF Candidates, GateTyped
  <2>3. checked' \subseteq Revisions \X Nat
    BY <2>1, <2>2 DEF GateTyped
  <2> QED
    BY <1>0, <2>1, <2>3, Quiet DEF GateTyped, Ports
<1>14. CASE RereviewRefreshed
  <2>1. /\ UNCHANGED <<cycles, completed, fingerprints, rev, target, closed, branch, refreshed, published, log, calls, reworks,
                       authorized, checked, requested>>
        /\ pc = "refreshed-request" /\ doubt' \in BOOLEAN /\ status' \in Statuses
    BY <1>14 DEF RereviewRefreshed, item, Throws, PostEffectPaused, Await, Return, GateTyped, Statuses
  <2>2. CASE pc' = "refreshed-journal"
    <3>1. PICK r \in Reviews : review' = r /\ reviewers' = reviewers \union {r.context}
      BY <1>14, <2>2 DEF RereviewRefreshed, Throws, PostEffectPaused, Return
    <3>2. r.context \in Contexts
      BY DEF Reviews
    <3>3. Revisions' = Revisions /\ Candidates' = Candidates
      BY <2>1 DEF Revisions, Candidates
    <3> QED
      BY <1>0, <2>1, <2>2, <3>1, <3>2, <3>3 DEF GateTyped, Ports
  <2>3. CASE pc' # "refreshed-journal"
    <3>1. pc' = "idle" /\ UNCHANGED <<review, reviewers>>
      BY <1>14, <2>3 DEF RereviewRefreshed, Throws, PostEffectPaused, Await, Return
    <3> QED
      BY <1>0, <2>1, <3>1, Quiet DEF GateTyped
  <2> QED
    BY <2>2, <2>3
<1>15. CASE JournalRereview
  <2>1. /\ UNCHANGED <<cycles, completed, reviewers, review, fingerprints, rev, target, closed, branch, refreshed, published,
                       calls, reworks, authorized, checked, requested>>
        /\ pc = "refreshed-journal" /\ pc' \in {"idle", "retry"} /\ doubt' \in BOOLEAN /\ status' \in Statuses
        /\ review \in Reviews
        /\ UNCHANGED log \/ log' = Append(log, Decision(refreshed.base))
    BY <1>15 DEF JournalRereview, item, PostEffectPaused, Await, Return, GateTyped, Statuses
  <2>2. review.context \in Contexts /\ review.verdict \in Verdicts
    BY <2>1 DEF Reviews, Verdicts
  <2>3. refreshed.base \in 0..MaxMoves + 1
    BY DEF Candidates, GateTyped
  <2>4. /\ Decision(refreshed.base) \in Decisions /\ Decision(refreshed.base).call = calls
        /\ Decision(refreshed.base).rev = rev /\ Decision(refreshed.base).base = refreshed.base
    BY <1>0, <2>2, <2>3 DEF Decision, Decisions, GateTyped
  <2>5. /\ log' \in Seq(Decisions)
        /\ \A k \in 1..Len(log') : log'[k].call \in 1..calls /\ log'[k].rev \in Revisions /\ log'[k].base \in 0..MaxMoves + 1
    <3>1. CASE UNCHANGED log
      BY <3>1 DEF GateTyped
    <3>2. CASE log' = Append(log, Decision(refreshed.base))
      <4> DEFINE d == Decision(refreshed.base)
                 F == {x \in Decisions : x.call \in 1..calls /\ x.rev \in Revisions /\ x.base \in 0..MaxMoves + 1}
      <4>1. calls \in 1..calls /\ log \in Seq(Decisions) /\ rev \in Revisions
        BY <1>0, <2>1 DEF GateTyped
      <4>2. d \in Decisions /\ d \in F /\ log' = Append(log, d)
        BY <2>3, <2>4, <3>2, <4>1
      <4>3. \A k \in 1..Len(log) : log[k] \in F
        BY <4>1 DEF GateTyped
      <4> HIDE DEF d, F
      <4>4. log' \in Seq(Decisions) /\ \A k \in 1..Len(log') : log'[k] \in F
        BY <4>1, <4>2, <4>3, LogGrows
      <4> QED
        BY <4>4 DEF F
    <3> QED
      BY <2>1, <3>1, <3>2
  <2>6. Revisions' = Revisions /\ Candidates' = Candidates
    BY <2>1 DEF Revisions, Candidates
  <2>7. rev' + (IF pc' = "remediate" THEN 1 ELSE 0) <= 1 + reworks' + Len(requested')
    BY <1>0, <2>1 DEF GateTyped
  <2> QED
    BY <1>0, <2>1, <2>5, <2>6, <2>7 DEF GateTyped, Ports
<1>16. CASE RetryStale
  <2>1. /\ UNCHANGED <<cycles, completed, reviewers, review, fingerprints, rev, target, closed, branch, refreshed, log, calls,
                       reworks, authorized, checked, requested>>
        /\ pc = "retry" /\ pc' = "idle" /\ doubt' \in BOOLEAN /\ status' \in Statuses
        /\ published' \in {published, refreshed}
    BY <1>16 DEF RetryStale, Publishes, Unpublished, Throws, PostEffectPaused, Return, GateTyped, Statuses
  <2> QED
    BY <1>0, <2>1, Quiet DEF GateTyped
<1>17. CASE Rework
  <2>1. /\ pc = "idle" /\ rev' = rev + 1 /\ reworks < MaxReworks /\ reworks' = reworks + 1
        /\ UNCHANGED <<pc, status, cycles, completed, reviewers, review, fingerprints, target, closed, branch, refreshed,
                       published, log, calls, authorized, checked, requested, doubt>>
    BY <1>17 DEF Rework, call, seen
  <2>2. Revisions' = Revisions /\ Candidates' = Candidates
    BY <2>1 DEF Revisions, Candidates
  <2>3. /\ rev' \in Nat \ {0} /\ reworks' \in 0..MaxReworks
        /\ rev' + (IF pc' = "remediate" THEN 1 ELSE 0) <= 1 + reworks' + Len(requested')
    <3> DEFINE n == Len(requested)
    <3>1. rev \in Nat \ {0} /\ reworks \in Nat /\ rev <= 1 + reworks + n /\ n \in Nat
      BY <1>0, <2>1 DEF GateTyped
    <3>2. Len(requested') = n /\ pc' # "remediate"
      BY <2>1
    <3> HIDE DEF n
    <3>3. rev' \in Nat \ {0} /\ reworks' \in 0..MaxReworks /\ rev' <= 1 + reworks' + n
      BY <2>1, <3>1
    <3> QED
      BY <3>2, <3>3
  <2>4. /\ pc' = "idle" /\ status' \in Statuses /\ cycles' \in Cycles \union {0} /\ completed' \in Nat
        /\ reviewers' \subseteq Contexts /\ review' \in Reviews \union {NoReview}
        /\ acceptance' \in Acceptances /\ fingerprints' \subseteq Findings
        /\ target' \in 1..MaxMoves + 1 /\ closed' \in BOOLEAN /\ requested' \in Seq(SUBSET Findings)
        /\ calls' \in 0..MaxCalls /\ doubt' \in BOOLEAN
    BY <1>0, <2>1 DEF GateTyped
  <2>5. /\ branch' \in [rev : Revisions', closed : BOOLEAN] /\ {refreshed', published'} \subseteq Candidates'
        /\ authorized' \subseteq Revisions' /\ checked' \subseteq Revisions' \X Nat
    BY <2>1, <2>2 DEF GateTyped
  <2>6. /\ log' \in Seq(Decisions)
        /\ \A k \in 1..Len(log') : log'[k].call \in 1..calls' /\ log'[k].rev \in Revisions' /\ log'[k].base \in 0..MaxMoves + 1
    BY <2>1, <2>2 DEF GateTyped
  <2> QED
    BY <2>3, <2>4, <2>5, <2>6 DEF GateTyped
<1>18. CASE MoveTarget
  <2>1. /\ target < MaxMoves /\ target' = target + 1
        /\ UNCHANGED <<pc, status, cycles, completed, reviewers, review, fingerprints, rev, closed, branch, refreshed, published,
                       log, calls, reworks, authorized, checked, requested, doubt>>
    BY <1>18 DEF MoveTarget, call, seen
  <2>2. Revisions' = Revisions /\ Candidates' = Candidates
    BY <2>1 DEF Revisions, Candidates
  <2>3. target' \in 1..MaxMoves + 1
    BY <2>1 DEF GateTyped
  <2> QED
    BY <1>0, <2>1, <2>2, <2>3 DEF GateTyped
<1>19. CASE UNCHANGED gateVars
  <2>1. UNCHANGED <<pc, status, cycles, completed, reviewers, review, acceptance, fingerprints, rev, target, closed, branch,
                    refreshed, published, log, calls, reworks, authorized, checked, requested, doubt>>
    BY <1>19 DEF gateVars, call, item, seen
  <2>2. Revisions' = Revisions /\ Candidates' = Candidates
    BY <2>1 DEF Revisions, Candidates
  <2> QED
    BY <2>1, <2>2 DEF GateTyped
<1> QED
  BY <1>1, <1>2, <1>3, <1>4, <1>5, <1>6, <1>7, <1>8, <1>9, <1>11, <1>12, <1>13, <1>14, <1>15, <1>16, <1>17, <1>18, <1>19
  DEF GateNext, Gate, Recovery

\* Every variable of the gate stays in its type, and revisions, targets and calls within their
\* bounds (review, recoverStaleDelivery).
THEOREM GateIsTyped == Spec => []GateTyped
BY InitTyped, NextTyped, BlueprintGate, PTL DEF GateSpec

-----------------------------------------------------------------------------
(* What passes the gate *)

\* The record of an approval, of this call and this revision, on the given base.
ApprovedOn(base) ==
  \E k \in 1..Len(log) :
    log[k].call = calls /\ log[k].verdict = "approved" /\ log[k].rev = rev /\ log[k].base = base

PassInv ==
  /\ pc = "initial" => completed = 0
  /\ pc \in Reviewing \union {"acceptance"} => rev \in authorized
  /\ pc \in Reviewing /\ completed > 0 => <<rev, 0>> \in checked
  /\ pc \in Closing => ApprovedOn(0)
  /\ pc \in Publishing \union {"commit"} => closed = TRUE
  /\ pc \in Publishing => branch = [rev |-> rev, closed |-> TRUE]
  /\ pc \in Refreshing => refreshed.rev = rev /\ refreshed.closed = TRUE /\ refreshed.base > 0
  /\ pc \in Refreshing \ {"refreshed-acceptance"} => <<rev, refreshed.base>> \in checked
  /\ pc = "refreshed-journal" => review.verdict = "approved"
  /\ pc = "retry" => ApprovedOn(refreshed.base)

LEMMA InitPass == GateInit => PassInv
BY DEF GateInit, PassInv, Reviewing, Closing, Publishing, Refreshing

LEMMA IdlePass == pc' = "idle" => PassInv'
BY DEF PassInv, Reviewing, Closing, Publishing, Refreshing

\* What is journaled is the decision on the revision there is.
LEMMA Journaled ==
  ASSUME GateTyped, NEW base \in Nat, review \in Reviews, review.verdict = "approved",
         log' = Append(log, Decision(base)), UNCHANGED <<calls, rev>>
  PROVE  ApprovedOn(base)' /\ \A b : ApprovedOn(b) => ApprovedOn(b)'
<1> DEFINE d == Decision(base)
<1>1. d.call = calls /\ d.verdict = "approved" /\ d.rev = rev /\ d.base = base
  BY DEF Decision
<1>2. d \in Decisions
  <2>1. calls \in Nat /\ rev \in Nat
    BY Bounds DEF GateTyped
  <2>2. review.context \in Contexts /\ review.verdict \in Verdicts
    BY DEF Reviews, Verdicts
  <2> QED
    BY <2>1, <2>2 DEF Decision, Decisions
<1>3. log \in Seq(Decisions) /\ log' = Append(log, d)
  BY DEF GateTyped
<1> HIDE DEF d
<1>4. Len(log') = Len(log) + 1 /\ Len(log) \in Nat /\ log'[Len(log) + 1] = d /\ \A k \in 1..Len(log) : log'[k] = log[k]
  BY <1>2, <1>3
<1>5. Len(log) + 1 \in 1..Len(log') /\ 1..Len(log) \subseteq 1..Len(log')
  BY <1>4
<1>6. ApprovedOn(base)'
  BY <1>1, <1>4, <1>5 DEF ApprovedOn
<1>7. ASSUME NEW b, ApprovedOn(b) PROVE ApprovedOn(b)'
  BY <1>4, <1>5, <1>7 DEF ApprovedOn
<1> QED
  BY <1>6, <1>7

LEMMA NextPass == GateTyped /\ PassInv /\ [GateNext]_gateVars => PassInv'
<1> SUFFICES ASSUME GateTyped, PassInv, [GateNext]_gateVars, pc' # "idle" PROVE PassInv'
  BY IdlePass
<1> USE DEF Reviewing, Closing, Publishing, Refreshing
<1>1. ASSUME NEW c \in Cycles, Call(c) PROVE PassInv'
  BY <1>1 DEF Call, Await, PassInv
<1>2. CASE RefuseCall
  BY <1>2 DEF RefuseCall, Return
<1>3. CASE AuthorizeChangedPaths
  <2>1. /\ authorized' = authorized \union {rev} /\ UNCHANGED <<completed, rev, checked>>
        /\ (pc = "initial" /\ pc' = "request") \/ pc' = "acceptance"
    BY <1>3 DEF AuthorizeChangedPaths, Await, Return, item
  <2> QED
    BY <2>1 DEF PassInv
<1>4. CASE RequestReview
  <2>1. pc = "request" /\ pc' = "journal" /\ UNCHANGED <<completed, rev, authorized, checked>>
    BY <1>4 DEF RequestReview, Throws, PostEffectPaused, Await, Return, item
  <2> QED
    BY <2>1 DEF PassInv
<1>5. CASE JournalDecision
  <2>1. /\ pc = "journal" /\ UNCHANGED <<completed, rev, authorized, checked, calls>>
        /\ log' = Append(log, Decision(0))
        /\ (review.verdict = "approved" /\ pc' = "close") \/ pc' = "remediate"
    BY <1>5 DEF JournalDecision, PostEffectPaused, Await, Return, item
  <2>2. CASE pc' = "close"
    <3>1. ApprovedOn(0)'
      BY <2>1, <2>2, Journaled DEF GateTyped
    <3> QED
      BY <2>1, <2>2, <3>1 DEF PassInv
  <2>3. CASE pc' = "remediate"
    BY <2>3 DEF PassInv
  <2> QED
    BY <2>1, <2>2, <2>3
<1>6. CASE Remediate
  <2>1. pc' = "post-remediation"
    BY <1>6 DEF Remediate, Throws, PostEffectPaused, Await, Return
  <2> QED
    BY <2>1 DEF PassInv
<1>7. CASE AffectedAcceptance
  <2>1. /\ pc = "acceptance" /\ pc' = "request" /\ UNCHANGED <<rev, authorized>>
        /\ checked' = checked \union {<<rev, 0>>}
    BY <1>7 DEF AffectedAcceptance, NextReview, Throws, PostEffectPaused, Await, Return, item
  <2> QED
    BY <2>1 DEF PassInv
<1>8. CASE Close
  <2>1. /\ pc = "close" /\ pc' = "commit" /\ closed' = TRUE
        /\ UNCHANGED <<completed, rev, authorized, checked, log, calls>>
    BY <1>8 DEF Close, Throws, PostEffectPaused, Await, Return
  <2>2. ApprovedOn(0)' = ApprovedOn(0)
    BY <2>1 DEF ApprovedOn
  <2> QED
    BY <2>1, <2>2 DEF PassInv
<1>9. CASE CommitClosure
  <2>1. /\ pc = "commit" /\ pc' = "deliver" /\ branch' = [rev |-> rev, closed |-> closed]
        /\ UNCHANGED <<completed, rev, closed, authorized, checked, log, calls>>
    BY <1>9 DEF CommitClosure, Throws, PostEffectPaused, Await, Return
  <2>2. ApprovedOn(0)' = ApprovedOn(0)
    BY <2>1 DEF ApprovedOn
  <2> QED
    BY <2>1, <2>2 DEF PassInv
<1>10. CASE Deliver
  <2>1. /\ pc = "deliver" /\ pc' = "refresh"
        /\ UNCHANGED <<completed, rev, closed, branch, authorized, checked, log, calls>>
    BY <1>10 DEF Deliver, Publishes, Answer, Throws, PostEffectPaused, Await, Return
  <2>2. ApprovedOn(0)' = ApprovedOn(0)
    BY <2>1 DEF ApprovedOn
  <2> QED
    BY <2>1, <2>2 DEF PassInv
<1>11. CASE RefreshStale
  <2>1. /\ pc = "refresh" /\ pc' = "refreshed-acceptance" /\ refreshed' = Candidate(target)
        /\ UNCHANGED <<completed, rev, closed, branch, authorized, checked, log, calls>>
    BY <1>11 DEF RefreshStale, Throws, PostEffectPaused, Await, Return
  <2>2. ApprovedOn(0)' = ApprovedOn(0)
    BY <2>1 DEF ApprovedOn
  <2>3. branch = [rev |-> rev, closed |-> TRUE] /\ target > 0
    BY <2>1, Bounds DEF PassInv, GateTyped
  <2>4. refreshed'.rev = rev' /\ refreshed'.closed = TRUE /\ refreshed'.base > 0
    BY <2>1, <2>3 DEF Candidate
  <2> QED
    BY <2>1, <2>2, <2>4 DEF PassInv
<1>12. CASE AcceptRefreshed
  <2>1. /\ pc = "refreshed-acceptance" /\ pc' = "refreshed-request"
        /\ checked' = checked \union {<<refreshed.rev, refreshed.base>>}
        /\ UNCHANGED <<completed, rev, closed, branch, refreshed, authorized, log, calls>>
    BY <1>12 DEF AcceptRefreshed, Throws, PostEffectPaused, Await, Return, item
  <2>2. ApprovedOn(0)' = ApprovedOn(0)
    BY <2>1 DEF ApprovedOn
  <2> QED
    BY <2>1, <2>2 DEF PassInv
<1>13. CASE RereviewRefreshed
  <2>1. /\ pc = "refreshed-request" /\ pc' = "refreshed-journal" /\ review'.verdict = "approved"
        /\ UNCHANGED <<completed, rev, closed, branch, refreshed, authorized, checked, log, calls>>
    BY <1>13 DEF RereviewRefreshed, Approves, Throws, PostEffectPaused, Await, Return, item
  <2>2. ApprovedOn(0)' = ApprovedOn(0)
    BY <2>1 DEF ApprovedOn
  <2> QED
    BY <2>1, <2>2 DEF PassInv
<1>14. CASE JournalRereview
  <2>1. /\ pc = "refreshed-journal" /\ pc' = "retry" /\ log' = Append(log, Decision(refreshed.base))
        /\ UNCHANGED <<completed, rev, closed, branch, refreshed, authorized, checked, calls>>
    BY <1>14 DEF JournalRereview, PostEffectPaused, Await, Return, item
  <2>2. review.verdict = "approved" /\ review \in Reviews /\ refreshed.base \in Nat
    BY <2>1, Bounds DEF PassInv, GateTyped, Candidates
  <2>3. ApprovedOn(refreshed.base)' /\ (ApprovedOn(0) => ApprovedOn(0)')
    BY <2>1, <2>2, Journaled
  <2> QED
    BY <2>1, <2>3 DEF PassInv
<1>15. CASE RetryStale
  BY <1>15 DEF RetryStale, Publishes, Throws, PostEffectPaused, Return
<1>16. CASE Rework
  BY <1>16 DEF Rework, call
<1>17. CASE MoveTarget \/ UNCHANGED gateVars
  <2>1. UNCHANGED <<pc, completed, review, rev, closed, branch, refreshed, authorized, checked, log, calls>>
    BY <1>17 DEF MoveTarget, gateVars, call, item, seen
  <2> QED
    BY <2>1 DEF PassInv, ApprovedOn
<1> QED
  BY <1>1, <1>2, <1>3, <1>4, <1>5, <1>6, <1>7, <1>8, <1>9, <1>10, <1>11, <1>12, <1>13, <1>14, <1>15, <1>16, <1>17
  DEF GateNext, Gate, Recovery

LEMMA Publications ==
  ASSUME [GateNext]_gateVars, published' # published
  PROVE  (published' = Candidate(target) /\ pc = "deliver") \/ (published' = refreshed /\ pc = "retry")
<1>1. GateNext
  BY DEF gateVars, item
<1>2. CASE Deliver
  BY <1>2 DEF Deliver, Publishes
<1>3. CASE RetryStale
  BY <1>3 DEF RetryStale, Publishes
<1>4. CASE ~Deliver /\ ~RetryStale
  <2>1. (\E c \in Cycles : Call(c)) \/ RefuseCall \/ AuthorizeChangedPaths \/ RequestReview \/ JournalDecision =>
          UNCHANGED published
    BY DEF Call, RefuseCall, AuthorizeChangedPaths, RequestReview, JournalDecision, item
  <2>2. Remediate \/ AffectedAcceptance \/ Close \/ CommitClosure \/ RefreshStale \/ AcceptRefreshed => UNCHANGED published
    BY DEF Remediate, AffectedAcceptance, Close, CommitClosure, RefreshStale, AcceptRefreshed, item
  <2>3. RereviewRefreshed \/ JournalRereview \/ Rework \/ MoveTarget => UNCHANGED published
    BY DEF RereviewRefreshed, JournalRereview, Rework, MoveTarget, item
  <2> QED
    BY <1>1, <1>4, <2>1, <2>2, <2>3 DEF GateNext, Gate, Recovery
<1> QED
  BY <1>2, <1>3, <1>4

\* What reaches the target is the revision that the call had approved and journaled, closed and
\* checked; and a refreshed candidate was checked and approved on its new base.
THEOREM GateHolds == Spec => PassedTheGate
<1>1. GateTyped /\ PassInv /\ [GateNext]_gateVars =>
        [published' # published =>
           /\ Approved(published') # {}
           /\ published'.closed
           /\ published'.rev \in authorized
           /\ completed > 0 => <<published'.rev, 0>> \in checked]_published
  <2> SUFFICES ASSUME GateTyped, PassInv, [GateNext]_gateVars, published' # published
               PROVE  /\ Approved(published') # {}
                      /\ published'.closed
                      /\ published'.rev \in authorized
                      /\ completed > 0 => <<published'.rev, 0>> \in checked
    OBVIOUS
  <2>1. (published' = Candidate(target) /\ pc = "deliver") \/ (published' = refreshed /\ pc = "retry")
    BY Publications
  <2>2. published'.rev = rev /\ published'.closed = TRUE
    <3>1. CASE published' = Candidate(target) /\ pc = "deliver"
      <4>1. branch = [rev |-> rev, closed |-> TRUE]
        BY <3>1 DEF PassInv, Publishing
      <4> QED
        BY <3>1, <4>1 DEF Candidate
    <3>2. CASE published' = refreshed /\ pc = "retry"
      BY <3>2 DEF PassInv, Refreshing
    <3> QED
      BY <2>1, <3>1, <3>2
  <2>3. pc \in Closing /\ pc \in Reviewing
    BY <2>1 DEF Reviewing, Closing, Publishing, Refreshing
  <2>4. Approved(published') # {}
    BY <2>2, <2>3 DEF PassInv, ApprovedOn, Approved
  <2> QED
    BY <2>2, <2>3, <2>4 DEF PassInv
<1>2. GateTyped /\ PassInv /\ [GateNext]_gateVars =>
        [pc = "retry" /\ published' # published =>
           /\ <<published'.rev, published'.base>> \in checked
           /\ \E k \in Approved(published') : log[k].base = published'.base]_gateVars
  <2> SUFFICES ASSUME GateTyped, PassInv, [GateNext]_gateVars, pc = "retry", published' # published
               PROVE  /\ <<published'.rev, published'.base>> \in checked
                      /\ \E k \in Approved(published') : log[k].base = published'.base
    OBVIOUS
  <2>1. published' = refreshed
    BY Publications
  <2>2. refreshed.rev = rev /\ <<rev, refreshed.base>> \in checked /\ ApprovedOn(refreshed.base)
    BY DEF PassInv, Refreshing
  <2> QED
    BY <2>1, <2>2 DEF ApprovedOn, Approved
<1>3. Spec => []GateTyped /\ []PassInv /\ [][GateNext]_gateVars
  <2>1. PassInv /\ GateTyped /\ [GateNext]_gateVars => PassInv'
    BY NextPass
  <2> QED
    BY <2>1, GateIsTyped, InitPass, BlueprintGate, PTL DEF GateSpec
<1>4. Spec => PublishedPassedTheGate
  BY <1>1, <1>3, PTL DEF PublishedPassedTheGate
<1>5. Spec => RetriedWasRechecked
  BY <1>2, <1>3, PTL DEF RetriedWasRechecked
<1> QED
  BY <1>4, <1>5 DEF PassedTheGate

-----------------------------------------------------------------------------
(* That reviews converge *)

\* The reviewers of this call are those of its decisions, and a decision that is not
\* journaled yet comes from another one.
FreshInv ==
  /\ pc = "initial" \/ (pc = "request" /\ completed = 0) => reviewers = {}
  /\ \A k \in 1..Len(log) : log[k].call = calls => log[k].context \in reviewers
  /\ pc \in {"journal", "refreshed-journal"} =>
       /\ review.context \in reviewers
       /\ \A k \in 1..Len(log) : log[k].call = calls => log[k].context # review.context
  /\ FreshReviewers

\* Who was asked for a finding knows it by its fingerprint.
FoundInv == (\A j \in 1..Len(requested) : requested[j] \subseteq fingerprints) /\ NoFindingTwice

\* The decisions of this call other than on a refreshed candidate.
Decided == {k \in 1..Len(log) : log[k].call = calls /\ log[k].base = 0}
EffortInv ==
  /\ completed <= cycles /\ (pc \in Reworking => completed < cycles)
  /\ Cardinality(Decided) <= completed + 1
  /\ pc \in {"initial", "request", "journal"} => Cardinality(Decided) <= completed
  /\ pc \in Refreshing => refreshed.base > 0

LEMMA InitConverges == GateInit => FreshInv /\ FoundInv /\ EffortInv
<1> SUFFICES ASSUME GateInit PROVE FreshInv /\ FoundInv /\ EffortInv
  OBVIOUS
<1>1. Len(log) = 0 /\ Len(requested) = 0 /\ completed = 0 /\ cycles = 0 /\ pc = "idle"
  BY DEF GateInit
<1>2. Decided = {}
  BY <1>1 DEF Decided
<1> QED
  BY <1>1, <1>2, FS_EmptySet DEF FreshInv, FoundInv, EffortInv, FreshReviewers, NoFindingTwice, Reworking, Refreshing

\* A call that begins has no decisions.
LEMMA NothingDecided ==
  ASSUME GateTyped, calls' = calls + 1, UNCHANGED log
  PROVE  Decided' = {} /\ \A k \in 1..Len(log') : log'[k].call # calls'
<1>1. \A k \in 1..Len(log) : log[k].call \in 1..calls /\ calls \in Nat
  BY Bounds DEF GateTyped
<1> QED
  BY <1>1 DEF Decided

\* What journaling adds.
LEMMA Journaling ==
  ASSUME GateTyped, NEW base \in Nat, review \in Reviews, log' = Append(log, Decision(base))
  PROVE  /\ Len(log) \in Nat /\ Len(log') = Len(log) + 1
         /\ log'[Len(log) + 1].call = calls /\ log'[Len(log) + 1].context = review.context
         /\ log'[Len(log) + 1].base = base
         /\ \A k \in 1..Len(log) : log'[k] = log[k]
<1> DEFINE d == Decision(base)
<1>1. d.call = calls /\ d.context = review.context /\ d.base = base
  BY DEF Decision
<1>2. d \in Decisions
  <2>1. calls \in Nat /\ rev \in Nat
    BY Bounds DEF GateTyped
  <2>2. review.context \in Contexts /\ review.verdict \in Verdicts
    BY DEF Reviews, Verdicts
  <2> QED
    BY <2>1, <2>2 DEF Decision, Decisions
<1>3. log \in Seq(Decisions) /\ log' = Append(log, d)
  BY DEF GateTyped
<1> HIDE DEF d
<1> QED
  BY <1>1, <1>2, <1>3

\* Journaling keeps the reviewers apart.
LEMMA JournalingFresh ==
  ASSUME GateTyped, FreshInv, pc \in {"journal", "refreshed-journal"}, NEW base \in Nat,
         log' = Append(log, Decision(base)), UNCHANGED <<calls, reviewers>>,
         pc' \notin {"initial", "request", "journal", "refreshed-journal"}
  PROVE  FreshInv'
<1>1. /\ Len(log) \in Nat /\ Len(log') = Len(log) + 1
      /\ log'[Len(log) + 1].call = calls /\ log'[Len(log) + 1].context = review.context
      /\ \A k \in 1..Len(log) : log'[k] = log[k]
  BY Journaling DEF GateTyped
<1>2. /\ review.context \in reviewers
      /\ \A k \in 1..Len(log) : log[k].call = calls => log[k].context # review.context
      /\ \A k \in 1..Len(log) : log[k].call = calls => log[k].context \in reviewers
  BY DEF FreshInv
<1>3. \A k \in 1..Len(log') : k = Len(log) + 1 \/ (k \in 1..Len(log) /\ log'[k] = log[k])
  BY <1>1
<1>4. \A k \in 1..Len(log') : log'[k].call = calls' => log'[k].context \in reviewers'
  BY <1>1, <1>2, <1>3
<1>5. FreshReviewers'
  <2> SUFFICES ASSUME NEW j \in 1..Len(log'), NEW k \in 1..Len(log'), j # k, log'[j].call = log'[k].call
               PROVE  log'[j].context # log'[k].context
    BY DEF FreshReviewers
  <2>1. CASE j \in 1..Len(log) /\ k \in 1..Len(log)
    BY <1>1, <2>1 DEF FreshInv, FreshReviewers
  <2>2. CASE j = Len(log) + 1
    BY <1>1, <1>2, <1>3, <2>2
  <2>3. CASE k = Len(log) + 1
    BY <1>1, <1>2, <1>3, <2>3
  <2> QED
    BY <1>3, <2>1, <2>2, <2>3
<1> QED
  BY <1>4, <1>5 DEF FreshInv

LEMMA NextFresh == GateTyped /\ FreshInv /\ [GateNext]_gateVars => FreshInv'
<1> SUFFICES ASSUME GateTyped, FreshInv, [GateNext]_gateVars PROVE FreshInv'
  OBVIOUS
<1>0. ASSUME UNCHANGED <<log, calls, reviewers>>, pc' \notin {"initial", "request", "journal", "refreshed-journal"}
      PROVE  FreshInv'
  BY <1>0 DEF FreshInv, FreshReviewers
<1>1. ASSUME NEW c \in Cycles, Call(c) PROVE FreshInv'
  <2>1. pc' = "initial" /\ calls' = calls + 1 /\ reviewers' = {} /\ UNCHANGED log
    BY <1>1 DEF Call, Await
  <2> QED
    BY <2>1, NothingDecided DEF FreshInv, FreshReviewers
<1>2. CASE RefuseCall
  <2>1. pc' = "idle" /\ calls' = calls + 1 /\ UNCHANGED log
    BY <1>2 DEF RefuseCall, Return
  <2> QED
    BY <2>1, NothingDecided DEF FreshInv, FreshReviewers
<1>3. CASE AuthorizeChangedPaths
  <2>1. /\ UNCHANGED <<log, calls, reviewers, completed>>
        /\ (pc = "initial" /\ pc' = "request") \/ pc' \in {"acceptance", "idle"}
    BY <1>3 DEF AuthorizeChangedPaths, Await, Return, item
  <2> QED
    BY <1>0, <2>1 DEF FreshInv, FreshReviewers
<1>4. CASE RequestReview \/ RereviewRefreshed
  <2>1. UNCHANGED <<log, calls>> /\ pc' \in {"idle", "journal", "refreshed-journal"}
    BY <1>4 DEF RequestReview, RereviewRefreshed, Throws, PostEffectPaused, Await, Return
  <2>2. CASE pc' = "idle"
    <3>1. UNCHANGED reviewers
      BY <1>4, <2>2 DEF RequestReview, RereviewRefreshed, Await
    <3> QED
      BY <1>0, <2>1, <2>2, <3>1
  <2>3. CASE pc' # "idle"
    <3>1. PICK r \in Reviews : /\ review' = r /\ reviewers' = reviewers \union {r.context}
                               /\ (pc = "request" /\ completed = 0) \/ r.context \notin reviewers
      <4>1. CASE RequestReview
        <5>1. PICK r \in Reviews : /\ review' = r /\ reviewers' = reviewers \union {r.context}
                                   /\ completed > 0 => FreshContext(r.context)
          BY <2>3, <4>1 DEF RequestReview, Throws, PostEffectPaused, Return
        <5>2. completed \in Nat /\ pc = "request"
          BY <4>1 DEF RequestReview, GateTyped
        <5> QED
          BY <5>1, <5>2 DEF FreshContext
      <4>2. CASE RereviewRefreshed
        BY <2>3, <4>2 DEF RereviewRefreshed, FreshContext, Throws, PostEffectPaused, Return
      <4> QED
        BY <1>4, <4>1, <4>2
    <3>2. \A k \in 1..Len(log) : log[k].call = calls => log[k].context # r.context
      BY <3>1 DEF FreshInv
    <3>3. pc' \in {"journal", "refreshed-journal"}
      BY <2>1, <2>3
    <3> QED
      BY <2>1, <3>1, <3>2, <3>3 DEF FreshInv, FreshReviewers
  <2> QED
    BY <2>2, <2>3
<1>5. CASE JournalDecision
  <2>1. /\ pc = "journal" /\ pc' \in {"idle", "close", "remediate"} /\ UNCHANGED <<calls, reviewers>>
        /\ UNCHANGED log \/ log' = Append(log, Decision(0))
    BY <1>5 DEF JournalDecision, PostEffectPaused, Await, Return
  <2> QED
    BY <1>0, <2>1, JournalingFresh
<1>6. CASE JournalRereview
  <2>1. /\ pc = "refreshed-journal" /\ pc' \in {"idle", "retry"} /\ UNCHANGED <<calls, reviewers>>
        /\ UNCHANGED log \/ log' = Append(log, Decision(refreshed.base))
    BY <1>6 DEF JournalRereview, PostEffectPaused, Await, Return
  <2>2. refreshed.base \in Nat
    BY Bounds DEF GateTyped, Candidates
  <2> QED
    BY <1>0, <2>1, <2>2, JournalingFresh
<1>7. CASE AffectedAcceptance
  <2>1. UNCHANGED <<log, calls, reviewers>>
    BY <1>7 DEF AffectedAcceptance, item
  <2>2. pc' = "idle" \/ (pc' = "request" /\ completed' = completed + 1 /\ completed \in Nat)
    BY <1>7 DEF AffectedAcceptance, NextReview, Throws, PostEffectPaused, Await, Return, GateTyped
  <2>3. ~(pc' = "request" /\ completed' = 0) /\ pc' \in {"idle", "request"}
    BY <2>2
  <2> QED
    BY <2>1, <2>3 DEF FreshInv, FreshReviewers
<1>8. CASE Remediate \/ Close \/ CommitClosure
  <2>1. UNCHANGED <<log, calls, reviewers>>
    BY <1>8 DEF Remediate, Close, CommitClosure
  <2>2. pc' \in {"idle", "post-remediation", "commit", "deliver"}
    BY <1>8 DEF Remediate, Close, CommitClosure, Throws, PostEffectPaused, Await, Return
  <2> QED
    BY <1>0, <2>1, <2>2
<1>9. CASE Deliver \/ RefreshStale
  <2>1. UNCHANGED <<log, calls, reviewers>>
    BY <1>9 DEF Deliver, RefreshStale
  <2>2. pc' \in {"idle", "refresh", "refreshed-acceptance"}
    BY <1>9 DEF Deliver, RefreshStale, Publishes, Answer, Throws, PostEffectPaused, Await, Return
  <2> QED
    BY <1>0, <2>1, <2>2
<1>10. CASE AcceptRefreshed \/ RetryStale
  <2>1. UNCHANGED <<log, calls, reviewers>>
    BY <1>10 DEF AcceptRefreshed, RetryStale
  <2>2. pc' \in {"idle", "refreshed-request"}
    BY <1>10 DEF AcceptRefreshed, RetryStale, Publishes, Throws, PostEffectPaused, Await, Return
  <2> QED
    BY <1>0, <2>1, <2>2
<1>11. CASE Rework \/ MoveTarget \/ UNCHANGED gateVars
  <2>1. UNCHANGED <<pc, completed, reviewers, review, log, calls>>
    BY <1>11 DEF Rework, MoveTarget, gateVars, call
  <2> QED
    BY <2>1 DEF FreshInv, FreshReviewers
<1> QED
  BY <1>1, <1>2, <1>3, <1>4, <1>5, <1>6, <1>7, <1>8, <1>9, <1>10, <1>11 DEF GateNext, Gate, Recovery

LEMMA NextFound == GateTyped /\ FoundInv /\ [GateNext]_gateVars => FoundInv'
<1> SUFFICES ASSUME GateTyped, FoundInv, [GateNext]_gateVars PROVE FoundInv'
  OBVIOUS
<1>1. CASE UNCHANGED <<requested, fingerprints>>
  BY <1>1 DEF FoundInv, NoFindingTwice
<1>2. CASE JournalDecision
  <2>1. CASE UNCHANGED requested
    <3>1. fingerprints \subseteq fingerprints'
      BY <1>2 DEF JournalDecision
    <3> QED
      BY <2>1, <3>1 DEF FoundInv, NoFindingTwice
  <2>2. CASE ~UNCHANGED requested
    <3>1. /\ pc = "journal" /\ review.findings \intersect fingerprints = {}
          /\ fingerprints' = fingerprints \union review.findings /\ requested' = Append(requested, review.findings)
      BY <1>2, <2>2 DEF JournalDecision, Request, Churn
    <3>2. requested \in Seq(SUBSET Findings) /\ review.findings \in SUBSET Findings
      BY <3>1 DEF GateTyped, Reviews
    <3>3. /\ Len(requested) \in Nat /\ Len(requested') = Len(requested) + 1
          /\ requested'[Len(requested) + 1] = review.findings
          /\ \A k \in 1..Len(requested) : requested'[k] = requested[k]
      BY <3>1, <3>2
    <3>4. \A k \in 1..Len(requested') : k = Len(requested) + 1 \/ (k \in 1..Len(requested) /\ requested'[k] = requested[k])
      BY <3>3
    <3>5. \A k \in 1..Len(requested') : requested'[k] \subseteq fingerprints'
      BY <3>1, <3>3, <3>4 DEF FoundInv
    <3>6. NoFindingTwice'
      <4> SUFFICES ASSUME NEW j \in 1..Len(requested'), NEW k \in 1..Len(requested'), j # k
                   PROVE  requested'[j] \intersect requested'[k] = {}
        BY DEF NoFindingTwice
      <4>1. CASE j \in 1..Len(requested) /\ k \in 1..Len(requested)
        BY <3>3, <4>1 DEF FoundInv, NoFindingTwice
      <4>2. CASE j = Len(requested) + 1
        BY <3>1, <3>3, <3>4, <4>2 DEF FoundInv
      <4>3. CASE k = Len(requested) + 1
        BY <3>1, <3>3, <3>4, <4>3 DEF FoundInv
      <4> QED
        BY <3>4, <4>1, <4>2, <4>3
    <3> QED
      BY <3>5, <3>6 DEF FoundInv
  <2> QED
    BY <2>1, <2>2
<1>3. CASE ~JournalDecision
  <2>1. (\E c \in Cycles : Call(c)) \/ RefuseCall \/ AuthorizeChangedPaths \/ RequestReview =>
          UNCHANGED <<requested, fingerprints>>
    BY DEF Call, RefuseCall, AuthorizeChangedPaths, RequestReview, seen
  <2>2. Remediate \/ AffectedAcceptance \/ Close \/ CommitClosure \/ Deliver => UNCHANGED <<requested, fingerprints>>
    BY DEF Remediate, AffectedAcceptance, Close, CommitClosure, Deliver
  <2>3. RefreshStale \/ AcceptRefreshed \/ RereviewRefreshed \/ JournalRereview \/ RetryStale =>
          UNCHANGED <<requested, fingerprints>>
    BY DEF RefreshStale, AcceptRefreshed, RereviewRefreshed, JournalRereview, RetryStale
  <2>4. Rework \/ MoveTarget \/ UNCHANGED gateVars => UNCHANGED <<requested, fingerprints>>
    BY DEF Rework, MoveTarget, gateVars, seen
  <2> QED
    BY <1>1, <1>3, <2>1, <2>2, <2>3, <2>4 DEF GateNext, Gate, Recovery
<1> QED
  BY <1>2, <1>3

\* Journaling adds one decision on a candidate that is not refreshed, and else none.
LEMMA JournalingDecides ==
  ASSUME GateTyped, NEW base \in Nat, review \in Reviews, log' = Append(log, Decision(base)), UNCHANGED calls
  PROVE  /\ base = 0 => Cardinality(Decided') = Cardinality(Decided) + 1
         /\ base # 0 => Decided' = Decided
         /\ Cardinality(Decided) \in Nat
<1>1. /\ Len(log) \in Nat /\ Len(log') = Len(log) + 1
      /\ log'[Len(log) + 1].call = calls /\ log'[Len(log) + 1].base = base
      /\ \A k \in 1..Len(log) : log'[k] = log[k]
  BY Journaling
<1>2. IsFiniteSet(Decided)
  <2>1. IsFiniteSet(1..Len(log))
    BY <1>1, FS_Interval
  <2> QED
    BY <2>1, FS_Subset DEF Decided
<1>3. \A k : k \in 1..Len(log') <=> k \in 1..Len(log) \/ k = Len(log) + 1
  BY <1>1
<1>4. Len(log) + 1 \notin Decided
  BY <1>1 DEF Decided
<1>5. Decided' = IF base = 0 THEN Decided \union {Len(log) + 1} ELSE Decided
  BY <1>1, <1>3 DEF Decided
<1> QED
  BY <1>2, <1>4, <1>5, FS_AddElement, FS_CardinalityType

LEMMA NextEffort == GateTyped /\ EffortInv /\ [GateNext]_gateVars => EffortInv'
<1> SUFFICES ASSUME GateTyped, EffortInv, [GateNext]_gateVars PROVE EffortInv'
  OBVIOUS
<1>0. /\ completed \in Nat /\ cycles \in Nat /\ Len(log) \in Nat
      /\ Cardinality(Decided) \in Nat
  <2>1. completed \in Nat /\ cycles \in Nat /\ Len(log) \in Nat
    BY CyclesAssumption DEF GateTyped
  <2>2. IsFiniteSet(Decided)
    <3>1. IsFiniteSet(1..Len(log))
      BY <2>1, FS_Interval
    <3> QED
      BY <3>1, FS_Subset DEF Decided
  <2> QED
    BY <2>1, <2>2, FS_CardinalityType
<1>a. ASSUME UNCHANGED <<log, calls, completed, cycles>>, pc' \notin {"initial", "request", "journal"} \union Reworking,
             pc' \in Refreshing => refreshed'.base > 0
      PROVE  EffortInv'
  <2>1. Decided' = Decided
    BY <1>a DEF Decided
  <2> QED
    BY <1>a, <2>1 DEF EffortInv
<1> USE DEF Reworking, Refreshing
<1>1. ASSUME NEW c \in Cycles, Call(c) PROVE EffortInv'
  <2>1. /\ pc' = "initial" /\ calls' = calls + 1 /\ completed' = 0 /\ cycles' = c /\ UNCHANGED log
    BY <1>1 DEF Call, Await
  <2>2. Cardinality(Decided') = 0
    BY <2>1, NothingDecided, FS_EmptySet
  <2>3. c \in Nat
    BY CyclesAssumption
  <2> QED
    BY <2>1, <2>2, <2>3 DEF EffortInv
<1>2. CASE RefuseCall
  <2>1. pc' = "idle" /\ calls' = calls + 1 /\ UNCHANGED <<log, completed, cycles>>
    BY <1>2 DEF RefuseCall, Return
  <2>2. Cardinality(Decided') = 0
    BY <2>1, NothingDecided, FS_EmptySet
  <2> QED
    BY <1>0, <2>1, <2>2 DEF EffortInv
<1>3. CASE AuthorizeChangedPaths
  <2>1. /\ UNCHANGED <<log, calls, completed, cycles>>
        /\ (pc = "initial" /\ pc' = "request") \/ (pc = "post-remediation" /\ pc' = "acceptance") \/ pc' = "idle"
    BY <1>3 DEF AuthorizeChangedPaths, Await, Return, item
  <2>2. Decided' = Decided
    BY <2>1 DEF Decided
  <2> QED
    BY <2>1, <2>2 DEF EffortInv
<1>4. CASE RequestReview
  <2>1. UNCHANGED <<log, calls, completed, cycles>> /\ pc = "request" /\ pc' \in {"idle", "journal"}
    BY <1>4 DEF RequestReview, Throws, PostEffectPaused, Await, Return
  <2>2. Decided' = Decided
    BY <2>1 DEF Decided
  <2> QED
    BY <2>1, <2>2 DEF EffortInv
<1>5. CASE JournalDecision
  <2>1. /\ pc = "journal" /\ pc' \in {"idle", "close", "remediate"} /\ UNCHANGED <<calls, completed, cycles>>
        /\ (UNCHANGED log /\ pc' = "idle") \/ log' = Append(log, Decision(0))
        /\ pc' = "remediate" => completed < cycles
    BY <1>5 DEF JournalDecision, CyclesLeft, PostEffectPaused, Await, Return
  <2>2. CASE UNCHANGED log /\ pc' = "idle"
    BY <1>a, <2>1, <2>2
  <2>3. CASE log' = Append(log, Decision(0))
    <3>1. Cardinality(Decided') = Cardinality(Decided) + 1
      BY <2>1, <2>3, JournalingDecides DEF GateTyped
    <3>2. Cardinality(Decided) <= completed
      BY <2>1 DEF EffortInv
    <3> QED
      BY <1>0, <2>1, <3>1, <3>2 DEF EffortInv
  <2> QED
    BY <2>1, <2>2, <2>3
<1>6. CASE Remediate
  <2>1. UNCHANGED <<log, calls, completed, cycles>> /\ pc = "remediate" /\ pc' \in {"idle", "post-remediation"}
    BY <1>6 DEF Remediate, Throws, PostEffectPaused, Await, Return
  <2>2. Decided' = Decided
    BY <2>1 DEF Decided
  <2> QED
    BY <2>1, <2>2 DEF EffortInv
<1>7. CASE AffectedAcceptance
  <2>1. /\ UNCHANGED <<log, calls, cycles>> /\ pc = "acceptance"
        /\ (pc' = "request" /\ completed' = completed + 1) \/ (pc' = "idle" /\ UNCHANGED completed)
    BY <1>7 DEF AffectedAcceptance, NextReview, Throws, PostEffectPaused, Await, Return, item
  <2>2. Decided' = Decided
    BY <2>1 DEF Decided
  <2> QED
    BY <1>0, <2>1, <2>2 DEF EffortInv
<1>8. CASE Close \/ CommitClosure \/ Deliver
  <2>1. UNCHANGED <<log, calls, completed, cycles>>
    BY <1>8 DEF Close, CommitClosure, Deliver
  <2>2. pc' \in {"idle", "commit", "deliver", "refresh"}
    BY <1>8 DEF Close, CommitClosure, Deliver, Publishes, Answer, Throws, PostEffectPaused, Await, Return
  <2> QED
    BY <1>a, <2>1, <2>2
<1>9. CASE RefreshStale
  <2>1. UNCHANGED <<log, calls, completed, cycles>>
    BY <1>9 DEF RefreshStale
  <2>2. pc' = "idle" \/ (pc' = "refreshed-acceptance" /\ refreshed' = Candidate(target))
    BY <1>9 DEF RefreshStale, Throws, PostEffectPaused, Await, Return
  <2>3. Candidate(target).base > 0
    BY Bounds DEF Candidate, GateTyped
  <2> QED
    BY <1>a, <2>1, <2>2, <2>3
<1>10. CASE AcceptRefreshed \/ RereviewRefreshed \/ RetryStale
  <2>1. UNCHANGED <<log, calls, completed, cycles, refreshed>> /\ pc \in Refreshing
    BY <1>10 DEF AcceptRefreshed, RereviewRefreshed, RetryStale, item
  <2>2. pc' \in {"idle", "refreshed-request", "refreshed-journal"}
    BY <1>10 DEF AcceptRefreshed, RereviewRefreshed, RetryStale, Publishes, Throws, PostEffectPaused, Await, Return
  <2> QED
    BY <1>a, <2>1, <2>2 DEF EffortInv
<1>11. CASE JournalRereview
  <2>1. /\ pc = "refreshed-journal" /\ pc' \in {"idle", "retry"} /\ UNCHANGED <<calls, completed, cycles, refreshed>>
        /\ UNCHANGED log \/ log' = Append(log, Decision(refreshed.base))
    BY <1>11 DEF JournalRereview, PostEffectPaused, Await, Return, item
  <2>2. refreshed.base \in Nat /\ refreshed.base > 0 /\ review \in Reviews
    BY <2>1, Bounds DEF EffortInv, GateTyped, Candidates
  <2>3. Decided' = Decided
    <3>1. CASE UNCHANGED log
      BY <2>1, <3>1 DEF Decided
    <3>2. CASE log' = Append(log, Decision(refreshed.base))
      BY <2>1, <2>2, <3>2, JournalingDecides
    <3> QED
      BY <2>1, <3>1, <3>2
  <2> QED
    BY <2>1, <2>3 DEF EffortInv
<1>12. CASE Rework \/ MoveTarget \/ UNCHANGED gateVars
  <2>1. UNCHANGED <<pc, completed, cycles, log, calls, refreshed>>
    BY <1>12 DEF Rework, MoveTarget, gateVars, call, item
  <2>2. Decided' = Decided
    BY <2>1 DEF Decided
  <2> QED
    BY <2>1, <2>2 DEF EffortInv
<1> QED
  BY <1>1, <1>2, <1>3, <1>4, <1>5, <1>6, <1>7, <1>8, <1>9, <1>10, <1>11, <1>12 DEF GateNext, Gate, Recovery

\* The types imply those that the runs check.
LEMMA TypedIsOK == GateTyped => GateOK
<1> SUFFICES ASSUME GateTyped PROVE GateOK
  OBVIOUS
<1>1. rev \in Revisions \ {0}
  BY RevisionKnown DEF GateTyped
<1>2. target \in Nat \ {0}
  BY Bounds DEF GateTyped
<1>3. \A k \in 1..Len(log) :
        log[k] \in [call : 1..calls, verdict : Verdicts, context : Contexts, rev : Revisions, base : 0..MaxMoves + 1]
  <2> TAKE k \in 1..Len(log)
  <2>1. log[k] \in Decisions /\ log[k].call \in 1..calls /\ log[k].rev \in Revisions /\ log[k].base \in 0..MaxMoves + 1
    BY DEF GateTyped
  <2> QED
    BY <2>1 DEF Decisions
<1> QED
  BY <1>1, <1>2, <1>3 DEF GateTyped, GateOK

\* A review goes on only with new reviewers, with findings that nobody was asked for yet, and
\* with at most one decision more than the cycles of its call.
THEOREM ReviewsAreBounded == Spec => []ReviewsConverge
<1>1. GateTyped /\ FreshInv /\ FoundInv /\ EffortInv => ReviewsConverge
  <2> SUFFICES ASSUME GateTyped, FreshInv, FoundInv, EffortInv PROVE ReviewsConverge
    OBVIOUS
  <2>1. EffortIsBounded
    <3>1. completed \in Nat /\ cycles \in Nat /\ Len(log) \in Nat
      BY CyclesAssumption DEF GateTyped
    <3>2. IsFiniteSet(Decided)
      <4>1. IsFiniteSet(1..Len(log))
        BY <3>1, FS_Interval
      <4> QED
        BY <4>1, FS_Subset DEF Decided
    <3>3. Cardinality(Decided) \in Nat
      BY <3>2, FS_CardinalityType
    <3>4. Cardinality(Decided) <= completed + 1 /\ completed <= cycles
      BY DEF EffortInv
    <3> QED
      BY <3>1, <3>3, <3>4 DEF EffortIsBounded, Decided
  <2> QED
    BY <2>1, TypedIsOK DEF ReviewsConverge, FreshInv, FoundInv
<1>2. GateTyped /\ FreshInv /\ FoundInv /\ EffortInv /\ [GateNext]_gateVars => FreshInv' /\ FoundInv' /\ EffortInv'
  BY NextFresh, NextFound, NextEffort
<1> QED
  BY <1>1, <1>2, InitConverges, GateIsTyped, BlueprintGate, PTL DEF GateSpec

-----------------------------------------------------------------------------
(* What a pause says *)

\* A call that goes on has left nothing in doubt and published nothing.
PauseInv == (pc # "idle" => doubt = FALSE /\ published = Nothing) /\ PauseIsHonest

GoesOn == pc' # "idle" /\ UNCHANGED <<doubt, published>>
CallIsOver ==
  /\ pc' = "idle" /\ (UNCHANGED doubt \/ status' = "paused-after-side-effect")
  /\ UNCHANGED published \/ status' \in {"delivered", "published-uncertain", "paused-after-side-effect"}

LEMMA PortsSettle ==
  ASSUME LostAcks = FALSE, Gate \/ Recovery
  PROVE  pc # "idle" /\ (GoesOn \/ CallIsOver)
<1> USE DEF GoesOn, CallIsOver, Throws, PostEffectPaused, Await, Return
<1>1. CASE AuthorizeChangedPaths
  BY <1>1 DEF AuthorizeChangedPaths, item
<1>2. CASE RequestReview
  BY <1>2 DEF RequestReview, item
<1>3. CASE JournalDecision
  BY <1>3 DEF JournalDecision, item
<1>4. CASE Remediate
  BY <1>4 DEF Remediate
<1>5. CASE AffectedAcceptance
  BY <1>5 DEF AffectedAcceptance, NextReview, item
<1>6. CASE Close
  BY <1>6 DEF Close
<1>7. CASE CommitClosure
  BY <1>7 DEF CommitClosure
<1>8. CASE Deliver
  BY <1>8 DEF Deliver, Publishes, Answer
<1>9. CASE RefreshStale
  BY <1>9 DEF RefreshStale
<1>10. CASE AcceptRefreshed
  BY <1>10 DEF AcceptRefreshed, item
<1>11. CASE RereviewRefreshed
  BY <1>11 DEF RereviewRefreshed, item
<1>12. CASE JournalRereview
  BY <1>12 DEF JournalRereview, item
<1>13. CASE RetryStale
  BY <1>13 DEF RetryStale, Publishes
<1> QED
  BY <1>1, <1>2, <1>3, <1>4, <1>5, <1>6, <1>7, <1>8, <1>9, <1>10, <1>11, <1>12, <1>13 DEF Gate, Recovery

LEMMA NextPause == LostAcks = FALSE /\ PauseInv /\ [GateNext]_gateVars => PauseInv'
<1> SUFFICES ASSUME LostAcks = FALSE, PauseInv, [GateNext]_gateVars PROVE PauseInv'
  OBVIOUS
<1>1. CASE Gate \/ Recovery
  <2>1. pc # "idle" /\ (GoesOn \/ CallIsOver)
    BY <1>1, PortsSettle
  <2>2. doubt = FALSE /\ published = Nothing
    BY <2>1 DEF PauseInv
  <2>3. CASE GoesOn
    BY <2>2, <2>3 DEF GoesOn, PauseInv, PauseIsHonest
  <2>4. CASE CallIsOver
    BY <2>2, <2>4 DEF CallIsOver, PauseInv, PauseIsHonest
  <2> QED
    BY <2>1, <2>3, <2>4
<1>2. CASE (\E c \in Cycles : Call(c)) \/ RefuseCall
  <2>1. pc = "idle" /\ status \in Open /\ UNCHANGED <<doubt, published>>
    BY <1>2 DEF Call, RefuseCall, item, seen
  <2>2. status \notin {"delivered", "published-uncertain", "paused-after-side-effect"}
    BY <2>1 DEF Open, Unpublished
  <2>3. ~doubt /\ published = Nothing
    BY <2>1, <2>2 DEF PauseInv, PauseIsHonest
  <2> QED
    BY <2>1, <2>3 DEF PauseInv, PauseIsHonest
<1>3. CASE Rework \/ MoveTarget \/ UNCHANGED gateVars
  <2>1. UNCHANGED <<pc, status, doubt, published>>
    BY <1>3 DEF Rework, MoveTarget, gateVars, call, item, seen
  <2> QED
    BY <2>1 DEF PauseInv, PauseIsHonest
<1> QED
  BY <1>1, <1>2, <1>3 DEF GateNext

\* While no answer is lost, a call that leaves an effect without its record says so, and no
\* other pause hides a publication (postEffectPaused).
THEOREM PausesAreHonest == LostAcks = FALSE => (Spec => []PauseIsHonest)
<1>1. GateInit => PauseInv
  BY DEF GateInit, PauseInv, PauseIsHonest
<1>2. PauseInv => PauseIsHonest
  BY DEF PauseInv
<1> SUFFICES ASSUME LostAcks = FALSE PROVE Spec => []PauseIsHonest
  OBVIOUS
<1>3. PauseInv /\ [GateNext]_gateVars => PauseInv'
  BY NextPause
<1> QED
  BY <1>1, <1>2, <1>3, BlueprintGate, PTL DEF GateSpec

-----------------------------------------------------------------------------
(* The acceptance plan *)

PlanSpec == PlanInit /\ [][PlanNext]_planVars

\* A selection is a list of workspaces, each of them once.
Selection(s, W) == s \in Seq(W) /\ IsInjective(s)

LEMMA SelectionIs ==
  ASSUME NEW W, NEW s, Selection(s, W)
  PROVE  /\ s \in Seq(W) /\ Len(s) \in Nat /\ DOMAIN s = 1..Len(s) /\ ToSet(s) \subseteq W
         /\ \A x : x \in ToSet(s) <=> \E i \in 1..Len(s) : s[i] = x
         /\ \A i \in 1..Len(s) : s[i] \in W
         /\ \A i, j \in 1..Len(s) : s[i] = s[j] => i = j
<1>1. s \in Seq(W) /\ Len(s) \in Nat /\ DOMAIN s = 1..Len(s)
  BY DEF Selection
<1>2. \A i \in 1..Len(s) : s[i] \in W
  BY <1>1
<1>3. \A x : x \in ToSet(s) <=> \E i \in 1..Len(s) : s[i] = x
  BY <1>1 DEF ToSet
<1> QED
  BY <1>1, <1>2, <1>3 DEF Selection, IsInjective

LEMMA NothingSelected == \A W : Selection(<<>>, W) /\ ToSet(<<>>) = {}
BY DEF Selection, IsInjective, ToSet

\* Two selections with nothing in common make one.
LEMMA SelectionsJoin ==
  ASSUME NEW W, NEW s, NEW t, Selection(s, W), Selection(t, W), \A x \in ToSet(s) : x \notin ToSet(t),
         NEW u, u = s \o t
  PROVE  /\ Selection(u, W) /\ \A x : x \in ToSet(u) <=> x \in ToSet(s) \/ x \in ToSet(t)
         /\ Len(u) = Len(s) + Len(t) /\ \A i \in 1..Len(s) : u[i] = s[i]
<1>1. /\ s \in Seq(W) /\ t \in Seq(W) /\ Len(s) \in Nat /\ Len(t) \in Nat
      /\ \A x : x \in ToSet(s) <=> \E i \in 1..Len(s) : s[i] = x
      /\ \A x : x \in ToSet(t) <=> \E i \in 1..Len(t) : t[i] = x
      /\ \A i, j \in 1..Len(s) : s[i] = s[j] => i = j
      /\ \A i, j \in 1..Len(t) : t[i] = t[j] => i = j
  BY SelectionIs
<1>2. /\ u \in Seq(W) /\ Len(u) = Len(s) + Len(t) /\ DOMAIN u = 1..Len(u)
      /\ \A i \in 1..Len(u) : u[i] = IF i =< Len(s) THEN s[i] ELSE t[i - Len(s)]
  BY <1>1
<1>3. ASSUME NEW i \in 1..Len(u)
      PROVE  \/ i =< Len(s) /\ i \in 1..Len(s) /\ u[i] = s[i] /\ u[i] \in ToSet(s)
             \/ i > Len(s) /\ i - Len(s) \in 1..Len(t) /\ u[i] = t[i - Len(s)] /\ u[i] \in ToSet(t)
  <2>1. CASE i =< Len(s)
    <3>1. i \in 1..Len(s) /\ u[i] = s[i]
      BY <1>1, <1>2, <2>1
    <3> QED
      BY <1>1, <2>1, <3>1
  <2>2. CASE i > Len(s)
    <3>1. PICK m, n : m = Len(s) /\ n = Len(t)
      OBVIOUS
    <3>2. i - m \in 1..n
      BY <1>1, <1>2, <2>2, <3>1
    <3>3. u[i] = t[i - Len(s)]
      BY <1>1, <1>2, <2>2
    <3> QED
      BY <1>1, <2>2, <3>1, <3>2, <3>3
  <2> QED
    BY <1>1, <1>2, <2>1, <2>2
<1>4. IsInjective(u)
  <2> SUFFICES ASSUME NEW i \in 1..Len(u), NEW j \in 1..Len(u), u[i] = u[j]
               PROVE  i = j
    BY <1>2 DEF IsInjective
  <2>1. (i =< Len(s) /\ j =< Len(s)) \/ (i > Len(s) /\ j > Len(s))
    BY <1>1, <1>3
  <2>2. CASE i =< Len(s) /\ j =< Len(s)
    <3>1. i \in 1..Len(s) /\ j \in 1..Len(s) /\ s[i] = s[j]
      BY <1>1, <1>3, <2>2
    <3> QED
      BY <1>1, <3>1
  <2>3. CASE i > Len(s) /\ j > Len(s)
    <3>1. i - Len(s) \in 1..Len(t) /\ j - Len(s) \in 1..Len(t) /\ t[i - Len(s)] = t[j - Len(s)]
      BY <1>1, <1>3, <2>3
    <3>2. i - Len(s) = j - Len(s)
      BY <1>1, <3>1
    <3> QED
      BY <1>1, <3>2
  <2> QED
    BY <2>1, <2>2, <2>3
<1>5. \A x : x \in ToSet(u) <=> x \in ToSet(s) \/ x \in ToSet(t)
  <2>1. ToSet(u) \subseteq ToSet(s) \union ToSet(t)
    <3> SUFFICES ASSUME NEW x \in ToSet(u)
                 PROVE  x \in ToSet(s) \union ToSet(t)
      OBVIOUS
    <3>1. PICK i \in 1..Len(u) : u[i] = x
      BY <1>2 DEF ToSet
    <3> QED
      BY <1>3, <3>1
  <2>2. ASSUME NEW x \in ToSet(s) PROVE x \in ToSet(u)
    <3>1. PICK i \in 1..Len(s) : s[i] = x
      BY <1>1, <2>2
    <3>2. i \in DOMAIN u /\ u[i] = x
      BY <1>1, <1>2, <3>1
    <3> QED
      BY <3>2 DEF ToSet
  <2>3. ASSUME NEW x \in ToSet(t) PROVE x \in ToSet(u)
    <3>1. PICK i \in 1..Len(t) : t[i] = x
      BY <1>1, <2>3
    <3>2. i + Len(s) \in DOMAIN u /\ u[i + Len(s)] = t[(i + Len(s)) - Len(s)] /\ (i + Len(s)) - Len(s) = i
      BY <1>1, <1>2, <3>1
    <3> QED
      BY <3>1, <3>2 DEF ToSet
  <2> QED
    BY <2>1, <2>2, <2>3
<1>6. \A i \in 1..Len(s) : u[i] = s[i]
  BY <1>1, <1>2
<1> QED
  BY <1>2, <1>4, <1>5, <1>6 DEF Selection

LEMMA AddSelects ==
  ASSUME NEW W, NEW s, Selection(s, W), NEW w \in W
  PROVE  Selection(Add(s, w), W) /\ ToSet(Add(s, w)) = ToSet(s) \union {w}
<1>1. CASE w \in ToSet(s)
  BY <1>1 DEF Add
<1>2. CASE w \notin ToSet(s)
  <2>1. PICK t : t = <<w>>
    OBVIOUS
  <2>2. Selection(t, W) /\ ToSet(t) = {w}
    BY <2>1 DEF Selection, IsInjective, ToSet
  <2>3. Append(s, w) = s \o t
    BY <2>1 DEF Selection
  <2>4. \A x \in ToSet(s) : x \notin ToSet(t)
    BY <1>2, <2>2
  <2>5. Add(s, w) = s \o t
    BY <1>2, <2>3 DEF Add
  <2>6. PICK u : u = s \o t
    OBVIOUS
  <2>7. Selection(u, W)
    BY <2>2, <2>4, <2>6, SelectionsJoin, Zenon
  <2>8. \A x : x \in ToSet(u) <=> x \in ToSet(s) \/ x \in ToSet(t)
    BY <2>2, <2>4, <2>6, SelectionsJoin
  <2> QED
    BY <2>2, <2>5, <2>6, <2>7, <2>8
<1> QED
  BY <1>1, <1>2

\* What a filter keeps of a selection is one.
LEMMA FilterSelects ==
  ASSUME NEW W, NEW s, Selection(s, W), NEW S
  PROVE  Selection(Filtered(s, S), W) /\ ToSet(Filtered(s, S)) = ToSet(s) \intersect S
<1>1. PICK f : f = Filtered(s, S)
  OBVIOUS
<1>2. /\ s \in Seq(W) /\ Len(s) \in Nat
      /\ \A x : x \in ToSet(s) <=> \E i \in 1..Len(s) : s[i] = x
      /\ \A i, j \in 1..Len(s) : s[i] = s[j] => i = j
  BY SelectionIs
<1>3. /\ f \in Seq(S \intersect W) /\ InTheirOrder(f, s, Len(s))
      /\ \A i \in 1..Len(s) : s[i] \in S => Holds(f, s[i])
  BY <1>1, <1>2, FilterComputes, FilterOrders
<1>4. Len(f) \in Nat /\ DOMAIN f = 1..Len(f) /\ \A i \in 1..Len(f) : f[i] \in S \intersect W
  BY <1>3
<1>5. f \in Seq(W)
  BY <1>3
<1>6. IsInjective(f)
  <2> SUFFICES ASSUME NEW i \in 1..Len(f), NEW j \in 1..Len(f), i # j
               PROVE  f[i] # f[j]
    BY <1>4 DEF IsInjective
  <2>1. CASE i < j
    <3>1. PICK a \in 1..Len(s), b \in 1..Len(s) : a < b /\ f[i] = s[a] /\ f[j] = s[b]
      BY <1>3, <2>1 DEF InTheirOrder
    <3> QED
      BY <1>2, <3>1
  <2>2. CASE j < i
    <3>1. PICK a \in 1..Len(s), b \in 1..Len(s) : a < b /\ f[j] = s[a] /\ f[i] = s[b]
      BY <1>3, <2>2 DEF InTheirOrder
    <3> QED
      BY <1>2, <3>1
  <2> QED
    BY <1>4, <2>1, <2>2
<1>7. ToSet(f) = ToSet(s) \intersect S
  <2>1. ASSUME NEW x \in ToSet(f)
        PROVE  x \in ToSet(s) \intersect S
    <3>1. PICK i \in 1..Len(f) : f[i] = x
      BY <1>4 DEF ToSet
    <3>2. PICK a \in 1..Len(s) : f[i] = s[a]
      BY <1>3 DEF InTheirOrder
    <3> QED
      BY <1>2, <1>4, <3>1, <3>2
  <2>2. ASSUME NEW x \in ToSet(s) \intersect S
        PROVE  x \in ToSet(f)
    <3>1. PICK a \in 1..Len(s) : s[a] = x
      BY <1>2
    <3>2. PICK j \in 1..Len(f) : f[j] = x
      BY <1>3, <3>1 DEF Holds
    <3> QED
      BY <1>4, <3>2 DEF ToSet
  <2> QED
    BY <2>1, <2>2
<1> QED
  BY <1>1, <1>5, <1>6, <1>7 DEF Selection

LEMMA DirectoriesAreFinite ==
  ASSUME NEW W, NEW ws, ws \in Seq(W)
  PROVE  IsFiniteSet(ToSet(ws)) /\ Cardinality(ToSet(ws)) =< Len(ws) /\ Cardinality(ToSet(ws)) \in Nat
<1>1. DOMAIN ws = 1..Len(ws) /\ Len(ws) \in Nat
  OBVIOUS
<1>2. IsFiniteSet(1..Len(ws)) /\ Cardinality(1..Len(ws)) = Len(ws)
  BY <1>1, FS_Interval
<1>3. ws \in Surjection(1..Len(ws), ToSet(ws))
  <2>1. ws \in [1..Len(ws) -> ToSet(ws)]
    BY <1>1 DEF ToSet
  <2>2. \A x \in ToSet(ws) : \E i \in 1..Len(ws) : ws[i] = x
    BY <1>1 DEF ToSet
  <2> QED
    BY <2>1, <2>2 DEF Surjection
<1>4. IsFiniteSet(ToSet(ws)) /\ Cardinality(ToSet(ws)) =< Cardinality(1..Len(ws))
  BY <1>2, <1>3, FS_Surjection
<1> QED
  BY <1>2, <1>4, FS_CardinalityType

\* Each changed path has one owner, and the owners are selected.
HoldersOf(ws, changed) == {w \in ToSet(ws) : \E k \in DOMAIN changed : IsPrefix(w.dir, changed[k])}
LEMMA OwnersAreSelected ==
  ASSUME NEW W, NEW ws, ws \in Seq(W), NEW D, NEW changed, changed \in Seq(D), Owned(ws, changed)
  PROVE  /\ Selection(AddOwners(ws, changed), ToSet(ws))
         /\ ToSet(AddOwners(ws, changed)) = HoldersOf(ws, changed)
<1> DEFINE N == Len(changed)
           V == ToSet(ws)
           X == {s \in Seq(V) : IsInjective(s)}
           owner(k) == CHOOSE w \in OwnersOf(ws, changed[k]) : TRUE
           G == [k \in 1..N |-> [h \in X |-> Add(h, owner(k))]]
           Body(f) == [k \in 0..N |-> IF k = 0 THEN <<>> ELSE Add(f[k - 1], owner(k))]
           made == CHOOSE f : f = Body(f)
<1>1. N \in Nat /\ DOMAIN changed = 1..N
  OBVIOUS
<1>2. \A s : s \in X <=> Selection(s, V)
  BY DEF Selection
<1>3. ASSUME NEW k \in 1..N
      PROVE  OwnersOf(ws, changed[k]) = {owner(k)} /\ owner(k) \in V
  <2>1. Cardinality(OwnersOf(ws, changed[k])) = 1
    BY <1>1 DEF Owned
  <2>2. OwnersOf(ws, changed[k]) \in SUBSET V
    BY DEF OwnersOf
  <2>3. IsFiniteSet(OwnersOf(ws, changed[k]))
    BY <2>2, DirectoriesAreFinite, FS_Subset
  <2>4. PICK x : OwnersOf(ws, changed[k]) = {x}
    BY <2>1, <2>3, FS_Singleton
  <2>5. owner(k) = x
    BY <2>4
  <2> QED
    BY <2>2, <2>4, <2>5
<1>4. AddOwners(ws, changed) = made[N]
  BY DEF AddOwners
<1> HIDE DEF owner
<1>5. ASSUME NEW h \in X, NEW k \in 1..N
      PROVE  Add(h, owner(k)) \in X /\ ToSet(Add(h, owner(k))) = ToSet(h) \union {owner(k)}
  <2> HIDE DEF X
  <2> QED
    BY <1>2, <1>3, AddSelects
<1> HIDE DEF X, V
<1>6. <<>> \in X /\ ToSet(<<>>) = {}
  BY <1>2, NothingSelected
<1>7. G \in [1..N -> [X -> X]] /\ \A k \in 1..N : \A h \in X : G[k][h] = Add(h, owner(k))
  BY <1>5
<1> HIDE DEF G
<1>8. PICK g : Computes(g, X, N, <<>>, G)
  <2> HIDE DEF N
  <2> QED
    BY <1>1, <1>6, <1>7, Recursion
<1>9. g = Body(g)
  <2>1. ASSUME NEW k \in 0..N
        PROVE  g[k] = IF k = 0 THEN <<>> ELSE Add(g[k - 1], owner(k))
    <3> HIDE DEF N
    <3>1. ASSUME k # 0 PROVE k \in 1..N /\ k - 1 \in 0..N
      BY <1>1, <3>1
    <3> QED
      BY <1>7, <1>8, <3>1 DEF Computes
  <2> QED
    BY <1>8, <2>1 DEF Computes
<1>10. made = Body(made)
  BY <1>9
<1> HIDE DEF made
<1> DEFINE T == {k \in 0..N : made[k] \in X /\ ToSet(made[k]) = {owner(j) : j \in 1..k}}
<1>11. 0 \in T
  <2>1. made[0] = <<>>
    <3>1. made[0] = Body(made)[0]
      BY <1>10
    <3> QED
      BY <1>1, <3>1
  <2> QED
    BY <1>1, <1>6, <2>1
<1>12. ASSUME NEW k \in 0..N, k \in T, k < N
       PROVE  k + 1 \in T
  <2>1. k + 1 \in 1..N /\ k + 1 \in 0..N /\ (k + 1) - 1 = k
    BY <1>1, <1>12
  <2>2. made[k + 1] = Add(made[k], owner(k + 1))
    <3>1. made[k + 1] = Body(made)[k + 1]
      BY <1>10
    <3>2. Body(made)[k + 1] = Add(made[(k + 1) - 1], owner(k + 1))
      BY <2>1
    <3> QED
      BY <2>1, <3>1, <3>2
  <2>3. made[k + 1] \in X /\ ToSet(made[k + 1]) = ToSet(made[k]) \union {owner(k + 1)}
    BY <1>5, <1>12, <2>1, <2>2
  <2>4. {owner(j) : j \in 1..(k + 1)} = {owner(j) : j \in 1..k} \union {owner(k + 1)}
    <3>1. 1..(k + 1) = 1..k \union {k + 1}
      BY <1>1
    <3> QED
      BY <3>1
  <2> QED
    BY <1>12, <2>1, <2>3, <2>4
<1>13. 0..N \subseteq T
  <2> HIDE DEF T
  <2> QED
    BY <1>1, <1>11, <1>12, Counting
<1>14. made[N] \in X /\ ToSet(made[N]) = {owner(j) : j \in 1..N}
  BY <1>1, <1>13
<1>15. {owner(j) : j \in 1..N} = HoldersOf(ws, changed)
  <2>1. ASSUME NEW j \in 1..N
        PROVE  owner(j) \in HoldersOf(ws, changed)
    <3>1. owner(j) \in V /\ IsPrefix(owner(j).dir, changed[j])
      BY <1>3 DEF OwnersOf
    <3> QED
      BY <1>1, <3>1 DEF HoldersOf, V
  <2>2. ASSUME NEW w \in HoldersOf(ws, changed)
        PROVE  \E j \in 1..N : w = owner(j)
    <3>1. PICK j \in 1..N : w \in ToSet(ws) /\ IsPrefix(w.dir, changed[j])
      BY <1>1 DEF HoldersOf
    <3>2. w \in OwnersOf(ws, changed[j])
      BY <3>1 DEF OwnersOf
    <3> QED
      BY <1>3, <3>2
  <2> QED
    BY <2>1, <2>2
<1>16. Selection(made[N], V)
  BY <1>2, <1>14
<1> QED
  BY <1>4, <1>14, <1>15, <1>16 DEF V

\* The walk comes to everyone in the list: at the nth, those who depend on the first n are
\* in it, and nobody is in it but whom every closed set of workspaces has.
DependentsIn(S, V) == \A s \in S : \A w \in V : s.name \in w.deps => w \in S
Walked(h, n, selected, V) ==
  /\ Selection(h, V) /\ ToSet(selected) \subseteq ToSet(h)
  /\ \A m \in 1..n : m =< Len(h) => \A w \in V : h[m].name \in w.deps => w \in ToSet(h)
  /\ \A S \in SUBSET V : ToSet(selected) \subseteq S /\ DependentsIn(S, V) => ToSet(h) \subseteq S
Walk(ws, h, k) == IF k > Len(h) THEN h ELSE h \o Dependents(ws, h, h[k])

LEMMA DependentsAreSelected ==
  ASSUME NEW V, NEW ws, Selection(ws, V), ToSet(ws) = V, NEW h, Selection(h, V), NEW k \in 1..Len(h)
  PROVE  /\ Selection(Walk(ws, h, k), V) /\ Len(h) =< Len(Walk(ws, h, k))
         /\ ToSet(Walk(ws, h, k)) = ToSet(h) \union {w \in V : h[k].name \in w.deps}
         /\ \A i \in 1..Len(h) : Walk(ws, h, k)[i] = h[i]
<1>1. PICK D : D = Dependents(ws, h, h[k])
  OBVIOUS
<1>2. Selection(D, V) /\ ToSet(D) = {w \in V : w \notin ToSet(h) /\ h[k].name \in w.deps}
  <2>1. PICK S : S = {w \in V : w \notin ToSet(h) /\ h[k].name \in w.deps}
    OBVIOUS
  <2>2. D = Filtered(ws, S)
    BY <1>1, <2>1 DEF Dependents
  <2>3. Selection(Filtered(ws, S), V) /\ ToSet(Filtered(ws, S)) = ToSet(ws) \intersect S
    BY FilterSelects
  <2> QED
    BY <2>1, <2>2, <2>3
<1>3. Len(h) \in Nat
  BY SelectionIs
<1>4. PICK u : u = h \o D
  OBVIOUS
<1>5. /\ Selection(u, V) /\ ToSet(u) = ToSet(h) \union ToSet(D)
      /\ Len(u) = Len(h) + Len(D) /\ \A i \in 1..Len(h) : u[i] = h[i]
  <2>1. \A x \in ToSet(h) : x \notin ToSet(D)
    BY <1>2
  <2>2. Selection(D, V) /\ Selection(h, V)
    BY <1>2
  <2>3. Selection(u, V)
    BY <1>4, <2>1, <2>2, SelectionsJoin, Zenon
  <2>4. \A x : x \in ToSet(u) <=> x \in ToSet(h) \/ x \in ToSet(D)
    BY <1>4, <2>1, <2>2, SelectionsJoin
  <2>5. Len(u) = Len(h) + Len(D)
    BY <1>4, <2>1, <2>2, SelectionsJoin
  <2>6. \A i \in 1..Len(h) : u[i] = h[i]
    BY <1>4, <2>1, <2>2, SelectionsJoin
  <2> QED
    BY <2>3, <2>4, <2>5, <2>6
<1>6. Len(D) \in Nat
  BY <1>2, SelectionIs
<1>7. Walk(ws, h, k) = u
  BY <1>1, <1>3, <1>4 DEF Walk
<1> QED
  BY <1>2, <1>3, <1>5, <1>6, <1>7

LEMMA WalkGoesOn ==
  ASSUME NEW V, NEW ws, Selection(ws, V), ToSet(ws) = V, NEW selected, NEW h, NEW n \in Nat,
         Walked(h, n, selected, V)
  PROVE  Walked(Walk(ws, h, n + 1), n + 1, selected, V)
<1>1. Selection(h, V) /\ Len(h) \in Nat /\ \A x : x \in ToSet(h) <=> \E i \in 1..Len(h) : h[i] = x
  BY SelectionIs DEF Walked
<1>2. CASE n + 1 > Len(h)
  <2>1. Walk(ws, h, n + 1) = h
    BY <1>2 DEF Walk
  <2>2. \A m \in 1..(n + 1) : m =< Len(h) => m \in 1..n
    BY <1>1, <1>2
  <2> QED
    BY <2>1, <2>2 DEF Walked
<1>3. CASE n + 1 =< Len(h)
  <2>1. n + 1 \in 1..Len(h)
    BY <1>1, <1>3
  <2>2. PICK g : g = Walk(ws, h, n + 1)
    OBVIOUS
  <2>3. /\ Selection(g, V) /\ Len(h) =< Len(g) /\ ToSet(g) = ToSet(h) \union {w \in V : h[n + 1].name \in w.deps}
        /\ \A i \in 1..Len(h) : g[i] = h[i]
    BY <1>1, <2>1, <2>2, DependentsAreSelected
  <2>4. ASSUME NEW m \in 1..(n + 1), NEW w \in V, g[m].name \in w.deps
        PROVE  w \in ToSet(g)
    <3>1. m \in 1..Len(h) /\ g[m] = h[m]
      BY <1>1, <1>3, <2>3
    <3>2. CASE m = n + 1
      BY <2>3, <2>4, <3>1, <3>2
    <3>3. CASE m # n + 1
      <4>1. m \in 1..n /\ m =< Len(h)
        BY <3>1, <3>3
      <4> QED
        BY <2>3, <2>4, <3>1, <4>1 DEF Walked
    <3> QED
      BY <3>2, <3>3
  <2>5. ASSUME NEW S \in SUBSET V, ToSet(selected) \subseteq S, DependentsIn(S, V)
        PROVE  ToSet(g) \subseteq S
    <3>1. ToSet(h) \subseteq S
      BY <2>5 DEF Walked
    <3>2. h[n + 1] \in S
      BY <1>1, <2>1, <3>1
    <3> QED
      BY <2>3, <2>5, <3>1, <3>2 DEF DependentsIn
  <2>6. ToSet(selected) \subseteq ToSet(g)
    BY <2>3 DEF Walked
  <2>7. Walked(g, n + 1, selected, V)
    BY <2>3, <2>4, <2>5, <2>6 DEF Walked
  <2> QED
    BY <2>2, <2>7
<1> QED
  BY <1>1, <1>2, <1>3

LEMMA WalkEnds ==
  ASSUME NEW V, NEW ws, Selection(ws, V), ToSet(ws) = V, NEW selected, Selection(selected, V)
  PROVE  Walked(AddDependents(ws, selected), Len(ws), selected, V)
<1> DEFINE N == Len(ws)
           X == {s \in Seq(V) : IsInjective(s)}
           G == [k \in 1..N |-> [h \in X |-> Walk(ws, h, k)]]
           Body(f) == [n \in 0..N |-> IF n = 0 THEN selected ELSE Walk(ws, f[n - 1], n)]
           made == CHOOSE f : f = Body(f)
<1>1. N \in Nat
  BY SelectionIs
<1>2. \A s : s \in X <=> Selection(s, V)
  BY DEF Selection
<1>3. AddDependents(ws, selected) = made[N]
  BY DEF AddDependents, Walk
<1> HIDE DEF X
<1>4. ASSUME NEW h \in X, NEW k \in 1..N
      PROVE  Walk(ws, h, k) \in X
  <2>1. CASE k > Len(h)
    BY <2>1 DEF Walk
  <2>2. CASE ~(k > Len(h))
    <3>1. Len(h) \in Nat
      BY <1>2, SelectionIs
    <3>2. k \in 1..Len(h)
      BY <1>1, <2>2, <3>1
    <3> QED
      BY <1>2, <3>2, DependentsAreSelected
  <2> QED
    BY <2>1, <2>2
<1>5. G \in [1..N -> [X -> X]] /\ \A k \in 1..N : \A h \in X : G[k][h] = Walk(ws, h, k)
  BY <1>4
<1>6. selected \in X
  BY <1>2
<1> HIDE DEF G
<1>7. PICK g : Computes(g, X, N, selected, G)
  <2> HIDE DEF N
  <2> QED
    BY <1>1, <1>5, <1>6, Recursion
<1>8. g = Body(g)
  <2>1. ASSUME NEW k \in 0..N
        PROVE  g[k] = IF k = 0 THEN selected ELSE Walk(ws, g[k - 1], k)
    <3> HIDE DEF N
    <3>1. ASSUME k # 0 PROVE k \in 1..N /\ k - 1 \in 0..N
      BY <1>1, <3>1
    <3> QED
      BY <1>5, <1>7, <3>1 DEF Computes
  <2> QED
    BY <1>7, <2>1 DEF Computes
<1>9. made = Body(made)
  BY <1>8
<1> HIDE DEF made
<1> DEFINE T == {k \in 0..N : Walked(made[k], k, selected, V)}
<1>10. 0 \in T
  <2>1. made[0] = selected
    <3>1. made[0] = Body(made)[0]
      BY <1>9
    <3> QED
      BY <1>1, <3>1
  <2>2. Walked(selected, 0, selected, V)
    BY DEF Walked
  <2> QED
    BY <1>1, <2>1, <2>2
<1>11. ASSUME NEW k \in 0..N, k \in T, k < N
       PROVE  k + 1 \in T
  <2>1. k \in Nat /\ k + 1 \in 0..N /\ k + 1 # 0 /\ (k + 1) - 1 = k
    BY <1>1, <1>11
  <2>2. made[k + 1] = Walk(ws, made[k], k + 1)
    <3>1. made[k + 1] = Body(made)[k + 1]
      BY <1>9
    <3>2. Body(made)[k + 1] = Walk(ws, made[(k + 1) - 1], k + 1)
      BY <2>1
    <3> QED
      BY <2>1, <3>1, <3>2
  <2>3. Walked(Walk(ws, made[k], k + 1), k + 1, selected, V)
    BY <1>11, <2>1, WalkGoesOn
  <2> QED
    BY <2>1, <2>2, <2>3
<1>12. 0..N \subseteq T
  <2> HIDE DEF T
  <2> QED
    BY <1>1, <1>10, <1>11, Counting
<1>13. Walked(made[N], N, selected, V)
  BY <1>1, <1>12
<1> QED
  BY <1>3, <1>13

\* No list of workspaces is longer than they are, so the walk leaves nobody out.
LEMMA WalkCloses ==
  ASSUME NEW V, NEW ws, Selection(ws, V), ToSet(ws) = V, NEW selected, Selection(selected, V)
  PROVE  /\ Selection(AddDependents(ws, selected), V) /\ ToSet(selected) \subseteq ToSet(AddDependents(ws, selected))
         /\ DependentsIn(ToSet(AddDependents(ws, selected)), V)
         /\ \A S \in SUBSET V : ToSet(selected) \subseteq S /\ DependentsIn(S, V) => ToSet(AddDependents(ws, selected)) \subseteq S
<1>1. PICK h : h = AddDependents(ws, selected)
  OBVIOUS
<1>2. Walked(h, Len(ws), selected, V)
  BY <1>1, WalkEnds
<1>3. /\ Selection(h, V) /\ h \in Seq(V) /\ Len(h) \in Nat /\ DOMAIN h = 1..Len(h)
      /\ \A x : x \in ToSet(h) <=> \E i \in 1..Len(h) : h[i] = x
  BY <1>2, SelectionIs DEF Walked
<1>4. ws \in Seq(V) /\ Len(ws) \in Nat
  BY SelectionIs
<1>5. Len(h) =< Len(ws)
  <2>1. IsFiniteSet(V) /\ Cardinality(V) =< Len(ws) /\ Cardinality(V) \in Nat
    BY <1>4, DirectoriesAreFinite
  <2>2. h \in Injection(1..Len(h), V)
    BY <1>3 DEF Injection, Selection
  <2>3. Cardinality(1..Len(h)) =< Cardinality(V)
    BY <2>1, <2>2, FS_Injection
  <2>4. Cardinality(1..Len(h)) = Len(h)
    BY <1>3, FS_Interval
  <2> QED
    BY <1>3, <1>4, <2>1, <2>3, <2>4
<1>6. DependentsIn(ToSet(h), V)
  <2> SUFFICES ASSUME NEW s \in ToSet(h), NEW w \in V, s.name \in w.deps
               PROVE  w \in ToSet(h)
    BY DEF DependentsIn
  <2>1. PICK m \in 1..Len(h) : h[m] = s
    BY <1>3
  <2>2. m \in 1..Len(ws) /\ m =< Len(h)
    BY <1>3, <1>4, <1>5
  <2> QED
    BY <1>2, <2>1, <2>2 DEF Walked
<1> QED
  BY <1>1, <1>2, <1>3, <1>6 DEF Walked

\* The selection is what the change reaches.
LEMMA SelectedIsReached ==
  ASSUME NEW ws, Selection(ws, ToSet(ws)), NEW D, NEW changed, changed \in Seq(D), Owned(ws, changed),
         NEW h, h = AddDependents(ws, AddOwners(ws, changed))
  PROVE  /\ Selection(h, ToSet(ws)) /\ ToSet(h) = Reached(ws, changed)
         /\ \A k \in DOMAIN changed : \E w \in ToSet(h) : IsPrefix(w.dir, changed[k])
<1>1. PICK V : V = ToSet(ws)
  OBVIOUS
<1>2. PICK s : s = AddOwners(ws, changed)
  OBVIOUS
<1>3. ws \in Seq(V) /\ Selection(ws, V)
  BY <1>1 DEF Selection
<1>4. Selection(s, V) /\ ToSet(s) = HoldersOf(ws, changed)
  BY <1>1, <1>2, <1>3, OwnersAreSelected
<1>5. /\ Selection(h, V) /\ ToSet(s) \subseteq ToSet(h) /\ DependentsIn(ToSet(h), V)
      /\ \A S \in SUBSET V : ToSet(s) \subseteq S /\ DependentsIn(S, V) => ToSet(h) \subseteq S
  BY <1>1, <1>2, <1>3, <1>4, WalkCloses
<1>6. ToSet(h) \subseteq V
  BY <1>5, SelectionIs
<1> DEFINE Closed(S) == \A w \in V : w.deps \intersect {x.name : x \in S} # {} => w \in S
<1>7. \A S : Closed(S) <=> DependentsIn(S, V)
  <2> SUFFICES ASSUME NEW S
               PROVE  Closed(S) <=> DependentsIn(S, V)
    OBVIOUS
  <2>1. ASSUME Closed(S), NEW x \in S, NEW w \in V, x.name \in w.deps
        PROVE  w \in S
    BY <2>1
  <2>2. ASSUME DependentsIn(S, V), NEW w \in V, w.deps \intersect {x.name : x \in S} # {}
        PROVE  w \in S
    BY <2>2 DEF DependentsIn
  <2>3. Closed(S) => DependentsIn(S, V)
    BY <2>1 DEF DependentsIn
  <2> QED
    BY <2>2, <2>3
<1>8. Reached(ws, changed) = {w \in V : \A S \in SUBSET V : HoldersOf(ws, changed) \subseteq S /\ Closed(S) => w \in S}
  BY <1>1 DEF Reached, HoldersOf
<1> HIDE DEF Closed
<1>9. ToSet(h) = Reached(ws, changed)
  <2>1. ASSUME NEW w \in ToSet(h)
        PROVE  w \in Reached(ws, changed)
    BY <1>4, <1>5, <1>6, <1>7, <1>8, <2>1
  <2>2. ASSUME NEW w \in Reached(ws, changed)
        PROVE  w \in ToSet(h)
    BY <1>4, <1>5, <1>6, <1>7, <1>8, <2>2
  <2> QED
    BY <2>1, <2>2
<1>10. ASSUME NEW k \in DOMAIN changed
       PROVE  \E w \in ToSet(h) : IsPrefix(w.dir, changed[k])
  <2>1. k \in 1..Len(changed)
    OBVIOUS
  <2>2. OwnersOf(ws, changed[k]) # {}
    <3>1. Cardinality(OwnersOf(ws, changed[k])) = 1
      BY DEF Owned
    <3>2. OwnersOf(ws, changed[k]) \in SUBSET V
      BY <1>1 DEF OwnersOf
    <3>3. IsFiniteSet(OwnersOf(ws, changed[k]))
      BY <1>1, <1>3, <3>2, DirectoriesAreFinite, FS_Subset
    <3> QED
      BY <3>1, <3>3, FS_Singleton
  <2>3. PICK w \in V : IsPrefix(w.dir, changed[k])
    BY <1>1, <2>2 DEF OwnersOf
  <2>4. w \in HoldersOf(ws, changed)
    BY <1>1, <2>3 DEF HoldersOf
  <2> QED
    BY <1>4, <1>5, <2>3, <2>4
<1> QED
  BY <1>1, <1>5, <1>9, <1>10

\* What a list of lists is flattened to, list by list.
FlattensBy(f, q, C) ==
  /\ f[0] = <<>> /\ FlattenSeq(q) = f[Len(q)]
  /\ \A k \in 0..Len(q) : f[k] \in Seq(C)
  /\ \A k \in 0..Len(q) : k < Len(q) => f[k + 1] = f[k] \o q[k + 1]
LEMMA FlattenSteps ==
  ASSUME NEW C, NEW q, q \in Seq(Seq(C))
  PROVE  \E f : FlattensBy(f, q, C)
<1> DEFINE N == Len(q)
           X == Seq(C)
           Body(f) == [i \in 1..N |-> IF i = 1 THEN q[i] ELSE f[i - 1] \o q[i]]
           flat == CHOOSE f : f = Body(f)
           G == [k \in 1..N |-> [h \in X |-> h \o q[k]]]
<1>1. N \in Nat /\ <<>> \in X /\ \A k \in 1..N : q[k] \in X
  BY EmptySeq
<1>2. CASE N = 0
  <2> DEFINE f == [k \in 0..0 |-> <<>>]
  <2>1. FlattenSeq(q) = <<>>
    <3>1. q = <<>>
      BY <1>1, <1>2
    <3> QED
      BY <1>2, <3>1 DEF FlattenSeq
  <2>2. FlattensBy(f, q, C)
    BY <1>1, <1>2, <2>1 DEF FlattensBy
  <2> HIDE DEF f
  <2> QED
    BY <2>2
<1>3. CASE N # 0
  <2>1. FlattenSeq(q) = flat[N]
    BY <1>3 DEF FlattenSeq
  <2>2. \A k \in 1..N : \A h \in X : h \o q[k] \in X /\ G[k][h] = h \o q[k]
    BY <1>1
  <2>3. G \in [1..N -> [X -> X]]
    BY <2>2
  <2> HIDE DEF G, X
  <2>4. PICK g : Computes(g, X, N, <<>>, G)
    <3> HIDE DEF N
    <3> QED
      BY <1>1, <2>3, Recursion
  <2>5. /\ g \in [0..N -> X] /\ g[0] = <<>>
        /\ \A k \in 1..N : g[k] = g[k - 1] \o q[k]
    <3>1. g \in [0..N -> X] /\ g[0] = <<>> /\ \A k \in 1..N : g[k] = G[k][g[k - 1]]
      BY <2>4 DEF Computes
    <3>2. ASSUME NEW k \in 1..N
          PROVE  g[k] = g[k - 1] \o q[k]
      <4>1. k - 1 \in 0..N
        BY <1>1
      <4>2. g[k - 1] \in X
        BY <3>1, <4>1
      <4> QED
        BY <2>2, <3>1, <4>2
    <3> QED
      BY <3>1, <3>2
  <2> DEFINE e == [k \in 1..N |-> g[k]]
  <2>6. e = Body(e)
    <3>1. ASSUME NEW i \in 1..N
          PROVE  g[i] = IF i = 1 THEN q[i] ELSE e[i - 1] \o q[i]
      <4>1. CASE i = 1
        <5>1. g[1] = g[0] \o q[1]
          <6>1. 1 \in 1..N /\ 1 - 1 = 0
            BY <1>1, <1>3
          <6> QED
            BY <2>5, <6>1
        <5>2. <<>> \o q[1] = q[1]
          BY <1>1, <1>3 DEF X
        <5> QED
          BY <2>5, <4>1, <5>1, <5>2
      <4>2. CASE i # 1
        <5>1. i - 1 \in 1..N
          BY <1>1, <4>2
        <5>2. e[i - 1] = g[i - 1]
          BY <5>1
        <5> QED
          BY <2>5, <4>2, <5>2
      <4> QED
        BY <4>1, <4>2
    <3> QED
      BY <3>1
  <2> HIDE DEF e
  <2>7. flat = Body(flat)
    BY <2>6
  <2> HIDE DEF flat
  <2> DEFINE f == [k \in 0..N |-> IF k = 0 THEN <<>> ELSE flat[k]]
             T == {k \in 0..N : f[k] \in X}
  <2>8. \A k \in 1..N : flat[k] = IF k = 1 THEN q[k] ELSE flat[k - 1] \o q[k]
    <3> SUFFICES ASSUME NEW k \in 1..N
                 PROVE  flat[k] = IF k = 1 THEN q[k] ELSE flat[k - 1] \o q[k]
      OBVIOUS
    <3>1. flat[k] = Body(flat)[k]
      BY <2>7
    <3> QED
      BY <3>1
  <2>9. ASSUME NEW k \in 0..N, k < N
        PROVE  f[k + 1] = f[k] \o q[k + 1]
    <3>1. k + 1 \in 1..N /\ k + 1 \in 0..N /\ (k + 1) - 1 = k
      BY <1>1, <2>9
    <3>2. f[k + 1] = flat[k + 1]
      BY <3>1
    <3>3. CASE k = 0
      <4>1. f[k] = <<>> /\ flat[k + 1] = q[k + 1]
        BY <2>8, <3>1, <3>3
      <4>2. <<>> \o q[k + 1] = q[k + 1]
        BY <1>1, <3>1 DEF X
      <4> QED
        BY <3>2, <4>1, <4>2
    <3>4. CASE k # 0
      <4>1. f[k] = flat[k] /\ k + 1 # 1
        BY <1>1, <3>4
      <4>2. flat[k + 1] = flat[(k + 1) - 1] \o q[k + 1]
        BY <2>8, <3>1, <4>1
      <4> QED
        BY <3>1, <3>2, <4>1, <4>2
    <3> QED
      BY <3>3, <3>4
  <2>10. f[0] = <<>> /\ f[N] = flat[N]
    BY <1>1, <1>3
  <2> HIDE DEF f
  <2>11. 0 \in T
    BY <1>1, <2>10
  <2>12. ASSUME NEW k \in 0..N, k \in T, k < N
         PROVE  k + 1 \in T
    <3>1. k + 1 \in 1..N /\ k + 1 \in 0..N
      BY <1>1, <2>12
    <3>2. f[k] \o q[k + 1] \in X
      BY <2>2, <2>12, <3>1
    <3> QED
      BY <2>9, <2>12, <3>1, <3>2
  <2>13. 0..N \subseteq T
    <3> HIDE DEF T
    <3> QED
      BY <1>1, <2>11, <2>12, Counting
  <2>14. FlattensBy(f, q, C)
    BY <2>1, <2>9, <2>10, <2>13 DEF FlattensBy, X
  <2> QED
    BY <2>14
<1> QED
  BY <1>2, <1>3

\* The commands of one workspace: its scripts, in their order.
ScriptsInOrder(c) ==
  \A i, j \in 1..Len(c) : i < j /\ c[i][1] = c[j][1] =>
    \E a, b \in 1..4 : a < b /\ c[i][2] = ScriptOrder[a] /\ c[j][2] = ScriptOrder[b]

LEMMA ScriptsAre ==
  ScriptOrder \in Seq(ToSet(ScriptOrder)) /\ Len(ScriptOrder) = 4 /\ Selection(ScriptOrder, ToSet(ScriptOrder))
<1>1. PICK o : o = ScriptOrder
  OBVIOUS
<1>2. o = <<"check", "build", "test", "lint">>
  BY <1>1 DEF ScriptOrder
<1>3. Len(o) = 4 /\ DOMAIN o = 1..4
  BY <1>2
<1>4. \A i \in 1..4 : o[i] \in ToSet(o)
  BY <1>3 DEF ToSet
<1>5. o \in Seq(ToSet(o))
  <2>1. PICK Q : Q = ToSet(o)
    OBVIOUS
  <2>2. o[1] \in Q /\ o[2] \in Q /\ o[3] \in Q /\ o[4] \in Q
    BY <1>4, <2>1
  <2>3. "check" \in Q /\ "build" \in Q /\ "test" \in Q /\ "lint" \in Q
    BY <1>2, <2>2
  <2>4. <<"check", "build", "test", "lint">> \in Seq(Q)
    BY <2>3
  <2> QED
    BY <1>2, <2>1, <2>4
<1>6. \A i, j \in 1..4 : o[i] = o[j] => i = j
  BY <1>2
<1>7. IsInjective(o)
  BY <1>3, <1>6 DEF IsInjective
<1> QED
  BY <1>1, <1>3, <1>5, <1>7 DEF Selection

LEMMA CommandsOfOne ==
  ASSUME NEW w, w.scripts \subseteq ToSet(ScriptOrder), NEW Called, w.name \in Called,
         NEW c, c = CommandsOf(w)
  PROVE  /\ c \in Seq(Called \X ToSet(ScriptOrder))
         /\ \A x : Holds(c, x) <=> \E s \in w.scripts : x = <<w.name, s>>
         /\ \A i \in 1..Len(c) : c[i][1] = w.name
         /\ ScriptsInOrder(c)
<1>1. PICK Q : Q = ToSet(ScriptOrder)
  OBVIOUS
<1>2. PICK t : t = Filtered(ScriptOrder, w.scripts)
  OBVIOUS
<1>3. /\ Selection(t, Q) /\ ToSet(t) = w.scripts
      /\ InTheirOrder(t, ScriptOrder, 4)
  <2>1. Selection(t, Q) /\ ToSet(t) = ToSet(ScriptOrder) \intersect w.scripts
    BY <1>1, <1>2, ScriptsAre, FilterSelects
  <2>2. InTheirOrder(t, ScriptOrder, 4)
    BY <1>2, ScriptsAre, FilterOrders
  <2> QED
    BY <2>1, <2>2
<1>4. /\ t \in Seq(Q) /\ Len(t) \in Nat /\ DOMAIN t = 1..Len(t) /\ \A i \in 1..Len(t) : t[i] \in Q
      /\ \A x : x \in ToSet(t) <=> \E i \in 1..Len(t) : t[i] = x
  BY <1>3, SelectionIs
<1>5. c = [j \in 1..Len(t) |-> <<w.name, t[j]>>]
  BY <1>2, <1>4 DEF CommandsOf
<1>6. c \in Seq(Called \X Q) /\ Len(c) = Len(t)
  <2>1. PICK P : P = Called \X Q
    OBVIOUS
  <2>2. \A j \in 1..Len(t) : <<w.name, t[j]>> \in P
    BY <1>4, <2>1
  <2>3. c \in Seq(P) /\ Len(c) = Len(t)
    <3>1. c \in [1..Len(t) -> P]
      BY <1>5, <2>2
    <3> QED
      BY <1>4, <1>5, <3>1
  <2> QED
    BY <2>1, <2>3
<1>7. \A j \in 1..Len(c) : c[j] = <<w.name, t[j]>> /\ c[j][1] = w.name /\ c[j][2] = t[j]
  BY <1>5, <1>6
<1>8. ASSUME NEW x
      PROVE  Holds(c, x) <=> \E s \in w.scripts : x = <<w.name, s>>
  <2>1. ASSUME NEW j \in 1..Len(c), c[j] = x
        PROVE  \E s \in w.scripts : x = <<w.name, s>>
    <3>1. t[j] \in w.scripts
      BY <1>3, <1>4, <1>6
    <3> QED
      BY <1>7, <2>1, <3>1
  <2>2. ASSUME NEW s \in w.scripts, x = <<w.name, s>>
        PROVE  \E j \in 1..Len(c) : c[j] = x
    <3>1. PICK j \in 1..Len(t) : t[j] = s
      BY <1>3, <1>4
    <3>2. j \in 1..Len(c)
      BY <1>6
    <3> QED
      BY <1>7, <2>2, <3>1, <3>2
  <2> QED
    BY <2>1, <2>2 DEF Holds
<1>9. ScriptsInOrder(c)
  <2> SUFFICES ASSUME NEW i \in 1..Len(c), NEW j \in 1..Len(c), i < j
               PROVE  \E a, b \in 1..4 : a < b /\ c[i][2] = ScriptOrder[a] /\ c[j][2] = ScriptOrder[b]
    BY DEF ScriptsInOrder
  <2>1. PICK a \in 1..4, b \in 1..4 : a < b /\ t[i] = ScriptOrder[a] /\ t[j] = ScriptOrder[b]
    BY <1>3, <1>6 DEF InTheirOrder
  <2> QED
    BY <1>7, <2>1
<1> QED
  BY <1>1, <1>6, <1>7, <1>8, <1>9

\* The commands of a selection whose names are distinct.
LEMMA CommandsOfAll ==
  ASSUME NEW V, NEW h, Selection(h, V), \A w \in V : w.scripts \subseteq ToSet(ScriptOrder),
         \A u, w \in V : u.name = w.name => u = w,
         NEW c, c = CommandsFor(h)
  PROVE  /\ Len(c) \in Nat /\ DOMAIN c = 1..Len(c)
         /\ \A x : Holds(c, x) <=> \E w \in ToSet(h) : \E s \in w.scripts : x = <<w.name, s>>
         /\ ScriptsInOrder(c)
         /\ \E A : c \in Seq(A)
<1>1. PICK Called, Q, C : Called = {w.name : w \in V} /\ Q = ToSet(ScriptOrder) /\ C = Called \X Q
  OBVIOUS
<1>2. /\ h \in Seq(V) /\ Len(h) \in Nat /\ DOMAIN h = 1..Len(h)
      /\ \A x : x \in ToSet(h) <=> \E i \in 1..Len(h) : h[i] = x
      /\ \A i \in 1..Len(h) : h[i] \in V
      /\ \A i, j \in 1..Len(h) : h[i] = h[j] => i = j
  BY SelectionIs
<1>3. PICK q : q = [k \in DOMAIN h |-> CommandsOf(h[k])]
  OBVIOUS
<1>4. ASSUME NEW k \in 1..Len(h)
      PROVE  /\ q[k] \in Seq(C) /\ Len(q[k]) \in Nat /\ ScriptsInOrder(q[k])
             /\ \A x : Holds(q[k], x) <=> \E s \in h[k].scripts : x = <<h[k].name, s>>
             /\ \A i \in 1..Len(q[k]) : q[k][i][1] = h[k].name
  <2>1. PICK w : w = h[k]
    OBVIOUS
  <2>2. w \in V /\ w.scripts \subseteq ToSet(ScriptOrder) /\ w.name \in Called
    BY <1>1, <1>2, <2>1
  <2>3. PICK b : b = CommandsOf(w)
    OBVIOUS
  <2>4. /\ b \in Seq(Called \X ToSet(ScriptOrder)) /\ ScriptsInOrder(b)
        /\ \A x : Holds(b, x) <=> \E s \in w.scripts : x = <<w.name, s>>
        /\ \A i \in 1..Len(b) : b[i][1] = w.name
    BY <2>2, <2>3, CommandsOfOne
  <2>5. q[k] = b
    BY <1>2, <1>3, <2>1, <2>3
  <2>6. b \in Seq(C) /\ Len(b) \in Nat
    BY <1>1, <2>4
  <2> QED
    BY <2>1, <2>4, <2>5, <2>6
<1>5. q \in Seq(Seq(C)) /\ Len(q) = Len(h)
  <2>1. PICK X : X = Seq(C)
    OBVIOUS
  <2>2. DOMAIN q = 1..Len(h) /\ \A k \in 1..Len(h) : q[k] \in X
    BY <1>2, <1>3, <1>4, <2>1
  <2>3. q \in Seq(X) /\ Len(q) = Len(h)
    BY <1>2, <1>3, <2>2
  <2> QED
    BY <2>1, <2>3
<1>6. PICK f : FlattensBy(f, q, C)
  BY <1>5, FlattenSteps
<1> DEFINE N == Len(h)
           Said(k) == /\ \A x : Holds(f[k], x) <=> \E m \in 1..k : \E s \in h[m].scripts : x = <<h[m].name, s>>
                      /\ ScriptsInOrder(f[k])
           T == {k \in 0..N : Said(k)}
<1>7. \A k \in 0..N : f[k] \in Seq(C)
  BY <1>5, <1>6 DEF FlattensBy
<1>8. 0 \in T
  <2>1. PICK e : e = f[0]
    OBVIOUS
  <2>2. e = <<>>
    BY <1>6, <2>1 DEF FlattensBy
  <2>3. ScriptsInOrder(e) /\ \A x : ~Holds(e, x)
    BY <2>2 DEF ScriptsInOrder, Holds
  <2> QED
    BY <1>2, <2>1, <2>3
<1>9. ASSUME NEW k \in 0..N, k \in T, k < N
      PROVE  k + 1 \in T
  <2>1. k + 1 \in 1..N /\ k + 1 \in 0..N /\ 1..(k + 1) = 1..k \union {k + 1} /\ 1..k \subseteq 1..N /\ k + 1 \notin 1..k
    BY <1>2, <1>9
  <2>2. PICK g, b, e : g = f[k] /\ b = q[k + 1] /\ e = f[k + 1]
    OBVIOUS
  <2>3. g \in Seq(C) /\ b \in Seq(C) /\ e = g \o b
    BY <1>4, <1>5, <1>6, <1>7, <1>9, <2>1, <2>2 DEF FlattensBy
  <2>4. /\ ScriptsInOrder(b) /\ \A x : Holds(b, x) <=> \E s \in h[k + 1].scripts : x = <<h[k + 1].name, s>>
        /\ \A i \in 1..Len(b) : b[i][1] = h[k + 1].name
    BY <1>4, <2>1, <2>2
  <2>5. ScriptsInOrder(g) /\ \A x : Holds(g, x) <=> \E m \in 1..k : \E s \in h[m].scripts : x = <<h[m].name, s>>
    BY <1>9, <2>2
  <2>6. Len(g) \in Nat /\ Len(b) \in Nat /\ Len(e) = Len(g) + Len(b)
    BY <2>3
  <2>7. /\ \A i \in 1..Len(g) : i \in 1..Len(e) /\ e[i] = g[i]
        /\ \A i \in 1..Len(b) : i + Len(g) \in 1..Len(e) /\ e[i + Len(g)] = b[i]
    BY <2>3, <2>6
  <2>8. ASSUME NEW i \in 1..Len(e)
        PROVE  i \in 1..Len(g) \/ (i > Len(g) /\ \E j \in 1..Len(b) : i = j + Len(g))
    <3>1. CASE i =< Len(g)
      BY <2>6, <3>1
    <3>2. CASE i > Len(g)
      <4>1. i - Len(g) \in 1..Len(b) /\ i = (i - Len(g)) + Len(g)
        BY <2>6, <3>2
      <4> QED
        BY <3>2, <4>1
    <3> QED
      BY <2>6, <3>1, <3>2
  <2>9. \A x : Holds(e, x) <=> Holds(g, x) \/ Holds(b, x)
    <3>1. ASSUME NEW x, NEW i \in 1..Len(e), e[i] = x
          PROVE  Holds(g, x) \/ Holds(b, x)
      <4>1. CASE i \in 1..Len(g)
        BY <2>7, <3>1, <4>1 DEF Holds
      <4>2. CASE \E j \in 1..Len(b) : i = j + Len(g)
        BY <2>7, <3>1, <4>2 DEF Holds
      <4> QED
        BY <2>8, <4>1, <4>2
    <3>2. ASSUME NEW x, Holds(g, x) \/ Holds(b, x)
          PROVE  Holds(e, x)
      BY <2>7, <3>2 DEF Holds
    <3> QED
      BY <3>1, <3>2 DEF Holds
  <2>10. ASSUME NEW x
         PROVE  Holds(e, x) <=> \E m \in 1..(k + 1) : \E s \in h[m].scripts : x = <<h[m].name, s>>
    BY <2>1, <2>4, <2>5, <2>9
  <2>11. ASSUME NEW i \in 1..Len(g)
         PROVE  g[i][1] # h[k + 1].name
    <3>1. Holds(g, g[i])
      BY DEF Holds
    <3>2. PICK m \in 1..k : \E s : g[i] = <<h[m].name, s>>
      BY <2>5, <3>1
    <3>3. h[m] # h[k + 1] /\ h[m] \in V /\ h[k + 1] \in V
      BY <1>2, <2>1
    <3> QED
      BY <3>2, <3>3
  <2>12. ScriptsInOrder(e)
    <3> SUFFICES ASSUME NEW i \in 1..Len(e), NEW j \in 1..Len(e), i < j, e[i][1] = e[j][1]
                 PROVE  \E a, z \in 1..4 : a < z /\ e[i][2] = ScriptOrder[a] /\ e[j][2] = ScriptOrder[z]
      BY DEF ScriptsInOrder
    <3>1. CASE i \in 1..Len(g) /\ j \in 1..Len(g)
      BY <2>5, <2>7, <3>1 DEF ScriptsInOrder
    <3>2. CASE i \in 1..Len(g) /\ ~(j \in 1..Len(g))
      <4>1. PICK n \in 1..Len(b) : j = n + Len(g)
        BY <2>8, <3>2
      <4>2. e[j] = b[n] /\ e[i] = g[i]
        BY <2>7, <3>2, <4>1
      <4>3. b[n][1] = h[k + 1].name
        BY <2>4
      <4> QED
        BY <2>11, <3>2, <4>2, <4>3
    <3>3. CASE ~(i \in 1..Len(g))
      <4>1. PICK m \in 1..Len(b) : i = m + Len(g)
        BY <2>8, <3>3
      <4>2. ~(j \in 1..Len(g))
        BY <2>6, <3>3
      <4>3. PICK n \in 1..Len(b) : j = n + Len(g)
        BY <2>8, <4>2
      <4>4. m < n /\ e[i] = b[m] /\ e[j] = b[n]
        BY <2>6, <2>7, <4>1, <4>3
      <4> QED
        BY <2>4, <4>4 DEF ScriptsInOrder
    <3> QED
      BY <3>1, <3>2, <3>3
  <2>13. Said(k + 1)
    BY <2>2, <2>10, <2>12
  <2> QED
    BY <2>1, <2>13
<1>10. 0..N \subseteq T
  <2> HIDE DEF T
  <2> QED
    BY <1>2, <1>8, <1>9, Counting
<1>11. Said(N)
  BY <1>2, <1>10
<1>12. c = f[N]
  <2>1. FlattenSeq(q) = f[N]
    BY <1>5, <1>6 DEF FlattensBy
  <2> QED
    BY <1>3, <2>1 DEF CommandsFor
<1>13. c \in Seq(C)
  BY <1>2, <1>7, <1>12
<1>14. \A x : Holds(c, x) <=> \E m \in 1..N : \E s \in h[m].scripts : x = <<h[m].name, s>>
  BY <1>11, <1>12
<1>15. ScriptsInOrder(c)
  BY <1>11, <1>12
<1>16. ASSUME NEW x
       PROVE  Holds(c, x) <=> \E w \in ToSet(h) : \E s \in w.scripts : x = <<w.name, s>>
  BY <1>2, <1>14
<1>17. Len(c) \in Nat /\ DOMAIN c = 1..Len(c)
  BY <1>13
<1> QED
  BY <1>13, <1>15, <1>16, <1>17

\* A prefix agrees with what it begins.
LEMMA PrefixAgrees ==
  ASSUME NEW A, NEW a, a \in Seq(A), NEW b, b \in Seq(A)
  PROVE  IsPrefix(a, b) <=> Len(a) =< Len(b) /\ \A i \in 1..Len(a) : a[i] = b[i]
<1>1. Len(a) \in Nat /\ Len(b) \in Nat /\ DOMAIN a = 1..Len(a)
  OBVIOUS
<1>2. SubSeq(a, 1, Len(a)) = a
  BY <1>1
<1>3. ASSUME Len(a) =< Len(b)
      PROVE  SubSeq(b, 1, Len(a)) = a <=> \A i \in 1..Len(a) : a[i] = b[i]
  <2>1. PICK z : z = SubSeq(b, 1, Len(a))
    OBVIOUS
  <2>2. z \in Seq(A) /\ Len(z) = Len(a) /\ \A i \in 1..Len(a) : z[i] = b[i]
    BY <1>1, <1>3, <2>1
  <2>3. z = a <=> \A i \in 1..Len(a) : z[i] = a[i]
    <3>1. ASSUME \A i \in 1..Len(a) : z[i] = a[i] PROVE z = a
      BY <1>1, <2>2, <3>1
    <3> QED
      BY <3>1
  <2> QED
    BY <2>1, <2>2, <2>3
<1> QED
  BY <1>2, <1>3 DEF IsPrefix

LEMMA PrefixesCompare ==
  ASSUME NEW A, NEW a, a \in Seq(A), NEW b, b \in Seq(A), NEW d, d \in Seq(A),
         IsPrefix(a, d), IsPrefix(b, d)
  PROVE  IsPrefix(a, b) \/ IsPrefix(b, a)
<1>1. Len(a) \in Nat /\ Len(b) \in Nat
  OBVIOUS
<1>2. (\A i \in 1..Len(a) : a[i] = d[i]) /\ \A i \in 1..Len(b) : b[i] = d[i]
  BY PrefixAgrees
<1>3. CASE Len(a) =< Len(b)
  BY <1>1, <1>2, <1>3, PrefixAgrees
<1>4. CASE Len(b) =< Len(a)
  BY <1>1, <1>2, <1>4, PrefixAgrees
<1> QED
  BY <1>1, <1>3, <1>4

LEMMA PrefixGrows ==
  ASSUME NEW A, NEW a, a \in Seq(A), NEW b, b \in Seq(A), IsPrefix(a, b), Len(a) < Len(b),
         NEW c, c = Append(a, b[Len(a) + 1])
  PROVE  c \in Seq(A) /\ IsPrefix(c, b)
<1>1. Len(a) \in Nat /\ Len(b) \in Nat /\ Len(a) + 1 \in 1..Len(b)
  OBVIOUS
<1>2. b[Len(a) + 1] \in A
  BY <1>1
<1>3. c \in Seq(A) /\ Len(c) = Len(a) + 1 /\ \A i \in 1..Len(a) : c[i] = a[i]
  BY <1>1, <1>2
<1>4. c[Len(a) + 1] = b[Len(a) + 1]
  BY <1>1, <1>2
<1>5. \A i \in 1..Len(a) : a[i] = b[i]
  BY PrefixAgrees
<1>6. \A i \in 1..Len(c) : c[i] = b[i]
  BY <1>1, <1>3, <1>4, <1>5
<1>7. Len(c) =< Len(b)
  BY <1>1, <1>3
<1> QED
  BY <1>3, <1>6, <1>7, PrefixAgrees

\* The packages of a repository are listed once each.
LEMMA PackagesAreListed ==
  ASSUME NEW r \in Repositories
  PROVE  /\ r.packages \in Seq(ToSet(r.packages)) /\ InOrder(r.packages)
         /\ Selection(r.packages, ToSet(r.packages))
         /\ \A p \in ToSet(r.packages) : p.dir \in Seq(STRING) /\ p.scripts \subseteq ToSet(ScriptOrder)
         /\ r.root.dir \in Seq(STRING) /\ r.root.scripts \subseteq ToSet(ScriptOrder)
<1>1. PICK s : s = r.packages
  OBVIOUS
<1>2. /\ s \in Seq(ToSet(s)) /\ InOrder(s)
      /\ \A p \in ToSet(s) : p.dir \in Seq(STRING) /\ p.scripts \subseteq ToSet(ScriptOrder)
      /\ r.root.dir \in Seq(STRING) /\ r.root.scripts \subseteq ToSet(ScriptOrder)
  BY <1>1, AcceptancePlanAssumption DEF IsPackage
<1>3. PICK V : V = ToSet(s)
  OBVIOUS
<1>4. s \in Seq(V) /\ DOMAIN s = 1..Len(s) /\ Len(s) \in Nat /\ \A i \in 1..Len(s) : s[i] \in V
  BY <1>2, <1>3
<1>5. ASSUME NEW i \in 1..Len(s), NEW j \in 1..Len(s), i < j, s[i] = s[j]
      PROVE  FALSE
  <2>1. ~IsPrefix(s[j].dir, s[i].dir)
    BY <1>2, <1>4, <1>5 DEF InOrder
  <2>2. s[i].dir \in Seq(STRING)
    BY <1>2, <1>3, <1>4
  <2>3. IsPrefix(s[i].dir, s[i].dir)
    BY <2>2, PrefixAgrees
  <2> QED
    BY <1>5, <2>1, <2>3
<1>6. IsInjective(s)
  <2> SUFFICES ASSUME NEW i \in 1..Len(s), NEW j \in 1..Len(s), s[i] = s[j] PROVE i = j
    BY <1>4 DEF IsInjective
  <2> QED
    BY <1>4, <1>5
<1> QED
  BY <1>1, <1>2, <1>3, <1>4, <1>6 DEF Selection

\* What discovery lists: each workspace once, with a name of its own, and never a
\* directory after one that lies in it.
LEMMA WorkspacesAreListed ==
  ASSUME NEW r \in Repositories, Plannable(r), NEW ws, ws = Workspaces(r)
  PROVE  /\ Selection(ws, ToSet(ws))
         /\ \A w \in ToSet(ws) : w.dir \in Seq(STRING) /\ w.scripts \subseteq ToSet(ScriptOrder)
         /\ \A u, w \in ToSet(ws) : u.name = w.name => u = w
         /\ \A i, j \in 1..Len(ws) : i < j => ~IsPrefix(ws[j].dir, ws[i].dir)
<1>1. Selection(ws, ToSet(ws)) /\ \A w \in ToSet(ws) : w.dir \in Seq(STRING) /\ w.scripts \subseteq ToSet(ScriptOrder)
  <2>1. CASE r.patterns = <<>>
    <3>1. PICK x : x = r.root
      OBVIOUS
    <3>2. ws = <<x>>
      BY <2>1, <3>1 DEF Workspaces
    <3>3. Selection(ws, ToSet(ws)) /\ ToSet(ws) = {x}
      BY <3>2 DEF Selection, IsInjective, ToSet
    <3> QED
      BY <3>1, <3>3, PackagesAreListed
  <2>2. CASE r.patterns # <<>>
    <3>1. PICK s, V : s = r.packages /\ V = ToSet(s)
      OBVIOUS
    <3>2. PICK S : ws = Filtered(s, S)
      BY <2>2, <3>1 DEF Workspaces
    <3>3. Selection(s, V) /\ \A w \in V : w.dir \in Seq(STRING) /\ w.scripts \subseteq ToSet(ScriptOrder)
      BY <3>1, PackagesAreListed
    <3>4. Selection(ws, V) /\ ToSet(ws) = V \intersect S
      BY <3>1, <3>2, <3>3, FilterSelects
    <3>5. ws \in Seq(V) /\ DOMAIN ws = 1..Len(ws) /\ IsInjective(ws)
      BY <3>4 DEF Selection
    <3>6. PICK U : U = ToSet(ws)
      OBVIOUS
    <3>7. \A i \in 1..Len(ws) : ws[i] \in U
      BY <3>5, <3>6 DEF ToSet
    <3>8. ws \in Seq(U)
      BY <3>5, <3>7
    <3> QED
      BY <3>3, <3>4, <3>5, <3>6, <3>8 DEF Selection
  <2> QED
    BY <2>1, <2>2
<1>2. /\ Len(ws) \in Nat /\ DOMAIN ws = 1..Len(ws)
      /\ \A x : x \in ToSet(ws) <=> \E i \in 1..Len(ws) : ws[i] = x
  BY <1>1, SelectionIs
<1>3. ASSUME NEW u \in ToSet(ws), NEW w \in ToSet(ws), u.name = w.name
      PROVE  u = w
  <2>1. PICK i \in 1..Len(ws), j \in 1..Len(ws) : ws[i] = u /\ ws[j] = w
    BY <1>2
  <2>2. PICK n : n = Names(ws)
    OBVIOUS
  <2>3. DOMAIN n = 1..Len(ws) /\ n[i] = u.name /\ n[j] = w.name
    BY <1>2, <2>1, <2>2 DEF Names
  <2>4. IsInjective(n)
    BY <2>2 DEF Plannable, Discovered
  <2> QED
    BY <1>3, <2>1, <2>3, <2>4 DEF IsInjective
<1>4. \A i, j \in 1..Len(ws) : i < j => ~IsPrefix(ws[j].dir, ws[i].dir)
  <2>1. CASE r.patterns = <<>>
    <3>1. ws = <<r.root>>
      BY <2>1 DEF Workspaces
    <3>2. Len(ws) = 1
      BY <3>1
    <3> QED
      BY <3>2
  <2>2. CASE r.patterns # <<>>
    <3>1. PICK s, V : s = r.packages /\ V = ToSet(s)
      OBVIOUS
    <3>2. PICK S : ws = Filtered(s, S)
      BY <2>2, <3>1 DEF Workspaces
    <3>3. s \in Seq(V) /\ InOrder(s) /\ DOMAIN s = 1..Len(s)
      BY <3>1, PackagesAreListed
    <3>4. InTheirOrder(ws, s, Len(s))
      BY <3>2, <3>3, FilterOrders
    <3>5. ASSUME NEW i \in 1..Len(ws), NEW j \in 1..Len(ws), i < j
          PROVE  ~IsPrefix(ws[j].dir, ws[i].dir)
      <4>1. PICK a \in 1..Len(s), b \in 1..Len(s) : a < b /\ ws[i] = s[a] /\ ws[j] = s[b]
        BY <3>4, <3>5 DEF InTheirOrder
      <4> QED
        BY <3>3, <4>1 DEF InOrder
    <3> QED
      BY <3>5
  <2> QED
    BY <2>1, <2>2
<1> QED
  BY <1>1, <1>3, <1>4

\* No file has two owners: of two directories that hold it one would lie in the other.
LEMMA OneOwner ==
  ASSUME NEW r \in Repositories, Plannable(r), NEW ws, ws = Workspaces(r), NEW d, d \in Seq(STRING)
  PROVE  Cardinality({w \in ToSet(ws) : IsPrefix(w.dir, d)}) =< 1
<1>1. /\ \A x : x \in ToSet(ws) <=> \E i \in 1..Len(ws) : ws[i] = x
      /\ Len(ws) \in Nat /\ DOMAIN ws = 1..Len(ws)
  BY WorkspacesAreListed, SelectionIs
<1>2. ASSUME NEW i \in 1..Len(ws), NEW j \in 1..Len(ws), i < j, IsPrefix(ws[i].dir, d), IsPrefix(ws[j].dir, d)
      PROVE  FALSE
  <2>1. PICK a, b : a = ws[i].dir /\ b = ws[j].dir
    OBVIOUS
  <2>2. ws[i] \in ToSet(ws) /\ ws[j] \in ToSet(ws)
    BY <1>1
  <2>3. a \in Seq(STRING) /\ b \in Seq(STRING) /\ ~IsPrefix(b, a)
    BY <1>2, <2>1, <2>2, WorkspacesAreListed
  <2>4. IsPrefix(a, b)
    BY <1>2, <2>1, <2>3, PrefixesCompare
  <2>5. a # b
    BY <2>3, <2>4
  <2>6. ~IsStrictPrefix(a, b)
    BY <1>1, <1>2, <2>1 DEF Plannable, GraphIsClear, Apart
  <2> QED
    BY <2>4, <2>5, <2>6 DEF IsStrictPrefix
<1>3. PICK S : S = {w \in ToSet(ws) : IsPrefix(w.dir, d)}
  OBVIOUS
<1>4. ASSUME NEW u \in S, NEW w \in S
      PROVE  u = w
  <2>1. PICK i \in 1..Len(ws), j \in 1..Len(ws) : ws[i] = u /\ ws[j] = w
    BY <1>1, <1>3
  <2>2. ~(i < j) /\ ~(j < i)
    BY <1>2, <1>3, <2>1
  <2>3. i = j
    BY <1>1, <2>2
  <2> QED
    BY <2>1, <2>3
<1>5. CASE S = {}
  <2>1. Cardinality(S) = 0
    BY <1>5, FS_EmptySet
  <2> QED
    BY <1>3, <2>1
<1>6. CASE S # {}
  <2>1. PICK x : x \in S
    BY <1>6
  <2>2. S = {x}
    BY <1>4, <2>1
  <2>3. Cardinality(S) = 1
    BY <2>2, FS_Singleton
  <2> QED
    BY <1>3, <2>3
<1> QED
  BY <1>5, <1>6

\* What is planned for an implementation.
LEMMA PlanIsMade ==
  ASSUME NEW r \in Repositories, Plannable(r), NEW ws, ws = Workspaces(r),
         NEW changed \in ChangedPaths, Owned(ws, changed),
         NEW h, h = AddDependents(ws, AddOwners(ws, changed)), NEW c, c = CommandsFor(h), NEW n, n = Names(h)
  PROVE  /\ \E A : c \in Seq(A)
         /\ \A x : x \in ToSet(c) <=> \E w \in Reached(ws, changed) : \E s \in w.scripts : x = <<w.name, s>>
         /\ IsInjective(c) /\ IsInjective(n) /\ DOMAIN c = 1..Len(c) /\ ScriptsInOrder(c)
         /\ \A k \in DOMAIN changed : \E w \in Reached(ws, changed) : IsPrefix(w.dir, changed[k])
<1>1. /\ Selection(ws, ToSet(ws)) /\ \A w \in ToSet(ws) : w.scripts \subseteq ToSet(ScriptOrder)
      /\ \A u, w \in ToSet(ws) : u.name = w.name => u = w
  BY WorkspacesAreListed
<1>2. changed \in Seq(Seq(STRING))
  BY AcceptancePlanAssumption
<1>3. PICK V : V = ToSet(ws)
  OBVIOUS
<1>4. PICK R : R = Reached(ws, changed)
  OBVIOUS
<1>5. Selection(h, V)
  <2>1. Selection(h, ToSet(ws))
    BY <1>1, <1>2, SelectedIsReached, Zenon
  <2> QED
    BY <1>3, <2>1
<1>6. ToSet(h) = R /\ \A k \in DOMAIN changed : \E w \in ToSet(h) : IsPrefix(w.dir, changed[k])
  BY <1>1, <1>2, <1>4, SelectedIsReached
<1>7. /\ (\A w \in V : w.scripts \subseteq ToSet(ScriptOrder)) /\ \A u, w \in V : u.name = w.name => u = w
  BY <1>1, <1>3
<1>8. /\ Len(c) \in Nat /\ DOMAIN c = 1..Len(c) /\ \E A : c \in Seq(A)
      /\ \A x : Holds(c, x) <=> \E w \in ToSet(h) : \E s \in w.scripts : x = <<w.name, s>>
  BY <1>5, <1>7, CommandsOfAll
<1>9. ScriptsInOrder(c)
  BY <1>5, <1>7, CommandsOfAll
<1>10. \A x : x \in ToSet(c) <=> Holds(c, x)
  BY <1>8 DEF ToSet, Holds
<1>11. IsInjective(c)
  <2>1. \A i \in 1..Len(c) : \E u, s : c[i] = <<u, s>> /\ c[i][1] = u /\ c[i][2] = s
    <3> SUFFICES ASSUME NEW i \in 1..Len(c)
                 PROVE  \E u, s : c[i] = <<u, s>> /\ c[i][1] = u /\ c[i][2] = s
      OBVIOUS
    <3>1. Holds(c, c[i])
      BY DEF Holds
    <3>2. PICK w \in ToSet(h) : \E s \in w.scripts : c[i] = <<w.name, s>>
      BY <1>8, <3>1
    <3> QED
      BY <3>2
  <2>2. PICK o : o = ScriptOrder
    OBVIOUS
  <2>3. DOMAIN o = 1..4 /\ \A a, b \in 1..4 : o[a] = o[b] => a = b
    <3>1. /\ Len(o) = 4 /\ DOMAIN o = 1..Len(o)
          /\ \A a, b \in 1..Len(o) : o[a] = o[b] => a = b
      BY <2>2, ScriptsAre, SelectionIs
    <3> QED
      BY <3>1
  <2>4. ASSUME NEW i \in 1..Len(c), NEW j \in 1..Len(c), i < j, c[i] = c[j]
        PROVE  FALSE
    <3>1. PICK a \in 1..4, b \in 1..4 : a < b /\ c[i][2] = o[a] /\ c[j][2] = o[b]
      BY <1>9, <2>2, <2>4 DEF ScriptsInOrder
    <3> QED
      BY <2>3, <2>4, <3>1
  <2> SUFFICES ASSUME NEW i \in 1..Len(c), NEW j \in 1..Len(c), c[i] = c[j] PROVE i = j
    BY <1>8 DEF IsInjective
  <2> QED
    BY <1>8, <2>4
<1>12. IsInjective(n)
  <2>1. /\ DOMAIN h = 1..Len(h) /\ (\A i \in 1..Len(h) : h[i] \in V)
        /\ \A i, j \in 1..Len(h) : h[i] = h[j] => i = j
    BY <1>5, SelectionIs
  <2>2. DOMAIN n = 1..Len(h) /\ \A i \in 1..Len(h) : n[i] = h[i].name
    BY <2>1 DEF Names
  <2> QED
    BY <1>7, <2>1, <2>2 DEF IsInjective
<1>13. \A x : x \in ToSet(c) <=> \E w \in R : \E s \in w.scripts : x = <<w.name, s>>
  BY <1>6, <1>8, <1>10
<1> QED
  BY <1>4, <1>6, <1>8, <1>9, <1>11, <1>12, <1>13

\* And for an integration.
LEMMA IntegrationIsMade ==
  ASSUME NEW r \in Repositories, NEW c, c = CommandsFor(<<[r.root EXCEPT !.name = "root"]>>)
  PROVE  \E A : c \in Seq(A)
<1>1. PICK x : x = [r.root EXCEPT !.name = "root"]
  OBVIOUS
<1>2. PICK h : h = <<x>>
  OBVIOUS
<1>3. Selection(h, {x})
  BY <1>2 DEF Selection, IsInjective
<1>4. x.scripts \subseteq ToSet(ScriptOrder)
  <2>1. r.root.scripts \subseteq ToSet(ScriptOrder)
    BY PackagesAreListed
  <2>2. x.scripts = r.root.scripts
    BY <1>1
  <2> QED
    BY <2>1, <2>2
<1>5. c = CommandsFor(h)
  BY <1>1, <1>2
<1>6. \A w \in {x} : w.scripts \subseteq ToSet(ScriptOrder)
  BY <1>4
<1>7. \A u, w \in {x} : u.name = w.name => u = w
  OBVIOUS
<1> QED
  BY <1>3, <1>5, <1>6, <1>7, CommandsOfAll

\* Both lists hold commands, and there is nothing to run before there is a plan.
PlanInv ==
  /\ tree \in Repositories
  /\ plan = NoPlan => ran = <<>>
  /\ \E A : plan.commands \in Seq(A) /\ ran \in Seq(A)
  /\ AcceptanceIsWhole

LEMMA InitPlan == PlanInit => PlanInv
<1> SUFFICES ASSUME PlanInit PROVE PlanInv
  OBVIOUS
<1>1. plan.scope # "affected-workspaces" /\ plan.commands = <<>> /\ ran = <<>> /\ tree \in Repositories
  BY DEF PlanInit, NoPlan
<1>2. PICK e : e = <<>>
  OBVIOUS
<1>3. e \in Seq({}) /\ IsPrefix(e, e)
  <2>1. e \in Seq({})
    BY <1>2
  <2> QED
    BY <2>1, PrefixAgrees
<1>4. \E A : plan.commands \in Seq(A) /\ ran \in Seq(A)
  BY <1>1, <1>2, <1>3
<1>5. AcceptanceIsWhole
  BY <1>1, <1>2, <1>3 DEF AcceptanceIsWhole, PlanIsWhole
<1> QED
  BY <1>1, <1>4, <1>5 DEF PlanInv

\* Nothing has run when a plan is made.
LEMMA PlansBegin ==
  ASSUME PlanInv, plan = NoPlan, UNCHANGED <<tree, ran>>, plan' # NoPlan,
         \E A : plan'.commands \in Seq(A), PlanIsWhole'
  PROVE  PlanInv'
<1>1. tree' \in Repositories /\ ran' = <<>>
  BY DEF PlanInv
<1>2. PICK A : plan'.commands \in Seq(A)
  OBVIOUS
<1>3. PICK e, c : e = <<>> /\ c = plan'.commands
  OBVIOUS
<1>4. e \in Seq(A) /\ c \in Seq(A) /\ IsPrefix(e, c)
  <2>1. e \in Seq(A) /\ c \in Seq(A) /\ Len(e) = 0 /\ Len(c) \in Nat
    BY <1>2, <1>3
  <2>2. Len(e) =< Len(c) /\ \A i \in 1..Len(e) : e[i] = c[i]
    BY <2>1
  <2>3. IsPrefix(e, c)
    BY <2>1, <2>2, PrefixAgrees
  <2> QED
    BY <2>1, <2>3
<1>5. IsPrefix(ran', plan'.commands)
  BY <1>1, <1>3, <1>4
<1> QED
  BY <1>1, <1>2, <1>3, <1>4, <1>5 DEF PlanInv, AcceptanceIsWhole

LEMMA NextPlan == PlanInv /\ [PlanNext]_planVars => PlanInv'
<1> SUFFICES ASSUME PlanInv, [PlanNext]_planVars PROVE PlanInv'
  OBVIOUS
<1>1. CASE PlanImplementation
  <2>1. tree \in Repositories /\ Plannable(tree) /\ plan = NoPlan /\ UNCHANGED <<tree, ran>>
    BY <1>1 DEF PlanImplementation, PlanInv
  <2>2. PICK ws : ws = Workspaces(tree)
    OBVIOUS
  <2>3. PICK changed \in ChangedPaths :
          /\ Owned(ws, changed)
          /\ plan' = [scope |-> "affected-workspaces", changed |-> changed,
                      workspaces |-> Names(AddDependents(ws, AddOwners(ws, changed))),
                      commands |-> CommandsFor(AddDependents(ws, AddOwners(ws, changed)))]
    BY <1>1, <2>2 DEF PlanImplementation
  <2>4. PICK h : h = AddDependents(ws, AddOwners(ws, changed))
    OBVIOUS
  <2>5. PICK c, n : c = CommandsFor(h) /\ n = Names(h)
    OBVIOUS
  <2>6. /\ plan'.scope = "affected-workspaces" /\ plan'.changed = changed
        /\ plan'.workspaces = n /\ plan'.commands = c /\ plan' # NoPlan
    BY <2>3, <2>4, <2>5 DEF NoPlan
  <2>7. PICK R : R = Reached(ws, changed)
    OBVIOUS
  <2>8. /\ \E A : c \in Seq(A)
        /\ \A x : x \in ToSet(c) <=> \E w \in R : \E s \in w.scripts : x = <<w.name, s>>
        /\ IsInjective(c) /\ IsInjective(n) /\ DOMAIN c = 1..Len(c) /\ ScriptsInOrder(c)
        /\ \A k \in DOMAIN changed : \E w \in R : IsPrefix(w.dir, changed[k])
    BY <2>1, <2>2, <2>3, <2>4, <2>5, <2>7, PlanIsMade
  <2>9. ToSet(c) = UNION {{<<w.name, s>> : s \in w.scripts} : w \in R}
    <3>1. \A x : x \in UNION {{<<w.name, s>> : s \in w.scripts} : w \in R}
                   <=> \E w \in R : \E s \in w.scripts : x = <<w.name, s>>
      OBVIOUS
    <3> QED
      BY <2>8, <3>1
  <2>10. \A i, j \in DOMAIN c :
           i < j /\ c[i][1] = c[j][1] =>
             \E a, b \in 1..4 : a < b /\ c[i][2] = ScriptOrder[a] /\ c[j][2] = ScriptOrder[b]
    BY <2>8 DEF ScriptsInOrder
  <2>11. \A p \in ToSet(tree.packages) : Cardinality({w \in ToSet(ws) : IsPrefix(w.dir, p.dir)}) =< 1
    BY <2>1, <2>2, PackagesAreListed, OneOwner
  <2>12. tree' = tree /\ ws = Workspaces(tree') /\ R = Reached(ws, plan'.changed)
    BY <2>1, <2>2, <2>6, <2>7
  <2>13. PlanIsWhole'
    BY <2>6, <2>8, <2>9, <2>10, <2>11, <2>12 DEF PlanIsWhole
  <2> QED
    BY <2>1, <2>6, <2>8, <2>13, PlansBegin
<1>2. CASE PlanIntegration
  <2>1. tree \in Repositories /\ plan = NoPlan /\ UNCHANGED <<tree, ran>>
    BY <1>2 DEF PlanIntegration, PlanInv
  <2>2. PICK c : c = CommandsFor(<<[tree.root EXCEPT !.name = "root"]>>)
    OBVIOUS
  <2>3. plan'.scope = "repository" /\ plan'.commands = c /\ plan' # NoPlan
    BY <1>2, <2>2 DEF PlanIntegration, NoPlan
  <2>4. \E A : c \in Seq(A)
    BY <2>1, <2>2, IntegrationIsMade
  <2>5. PlanIsWhole'
    BY <2>3 DEF PlanIsWhole
  <2> QED
    BY <2>1, <2>3, <2>4, <2>5, PlansBegin
<1>3. CASE Execute
  <2>1. PICK a, c : a = ran /\ c = plan.commands
    OBVIOUS
  <2>2. PICK b : b = Append(a, c[Len(a) + 1])
    OBVIOUS
  <2>3. Len(a) < Len(c) /\ ran' = b /\ UNCHANGED <<tree, plan>>
    BY <1>3, <2>1, <2>2 DEF Execute
  <2>4. PICK A : c \in Seq(A) /\ a \in Seq(A)
    BY <2>1 DEF PlanInv
  <2>5. IsPrefix(a, c)
    BY <2>1 DEF PlanInv, AcceptanceIsWhole
  <2>6. b \in Seq(A) /\ IsPrefix(b, c)
    BY <2>2, <2>3, <2>4, <2>5, PrefixGrows
  <2>7. plan # NoPlan
    <3>1. ASSUME plan = NoPlan PROVE FALSE
      <4>1. c = <<>> /\ a = <<>>
        BY <2>1, <3>1 DEF PlanInv, NoPlan
      <4> QED
        BY <2>3, <4>1
    <3> QED
      BY <3>1
  <2>8. PlanIsWhole'
    BY <2>3 DEF PlanInv, AcceptanceIsWhole, PlanIsWhole
  <2> QED
    BY <2>1, <2>3, <2>4, <2>6, <2>7, <2>8 DEF PlanInv, AcceptanceIsWhole
<1>4. CASE UNCHANGED planVars
  BY <1>4 DEF planVars, PlanInv, AcceptanceIsWhole, PlanIsWhole
<1> QED
  BY <1>1, <1>2, <1>3, <1>4 DEF PlanNext

LEMMA BlueprintPlan == Spec => PlanSpec
<1>1. Init => PlanInit
  BY DEF Init
<1>2. [Next]_vars => [PlanNext]_planVars
  BY DEF Next, vars
<1> QED
  BY <1>1, <1>2, PTL DEF Spec, PlanSpec

\* A plan for an implementation has, once and in order, the scripts of exactly the
\* workspaces that the change reaches, and what has run is what was planned
\* (createNodeAcceptanceDiscoveryAdapter).
THEOREM AcceptanceWhole == Spec => []AcceptanceIsWhole
<1>1. PlanInv => AcceptanceIsWhole
  BY DEF PlanInv
<1> QED
  BY <1>1, InitPlan, NextPlan, BlueprintPlan, PTL DEF PlanSpec
=============================================================================
