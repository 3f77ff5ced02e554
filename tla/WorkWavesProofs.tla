--------------------------- MODULE WorkWavesProofs ---------------------------
(***************************************************************************)
(* That a run of /work:process repeats no finished work, executes only     *)
(* what it was offered, records every wave it executes and ends as "done"  *)
(* only when it is: for any items, any plans over them, any number of      *)
(* waves and any failing writes.                                           *)
(***************************************************************************)
EXTENDS WorkWaves, FilteringProofs

\* The items of a wave whose execution left effects or closed them.
Touched == IF execution.effects THEN wave ELSE execution.closures

\* Before a wave is chosen everything worked on is closed, before the next plan
\* everything but the wave just executed, and a chosen wave has nothing closed.
RepeatInv ==
  /\ pc \in {"start", "wave", "execute", "plan"} \union Ended
  /\ pc \in {"start", "wave", "execute"} => worked \subseteq closed
  /\ pc = "execute" => wave \intersect closed = {}
  /\ pc = "plan" => /\ worked \subseteq closed \union Touched
                    /\ execution.effects \in BOOLEAN
                    /\ execution.closures \subseteq wave

LEMMA InitRepeats == Init => RepeatInv
  BY DEF Init, RepeatInv, Touched, Ended

\* A choice writes the running record of a wave without closed items, or ends.
LEMMA Selection ==
  ASSUME NEW p, SelectFrom(p)
  PROVE  /\ pc' \in {"execute"} \union Ended
         /\ pc' = "execute" => wave' \intersect closed = {}
<1>1. CASE Selected(p) = {} /\ Complete
  BY <1>1 DEF Complete, Ended
<1>2. CASE Repeats(Selected(p)) /\ pc' = "threw"
  BY <1>2 DEF Ended
<1>3. CASE /\ ~Repeats(Selected(p)) /\ wave' = Selected(p)
           /\ pc' \in {"execute", "threw"}
  BY <1>3 DEF Repeats, Ended
<1> QED
  BY <1>1, <1>2, <1>3 DEF SelectFrom

LEMMA NextRepeats == RepeatInv /\ [Next]_vars => RepeatInv'
<1> SUFFICES ASSUME RepeatInv, [Next]_vars
             PROVE  RepeatInv'
  OBVIOUS
<1> USE DEF Ended
<1>1. CASE ReadPlan
  BY <1>1 DEF ReadPlan, RepeatInv, Touched, observed
<1>2. CASE SelectWave
  <2>1. pc = "wave" /\ SelectFrom(plan) /\ UNCHANGED <<closed, worked>>
    BY <1>2 DEF SelectWave, observed
  <2> QED
    BY <2>1, Selection DEF RepeatInv
<1>3. CASE SelectCachedWave
  <2>1. pc = "wave" /\ UNCHANGED <<closed, worked>>
    BY <1>3 DEF SelectCachedWave, observed
  <2>2. \/ pc' = "threw"
        \/ \E offer \in Offers : SelectFrom(<<Revalidated(plan[1], offer)>>)
    BY <1>3 DEF SelectCachedWave
  <2> QED
    BY <2>1, <2>2, Selection DEF RepeatInv
<1>4. CASE Execute
  <2>1. PICK e \in [status : {"done", "error"}, effects : BOOLEAN, closures : SUBSET wave] :
          /\ worked' = worked \union (IF e.effects THEN wave ELSE e.closures)
          /\ \/ execution' = e /\ pc' \in {"returned", "plan"}
             \/ pc' = "threw"
    BY <1>4 DEF Execute, Fails
  <2>2. pc = "execute" /\ UNCHANGED <<closed, wave>>
    BY <1>4 DEF Execute
  <2>3. worked \subseteq closed
    BY <2>2 DEF RepeatInv
  <2>4. CASE pc' = "plan"
    <3>1. execution' = e
      BY <2>1, <2>4
    <3>2. worked' \subseteq closed' \union Touched'
      BY <2>1, <2>2, <2>3, <3>1 DEF Touched
    <3> QED
      BY <2>1, <2>2, <2>4, <3>1, <3>2 DEF RepeatInv
  <2>5. CASE pc' \in Ended
    BY <2>5 DEF RepeatInv
  <2> QED
    BY <2>1, <2>4, <2>5
<1>5. CASE Replan
  <2>1. pc = "plan" /\ UNCHANGED <<wave, worked>>
    BY <1>5 DEF Replan, observed
  <2>2. CASE pc' = "threw"
    BY <2>2 DEF RepeatInv
  <2>3. CASE pc' # "threw"
    <3>1. PICK p \in Plans :
            /\ closed' = closed \union execution.closures \union (wave \ PlanItems(p))
            /\ Unproven(PlanItems(p)) = {}
            /\ pc' = "wave"
      BY <1>5, <2>3 DEF Replan, Fails
    <3>2. Touched \subseteq closed'
      <4>1. CASE execution.effects
        BY <3>1, <4>1 DEF Unproven, Touched
      <4>2. CASE ~execution.effects
        BY <3>1, <4>2 DEF Touched
      <4> QED
        BY <4>1, <4>2
    <3>3. worked' \subseteq closed'
      BY <2>1, <3>1, <3>2 DEF RepeatInv
    <3> QED
      BY <3>1, <3>3 DEF RepeatInv
  <2> QED
    BY <2>2, <2>3
<1>6. CASE EndOfLoop
  BY <1>6 DEF EndOfLoop, RepeatInv
<1>7. CASE UNCHANGED vars
  BY <1>7 DEF vars, control, observed, RepeatInv, Touched
<1> QED
  BY <1>1, <1>2, <1>3, <1>4, <1>5, <1>6, <1>7 DEF Next

\* No item for which an execution left branches or commits, or that it closed, is
\* ever executed again by the same run (orchestrator.ts, lines 632-710).
THEOREM NothingRepeated == Spec => []WorkIsNotRepeated
<1>1. RepeatInv => WorkIsNotRepeated
  BY DEF RepeatInv, WorkIsNotRepeated
<1> QED
  BY InitRepeats, NextRepeats, <1>1, PTL DEF Spec

-----------------------------------------------------------------------------
(* Selection takes items of the plan, or there is nothing to take *)

LEMMA PlansAreSequences == ASSUME NEW p \in Plans PROVE p \in Seq(Iterations)
  BY PlansAssumption, EmptySeq DEF Plans

\* What is selected belongs to an iteration of the plan; nothing is selected only
\* when no iteration has an executable item.
LEMMA SelectedIsPlanned ==
  ASSUME NEW S, NEW p \in Seq(S)
  PROVE  /\ Selected(p) \subseteq PlanItems(p)
         /\ Selected(p) = {} => ~Remaining(p)
<1> DEFINE I == {n \in 1..Len(p) : Executable(p[n]) # {}}
<1>1. FirstExecutable(p) = IF I # {} THEN Min(I) ELSE 0
  BY DEF FirstExecutable, SelectInSeq
<1>2. CASE I = {}
  <2>1. FirstExecutable(p) = 0
    BY <1>1, <1>2
  <2>2. Selected(p) = {}
    BY <2>1 DEF Selected
  <2>3. DOMAIN p = 1..Len(p)
    OBVIOUS
  <2>4. ~Remaining(p)
    BY <1>2, <2>3 DEF Remaining
  <2> QED
    BY <2>2, <2>4
<1>3. CASE I # {}
  <2>1. I \in SUBSET Nat
    OBVIOUS
  <2>2. \E x \in I : \A y \in I : x =< y
    BY <1>3, <2>1, LeastExists
  <2>3. Min(I) \in I
    BY <2>2 DEF Min
  <2>4. PICK n \in I : n = FirstExecutable(p)
    BY <1>1, <1>3, <2>3
  <2>5. n # 0 /\ n \in DOMAIN p
    BY <2>4
  <2>6. Selected(p) = Executable(p[n])
    BY <2>4, <2>5 DEF Selected
  <2>7. Executable(p[n]) \subseteq p[n].items
    BY DEF Executable
  <2>8. p[n].items \subseteq PlanItems(p)
    BY <2>5 DEF PlanItems
  <2> QED
    BY <2>4, <2>6, <2>7, <2>8
<1> QED
  BY <1>2, <1>3

\* A cached plan is revalidated to items that it and the Work Source both have.
LEMMA SelectedIsOffered ==
  ASSUME NEW first, NEW offer
  PROVE  Selected(<<Revalidated(first, offer)>>) \subseteq first.items \intersect offer.items
<1> DEFINE p == <<Revalidated(first, offer)>>
<1>1. p \in Seq({Revalidated(first, offer)})
  OBVIOUS
<1>2. PlanItems(p) = Revalidated(first, offer).items
  BY DEF PlanItems
<1>3. Revalidated(first, offer).items = first.items \intersect offer.items
  BY DEF Revalidated
<1>4. Selected(p) \subseteq PlanItems(p)
  BY <1>1, SelectedIsPlanned
<1> QED
  BY <1>2, <1>3, <1>4

-----------------------------------------------------------------------------
(* Only offered work is executed *)

\* The plan that a wave is chosen from is the last answer of the Work Source,
\* unless a cached plan has not been compared with it yet.
OfferInv ==
  /\ plan \in Plans
  /\ pc = "wave" /\ ~(cached /\ waveCount = 0) => source = Offer(plan)
  /\ pc = "execute" => wave \subseteq source.items

LEMMA NextOffers == OfferInv /\ [Next]_vars => OfferInv'
<1> SUFFICES ASSUME OfferInv, [Next]_vars
             PROVE  OfferInv'
  OBVIOUS
<1> USE DEF OfferInv, Ended
<1>1. CASE ReadPlan
  BY <1>1 DEF ReadPlan
<1>2. CASE SelectWave
  <2>1. /\ pc = "wave" /\ ~(cached /\ waveCount = 0) /\ SelectFrom(plan)
        /\ UNCHANGED <<plan, source>>
    BY <1>2 DEF SelectWave
  <2>2. pc' \in {"execute"} \union Ended /\ (pc' = "execute" => wave' = Selected(plan))
    BY <2>1 DEF SelectFrom, Complete
  <2>3. Selected(plan) \subseteq source.items
    BY <2>1, PlansAreSequences, SelectedIsPlanned DEF Offer
  <2> QED
    BY <2>1, <2>2, <2>3
<1>3. CASE SelectCachedWave
  <2>1. UNCHANGED plan
    BY <1>3 DEF SelectCachedWave
  <2>2. \/ pc' = "threw"
        \/ \E offer \in Offers : /\ SelectFrom(<<Revalidated(plan[1], offer)>>)
                                 /\ source' = offer
    BY <1>3 DEF SelectCachedWave
  <2>3. ASSUME NEW offer \in Offers, source' = offer,
               SelectFrom(<<Revalidated(plan[1], offer)>>)
        PROVE  /\ pc' \in {"execute"} \union Ended
               /\ pc' = "execute" => wave' \subseteq source'.items
    BY <2>3, SelectedIsOffered DEF SelectFrom, Complete
  <2> QED
    BY <2>1, <2>2, <2>3
<1>4. CASE Execute
  BY <1>4 DEF Execute, Fails
<1>5. CASE Replan
  BY <1>5 DEF Replan, Fails
<1>6. CASE EndOfLoop
  BY <1>6 DEF EndOfLoop
<1>7. CASE UNCHANGED vars
  BY <1>7 DEF vars, control
<1> QED
  BY <1>1, <1>2, <1>3, <1>4, <1>5, <1>6, <1>7 DEF Next

\* Whatever a cached plan says, a wave holds only items that the Work Source
\* offered when it was last asked (orchestrator.ts, lines 412-436, 635-640).
THEOREM OfferedWorkOnly == Spec => []OnlyOfferedWork
<1>1. Init => OfferInv
  BY DEF Init, OfferInv, Plans
<1>2. OfferInv => OnlyOfferedWork
  BY DEF OfferInv, OnlyOfferedWork
<1> QED
  BY <1>1, <1>2, NextOffers, PTL DEF Spec

-----------------------------------------------------------------------------
(* "done" is done *)

\* A run ends as "done" with nothing half finished and nothing left; before its
\* first wave it has no record, so that an empty plan cannot end it as "done".
DoneInv ==
  /\ plan \in Plans /\ waveCount \in Nat /\ failures \in Nat
  /\ pc = "start" \/ (pc = "wave" /\ waveCount = 0) => record = NoRecord /\ waveCount = 0
  /\ pc = "plan" => waveCount > 0
  /\ DoneIsDone

LEMMA NextDone == RepeatInv /\ DoneInv /\ [Next]_vars => DoneInv'
<1> SUFFICES ASSUME RepeatInv, DoneInv, [Next]_vars
             PROVE  DoneInv'
  OBVIOUS
<1> USE DEF DoneInv, DoneIsDone, DoneIsFinished, ReturnedIsDrained, Ended
<1>1. CASE ReadPlan
  <2>1. pc = "start" /\ UNCHANGED <<waveCount, failures, record, file, worked, closed>>
    BY <1>1 DEF ReadPlan, records, observed
  <2>2. pc' \in {"wave", "threw"} /\ plan' \in Plans
    BY <1>1 DEF ReadPlan
  <2>3. worked \subseteq closed
    BY <2>1 DEF RepeatInv
  <2> QED
    BY <2>1, <2>2, <2>3
<1>2. CASE SelectWave
  <2>1. pc = "wave" /\ SelectFrom(plan)
        /\ UNCHANGED <<plan, closed, waveCount, record, worked>>
    BY <1>2 DEF SelectWave, observed
  <2>2. worked \subseteq closed
    BY <2>1 DEF RepeatInv
  <2>3. CASE Selected(plan) = {} /\ Complete
    <3>1. ~Remaining(plan)
      BY <2>3, PlansAreSequences, SelectedIsPlanned
    <3>2. ~Remaining(plan)'
      BY <2>1, <3>1 DEF Remaining
    <3> QED
      BY <2>1, <2>2, <2>3, <3>2 DEF Complete
  <2>4. CASE pc' = "threw" /\ failures' \in Nat
    BY <2>1, <2>2, <2>4
  <2>5. CASE pc' = "execute" /\ failures' \in Nat
    BY <2>1, <2>5
  <2> QED
    BY <2>1, <2>3, <2>4, <2>5 DEF SelectFrom, Written, NotWritten
<1>3. CASE SelectCachedWave
  <2>1. /\ pc = "wave" /\ waveCount = 0
        /\ UNCHANGED <<plan, closed, waveCount, record, worked>>
    BY <1>3 DEF SelectCachedWave, observed
  <2>2. worked \subseteq closed
    BY <2>1 DEF RepeatInv
  <2>3. ASSUME NEW q, SelectFrom(q)
        PROVE  pc' \in {"threw", "execute"} /\ failures' \in Nat
    BY <2>1, <2>3 DEF SelectFrom, Complete, Written, NotWritten
  <2>4. \/ \E q : SelectFrom(q)
        \/ pc' = "threw" /\ UNCHANGED failures
    BY <1>3 DEF SelectCachedWave
  <2> QED
    BY <2>1, <2>2, <2>3, <2>4
<1>4. CASE Execute
  <2>1. pc = "execute" /\ UNCHANGED <<plan, closed>>
    BY <1>4 DEF Execute
  <2>2. ASSUME NEW base, NEW writeFails \in BOOLEAN, Fails(base, writeFails)
        PROVE  pc' = "threw" /\ failures' \in Nat /\ (failures' = 0 => file'.status = "error")
    BY <2>2 DEF Fails, Merged, WaveRecord
  <2>3. CASE pc' = "threw" /\ UNCHANGED waveCount /\ \E base : \E w \in BOOLEAN : Fails(base, w)
    BY <2>1, <2>2, <2>3
  <2>4. CASE /\ \E e \in [status : {"done", "error"}, effects : BOOLEAN, closures : SUBSET wave] :
                  /\ Written(Merged(record, WaveRecord(e.status, wave, e.closures)))
                  /\ record' = Merged(record, WaveRecord(e.status, wave, e.closures))
                  /\ pc' = IF Stops(e.status) THEN "returned" ELSE "plan"
             /\ waveCount' = waveCount + 1
    BY <2>1, <2>4 DEF Stops, Written, Merged, WaveRecord
  <2> QED
    BY <1>4, <2>3, <2>4 DEF Execute, Fails
<1>5. CASE Replan
  <2>1. pc = "plan" /\ UNCHANGED waveCount
    BY <1>5 DEF Replan
  <2>2. ASSUME NEW base, NEW writeFails \in BOOLEAN, Fails(base, writeFails)
        PROVE  pc' = "threw" /\ failures' \in Nat /\ (failures' = 0 => file'.status = "error")
    BY <2>2 DEF Fails, Merged, WaveRecord
  <2>3. plan' \in Plans
    BY <1>5 DEF Replan
  <2>4. CASE \E base : \E w \in BOOLEAN : Fails(base, w)
    BY <2>1, <2>2, <2>3, <2>4
  <2>5. CASE /\ Written([record EXCEPT !.status = "error"])
             /\ record' = [record EXCEPT !.status = "error"] /\ pc' = "threw"
    <3>1. file'.status # "done"
      BY <2>5 DEF Written, NoRecord
    <3> QED
      BY <2>1, <2>3, <2>5, <3>1 DEF Written
  <2>6. CASE pc' = "wave" /\ UNCHANGED failures
    BY <2>1, <2>3, <2>6
  <2> QED
    BY <1>5, <2>4, <2>5, <2>6 DEF Replan
<1>6. CASE EndOfLoop
  <2>1. /\ pc = "wave" /\ pc' = (IF LimitExceeded THEN "threw" ELSE "returned")
        /\ UNCHANGED <<plan, closed, waveCount, record, file, worked, failures>>
    BY <1>6 DEF EndOfLoop, records, observed
  <2>2. worked \subseteq closed
    BY <2>1 DEF RepeatInv
  <2>3. LimitExceeded' = LimitExceeded
    BY <2>1 DEF LimitExceeded, Remaining
  <2> QED
    BY <2>1, <2>2, <2>3 DEF LimitExceeded
<1>7. CASE UNCHANGED vars
  BY <1>7 DEF vars, control, records, observed, Remaining
<1> QED
  BY <1>1, <1>2, <1>3, <1>4, <1>5, <1>6, <1>7 DEF Next

\* A run whose record ends as "done" left nothing half finished, and one that
\* returns as "done" has nothing left to execute (lines 679-693, 730-734).
THEOREM DoneMeansDone == Spec => []DoneIsDone
<1>1. Init => RepeatInv /\ DoneInv
  BY InitRepeats, BoundsAssumption
     DEF Init, DoneInv, DoneIsDone, DoneIsFinished, ReturnedIsDrained, Plans, Ended
<1>2. RepeatInv /\ DoneInv /\ [Next]_vars => (RepeatInv /\ DoneInv)'
  BY NextRepeats, NextDone
<1>3. DoneInv => DoneIsDone
  BY DEF DoneInv
<1> QED
  BY <1>1, <1>2, <1>3, PTL DEF Spec

-----------------------------------------------------------------------------
(* The record keeps the waves *)

Waves == Seq(SUBSET Items)
Recorded == [status : Statuses \union {"none"}, waves : Waves, closures : SUBSET Items]

LEMMA PrefixReflexive == ASSUME NEW s \in Waves PROVE IsPrefix(s, s)
  BY DEF Waves, IsPrefix

LEMMA PrefixConcat ==
  ASSUME NEW s \in Waves, NEW t \in Waves, NEW u \in Waves, IsPrefix(s, t)
  PROVE  IsPrefix(s, t \o u)
<1>1. t \o u \in Waves /\ Len(t \o u) = Len(t) + Len(u)
  BY ConcatProperties DEF Waves
<1>2. \A i \in 1..Len(t) : (t \o u)[i] = t[i]
  BY ConcatProperties DEF Waves
<1>3. Len(s) \in Nat /\ Len(t) \in Nat /\ Len(s) =< Len(t)
  BY DEF IsPrefix, Waves
<1>4. \A i \in 1..Len(s) : SubSeq(t, 1, Len(s))[i] = t[i]
  BY <1>3 DEF Waves
<1>5. \A i \in 1..Len(s) : SubSeq(t \o u, 1, Len(s))[i] = t[i]
  BY <1>1, <1>2, <1>3 DEF Waves
<1>6. SubSeq(t, 1, Len(s)) \in Waves /\ SubSeq(t \o u, 1, Len(s)) \in Waves
  <2>1. \A i \in 1..Len(s) : t[i] \in SUBSET Items /\ (t \o u)[i] \in SUBSET Items
    BY <1>2, <1>3 DEF Waves
  <2> QED
    BY <1>3, <2>1, SubSeqProperties DEF Waves
<1>7. Len(SubSeq(t, 1, Len(s))) = Len(s) /\ Len(SubSeq(t \o u, 1, Len(s))) = Len(s)
  BY <1>1, <1>3 DEF Waves
<1>8. SubSeq(t, 1, Len(s)) = SubSeq(t \o u, 1, Len(s))
  <2> DEFINE a == SubSeq(t, 1, Len(s))
             b == SubSeq(t \o u, 1, Len(s))
  <2>1. a \in Seq(SUBSET Items) /\ b \in Seq(SUBSET Items)
    BY <1>6 DEF Waves
  <2>2. Len(a) = Len(b) /\ \A i \in 1..Len(a) : a[i] = b[i]
    BY <1>4, <1>5, <1>7
  <2> HIDE DEF a, b
  <2>3. a = b
    BY <2>1, <2>2, SeqEqual
  <2> QED
    BY <2>3 DEF a, b
<1> QED
  BY <1>1, <1>3, <1>8 DEF IsPrefix, Waves

\* While no wave is under way the record on disk is the one in memory and names
\* the executed waves; a wave under way is on disk in addition.
RecordInv ==
  /\ plan \in Plans /\ wave \subseteq Items /\ execution.closures \subseteq Items
  /\ record \in Recorded /\ file \in Recorded /\ executed \in Waves
  /\ pc \in {"start", "wave", "plan"} => file = record /\ record.waves = executed
  /\ pc = "execute" => /\ record.waves = executed
                       /\ file = Merged(record, WaveRecord("running", wave, {}))
  /\ IsPrefix(executed, file.waves)

LEMMA OneMore ==
  ASSUME NEW s \in Waves, NEW x, x \subseteq Items
  PROVE  s \o <<x>> \in Waves /\ <<x>> \in Waves /\ s \o <<x>> = Append(s, x)
<1>1. <<x>> \in Waves
  BY DEF Waves
<1>2. s \o <<x>> \in Waves
  BY <1>1, ConcatProperties DEF Waves
<1>3. Append(s, x) = s \o <<x>>
  BY <1>1, AppendIsConcat DEF Waves
<1> QED
  BY <1>1, <1>2, <1>3

Grows == IsPrefix(file.waves, file'.waves) /\ file.closures \subseteq file'.closures

\* A failing run merges its wave once more, or leaves the record as it is.
LEMMA Failing ==
  ASSUME NEW base \in Recorded, NEW writeFails, file \in Recorded, wave \subseteq Items,
         Fails(base, writeFails), file.closures \subseteq base.closures,
         file.waves = base.waves \/ file.waves = Append(base.waves, wave)
  PROVE  /\ record' \in Recorded /\ file' \in Recorded /\ pc' = "threw"
         /\ Grows
<1> DEFINE m == Merged(base, WaveRecord("error", wave, {}))
<1>1. /\ m \in Recorded /\ m.waves = base.waves \o <<wave>>
      /\ m.waves = Append(base.waves, wave) /\ m.closures = base.closures
  <2>1. m = [status |-> "error", waves |-> base.waves \o <<wave>>,
             closures |-> base.closures]
    BY DEF Merged, WaveRecord
  <2>2. /\ base.waves \o <<wave>> \in Waves
        /\ base.waves \o <<wave>> = Append(base.waves, wave)
    BY OneMore DEF Recorded
  <2>3. base.closures \subseteq Items
    BY DEF Recorded
  <2> HIDE DEF m
  <2> QED
    BY <2>1, <2>2, <2>3 DEF Recorded, Statuses
<1>2. record' = m /\ pc' = "threw" /\ (file' = m \/ UNCHANGED file)
  BY DEF Fails
<1>3. base.waves \in Waves /\ file.waves \in Waves /\ <<wave>> \in Waves
  BY DEF Recorded, Waves
<1>4. IsPrefix(file.waves, file.waves)
  BY <1>3, PrefixReflexive
<1>5. IsPrefix(file.waves, m.waves)
  <2>1. CASE file.waves = base.waves
    BY <1>1, <1>3, <1>4, <2>1, PrefixConcat
  <2>2. CASE file.waves = Append(base.waves, wave)
    BY <1>1, <1>4, <2>2
  <2> QED
    BY <2>1, <2>2
<1> QED
  BY <1>1, <1>2, <1>4, <1>5 DEF Grows

\* What a choice does to the record, when nothing is under way.
LEMMA Choosing ==
  ASSUME RecordInv, pc = "wave", NEW p, SelectFrom(p), Selected(p) \subseteq Items,
         UNCHANGED <<plan, execution, record, executed>>
  PROVE  RecordInv' /\ Grows
<1>1. file = record /\ record.waves = executed /\ record \in Recorded
  BY DEF RecordInv
<1>2. IsPrefix(record.waves, record.waves) /\ record.waves \in Waves
  BY <1>1, PrefixReflexive DEF Recorded
<1>3. CASE UNCHANGED <<wave, file>> /\ pc' \in Ended
  BY <1>1, <1>2, <1>3 DEF RecordInv, Grows, Ended
<1>4. CASE wave' = Selected(p) /\ UNCHANGED file /\ pc' = "threw"
  BY <1>1, <1>2, <1>4 DEF RecordInv, Grows
<1>5. CASE /\ wave' = Selected(p) /\ pc' = "execute"
           /\ file' = Merged(record, WaveRecord("running", Selected(p), {}))
  <2>1. /\ file' \in Recorded /\ file'.waves = record.waves \o <<wave'>>
        /\ file'.closures = record.closures
    <3>1. file' = [status |-> "running", waves |-> record.waves \o <<Selected(p)>>,
                   closures |-> record.closures]
      BY <1>5 DEF Merged, WaveRecord
    <3>2. record.waves \o <<Selected(p)>> \in Waves
      BY <1>2, OneMore
    <3>3. record.closures \subseteq Items
      BY <1>1 DEF Recorded
    <3>4. wave' = Selected(p)
      BY <1>5
    <3> QED
      BY <3>1, <3>2, <3>3, <3>4 DEF Recorded, Statuses
  <2>2. <<wave'>> \in Waves
    BY <1>5 DEF Waves
  <2>3. IsPrefix(record.waves, file'.waves)
    BY <1>2, <2>1, <2>2, PrefixConcat
  <2>4. file' = Merged(record', WaveRecord("running", wave', {}))
    BY <1>5
  <2> QED
    BY <1>1, <1>5, <2>1, <2>3, <2>4 DEF RecordInv, Grows
<1> QED
  BY <1>3, <1>4, <1>5 DEF SelectFrom, Complete, Written, NotWritten, Ended

LEMMA NextRecord == RecordInv /\ [Next]_vars => RecordInv' /\ Grows
<1> SUFFICES ASSUME RecordInv, [Next]_vars
             PROVE  RecordInv' /\ Grows
  OBVIOUS
<1>0. IsPrefix(file.waves, file.waves) /\ file.waves \in Waves
  BY PrefixReflexive DEF RecordInv, Recorded
<1>1. CASE ReadPlan
  BY <1>0, <1>1 DEF ReadPlan, RecordInv, Grows, records, observed
<1>2. CASE SelectWave
  <2>1. Selected(plan) \subseteq Items
    <3>1. Selected(plan) \subseteq PlanItems(plan) /\ plan \in Seq(Iterations)
      BY PlansAreSequences, SelectedIsPlanned DEF RecordInv
    <3>2. PlanItems(plan) \subseteq Items
      BY <3>1 DEF PlanItems, Iterations
    <3> QED
      BY <3>1, <3>2
  <2> QED
    BY <1>2, <2>1, Choosing DEF SelectWave, observed
<1>3. CASE SelectCachedWave
  <2>1. pc = "wave" /\ UNCHANGED <<plan, execution, record, executed>>
    BY <1>3 DEF SelectCachedWave, observed
  <2>2. ASSUME NEW offer \in Offers, plan # <<>>,
               SelectFrom(<<Revalidated(plan[1], offer)>>)
        PROVE  RecordInv' /\ Grows
    <3>1. plan[1] \in Iterations
      BY <2>2, PlansAreSequences, EmptySeq, ElementOfSeq DEF RecordInv
    <3>2. Selected(<<Revalidated(plan[1], offer)>>) \subseteq Items
      BY <3>1, SelectedIsOffered DEF Iterations
    <3> QED
      BY <2>1, <2>2, <3>2, Choosing
  <2>3. CASE pc' = "threw" /\ UNCHANGED <<wave, file>>
    BY <1>0, <2>1, <2>3 DEF RecordInv, Grows
  <2> QED
    BY <1>3, <2>2, <2>3 DEF SelectCachedWave
<1>4. CASE Execute
  <2>1. /\ pc = "execute" /\ executed' = Append(executed, wave)
        /\ UNCHANGED <<plan, wave>>
    BY <1>4 DEF Execute
  <2>2. /\ record.waves = executed /\ wave \subseteq Items
        /\ record \in Recorded /\ file \in Recorded
    BY <2>1 DEF RecordInv
  <2>3. file.waves = Append(executed, wave) /\ file.closures = record.closures
    <3>1. file = [status |-> "running", waves |-> executed \o <<wave>>,
                  closures |-> record.closures \union {}]
      BY <2>1, <2>2 DEF RecordInv, Merged, WaveRecord
    <3>2. executed \o <<wave>> = Append(executed, wave)
      BY <2>2, OneMore DEF RecordInv
    <3> QED
      BY <3>1, <3>2
  <2>4. PICK e \in [status : {"done", "error"}, effects : BOOLEAN, closures : SUBSET wave] :
          LET r == Merged(record, WaveRecord(e.status, wave, e.closures))
          IN \/ Written(r) /\ record' = r /\ execution' = e /\ pc' \in {"returned", "plan"}
             \/ Fails(r, TRUE) /\ UNCHANGED execution
             \/ Fails(record, FALSE) /\ UNCHANGED execution
    BY <1>4 DEF Execute
  <2> DEFINE r == Merged(record, WaveRecord(e.status, wave, e.closures))
  <2>5. /\ r \in Recorded /\ r.waves = Append(executed, wave)
        /\ r.closures = record.closures \union e.closures
    <3>1. r = [status |-> e.status, waves |-> executed \o <<wave>>,
               closures |-> record.closures \union e.closures]
      BY <2>2 DEF Merged, WaveRecord
    <3>2. e.status \in Statuses /\ e.closures \subseteq Items
      BY <2>2 DEF Statuses
    <3>3. executed \o <<wave>> \in Waves /\ executed \o <<wave>> = Append(executed, wave)
      BY <2>2, OneMore DEF RecordInv
    <3> QED
      BY <2>2, <3>1, <3>2, <3>3 DEF Recorded
  <2>6. executed' = file.waves
    BY <2>1, <2>3
  <2>7. CASE Written(r) /\ record' = r /\ execution' = e /\ pc' \in {"returned", "plan"}
    <3>1. file' = r
      BY <2>7 DEF Written
    <3>2. e.closures \subseteq Items
      BY <2>2
    <3>3. Grows
      BY <1>0, <2>3, <2>5, <3>1 DEF Grows
    <3>4. RecordInv'
      BY <1>0, <2>1, <2>3, <2>5, <2>6, <2>7, <3>1, <3>2 DEF RecordInv
    <3> QED
      BY <3>3, <3>4
  <2>8. CASE \E base \in {r, record}, w \in BOOLEAN : Fails(base, w) /\ UNCHANGED execution
    <3>1. record' \in Recorded /\ file' \in Recorded /\ pc' = "threw" /\ Grows
      BY <2>2, <2>3, <2>5, <2>8, Failing
    <3>2. RecordInv'
      BY <1>0, <2>1, <2>6, <2>8, <3>1 DEF RecordInv, Grows
    <3> QED
      BY <3>1, <3>2
  <2> QED
    BY <2>4, <2>7, <2>8
<1>5. CASE Replan
  <2>1. /\ pc = "plan" /\ execution' = NoExecution /\ plan' \in Plans
        /\ UNCHANGED <<wave, executed>>
    BY <1>5 DEF Replan, observed, RecordInv
  <2>2. /\ file = record /\ record.waves = executed /\ wave \subseteq Items
        /\ record \in Recorded /\ execution'.closures \subseteq Items
    BY <2>1 DEF RecordInv, NoExecution
  <2> DEFINE r == [record EXCEPT !.status = "error"]
  <2>3. r \in Recorded /\ r.waves = record.waves /\ r.closures = record.closures
    BY <2>2 DEF Recorded, Statuses
  <2>4. CASE \E base \in {r, record}, w \in BOOLEAN : Fails(base, w)
    <3>1. record' \in Recorded /\ file' \in Recorded /\ pc' = "threw" /\ Grows
      BY <2>2, <2>3, <2>4, Failing
    <3> QED
      BY <1>0, <2>1, <2>2, <3>1 DEF RecordInv, Grows
  <2>5. CASE Written(r) /\ record' = r /\ pc' = "threw"
    BY <1>0, <2>1, <2>2, <2>3, <2>5 DEF RecordInv, Grows, Written
  <2>6. CASE pc' = "wave" /\ UNCHANGED <<record, file>>
    BY <1>0, <2>1, <2>2, <2>6 DEF RecordInv, Grows
  <2> QED
    BY <1>5, <2>4, <2>5, <2>6 DEF Replan, records
<1>6. CASE EndOfLoop
  BY <1>0, <1>6 DEF EndOfLoop, RecordInv, Grows, records, observed
<1>7. CASE UNCHANGED vars
  BY <1>0, <1>7 DEF vars, control, records, observed, RecordInv, Grows
<1> QED
  BY <1>1, <1>2, <1>3, <1>4, <1>5, <1>6, <1>7 DEF Next

\* A wave is on disk before its agents start and stays there, with the evidence of
\* its closures, also when planning, the pipeline or a write of the record fails
\* (lines 539-556, 657-658, 694-708).
THEOREM RecordKeepsAll == Spec => RecordKeepsTheWaves
<1>1. Init => RecordInv
  <2>1. <<>> \in Waves
    BY EmptySeq DEF Waves
  <2> QED
    BY <2>1, PrefixReflexive
       DEF Init, RecordInv, Plans, NoRecord, NoExecution, Recorded, Statuses
<1>2. RecordInv => ExecutionIsRecorded
  <2> SUFFICES ASSUME RecordInv, pc = "execute"
               PROVE  file.status = "running" /\ file.waves = Append(executed, wave)
    BY DEF ExecutionIsRecorded, RecordInv
  <2>1. /\ wave \subseteq Items /\ executed \in Waves /\ record.waves = executed
        /\ file = Merged(record, WaveRecord("running", wave, {}))
    BY DEF RecordInv
  <2>2. file.status = "running" /\ file.waves = executed \o <<wave>>
    BY <2>1 DEF Merged, WaveRecord
  <2>3. executed \o <<wave>> = Append(executed, wave)
    BY <2>1, OneMore
  <2> QED
    BY <2>2, <2>3
<1>3. RecordInv /\ [Next]_vars => (Grows \/ UNCHANGED file)
  BY NextRecord
<1>4. RecordInv /\ [Next]_vars => RecordInv'
  BY NextRecord
<1> QED
  BY <1>1, <1>2, <1>3, <1>4, PTL DEF Spec, RecordKeepsTheWaves, RecordOnlyGrows, Grows
=============================================================================
