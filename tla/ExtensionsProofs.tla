-------------------------- MODULE ExtensionsProofs --------------------------
(***************************************************************************)
(* What a user commands in a Pi session, for any number of launchers,      *)
(* runs, commands at once, turns, messages, entries, edits, restarts and   *)
(* failures: the handoff tells what it opened, the records of runs follow  *)
(* the runs, the user's title stays, a rewind restores what was asked for, *)
(* moving or splitting a session loses no turn and no message and says     *)
(* that it is complete only when it is, and the editor of the              *)
(* configuration saves what it shows.                                      *)
(***************************************************************************)
EXTENDS Extensions, FilteringProofs

-----------------------------------------------------------------------------
(* The handoff *)

HandoffSpec == HandoffInit /\ [][HandoffNext]_handoffVars

Names == Launchers \union {"custom"}
InCmux == attempt.at \in {"surface", "wait", "respawn"}

\* What is left to be tried is what the override leaves, and cmux stays at the head of
\* the queue while it is called.
QueueInv ==
  /\ queue \in Seq(Names)
  /\ env.override \in Names \union {NoOverride, "manual", "unknown"}
  /\ InCmux => queue # <<>> /\ Head(queue) = "cmux"
  /\ env.override \in Names => \A i \in 1..Len(queue) : queue[i] = env.override
  /\ env.override = "manual" => queue = <<>>
\* Until a launcher reports itself a Pi was opened only by one whose answer was lost.
ToldInv ==
  /\ attempt = [at |-> attempt.at, tries |-> attempt.tries] /\ lost \in BOOLEAN
  /\ attempt.at # "start" => prompt
  /\ attempt.at = "start" => opened = {}
  /\ attempt.at # "done" => told = "nothing" /\ (~lost => opened = {})
  /\ attempt.at = "done" => /\ told \in Names => told \in opened
                            /\ ~lost => opened \subseteq {told}
OverrideInv ==
  /\ env.override \in Names => opened \subseteq {env.override}
  /\ env.override = "manual" => opened = {}
HandoffInv == QueueInv /\ ToldInv /\ OverrideInv

LEMMA NamesAre ==
  /\ LauncherOrder \in Seq(Names)
  /\ Names \intersect {"none", "manual", "unknown", "nothing"} = {}
  /\ "custom" \in Names /\ "cmux" \in Names
<1>1. LauncherOrder \in Seq(Names)
  <2>1. /\ LauncherOrder = [i \in 1..Len(LauncherOrder) |-> LauncherOrder[i]]
        /\ Len(LauncherOrder) \in Nat /\ DOMAIN LauncherOrder = 1..Len(LauncherOrder)
    BY HandoffAssumption
  <2>2. \A i \in 1..Len(LauncherOrder) : LauncherOrder[i] \in Names
    BY <2>1 DEF Names, Launchers, ToSet
  <2> QED
    BY <2>1, <2>2, IsASeq
<1> QED
  BY <1>1, HandoffAssumption DEF Names, Launchers

LEMMA PlanIsAllowed ==
  ASSUME QueueInv, queue' = LaunchPlan, env' = env
  PROVE  /\ queue' \in Seq(Names)
         /\ env.override \in Names => \A i \in 1..Len(queue') : queue'[i] = env.override
         /\ env.override = "manual" => queue' = <<>>
<1>1. CASE env.override = "manual"
  BY <1>1, NamesAre DEF LaunchPlan
<1>2. CASE env.override # "manual" /\ env.override \notin {NoOverride, "unknown"}
  <2>1. queue' = <<env.override>> /\ env.override \in Names
    BY <1>2 DEF QueueInv, LaunchPlan, Alone
  <2> QED
    BY <1>2, <2>1
<1>3. CASE env.override \in {NoOverride, "unknown"}
  BY <1>3, NamesAre DEF LaunchPlan, NoOverride
<1> QED
  BY <1>1, <1>2, <1>3

\* What a skipped launcher leaves is still allowed.
LEMMA SkippingKeeps ==
  ASSUME QueueInv, queue # <<>>, Skipped, env' = env
  PROVE  QueueInv' /\ attempt' = [at |-> "try", tries |-> 0] /\ told' = told
<1>1. /\ queue' = Tail(queue) /\ queue' \in Seq(Names) /\ Len(queue') = Len(queue) - 1
      /\ \A i \in 1..Len(queue') : queue'[i] = queue[i+1]
  BY HeadTailProperties DEF QueueInv, Skipped
<1>2. attempt' = [at |-> "try", tries |-> 0] /\ told' = told
  BY DEF Skipped, Try
<1>3. Len(queue) \in Nat
  BY DEF QueueInv
<1>4. env.override \in Names => \A i \in 1..Len(queue') : queue'[i] = env.override
  BY <1>1, <1>3 DEF QueueInv
<1> QED
  BY <1>1, <1>2, <1>4 DEF QueueInv, InCmux

\* What one step may have done: the rest of the queue is allowed, and a Pi is opened by
\* the launcher that was asked, which reports itself or is lost.
Trying == attempt.at \in {"try", "surface", "wait", "respawn"}
Silent == UNCHANGED <<prompt, opened, env>> /\ told' = told /\ lost' \in {lost, TRUE} /\ Trying
Moves(at) == attempt' = [at |-> at, tries |-> attempt'.tries] /\ at # "start"
HandoffRow ==
  \/ /\ attempt.at = "start" /\ prompt' /\ QueueInv' /\ Moves("try")
     /\ UNCHANGED <<env, opened, told, lost>>
  \/ Silent /\ QueueInv' /\ attempt'.at \notin {"start", "done"} /\ Moves(attempt'.at)
  \/ /\ Trying /\ QueueInv' /\ UNCHANGED <<env, prompt, told>> /\ lost' = TRUE /\ Moves("try")
     /\ queue # <<>> /\ opened' = opened \union {Head(queue)}
  \/ /\ Trying /\ QueueInv' /\ UNCHANGED <<env, prompt, lost>> /\ Moves("done")
     /\ queue # <<>> /\ opened' = opened \union {Head(queue)} /\ told' = Head(queue)
  \/ /\ Trying /\ QueueInv' /\ UNCHANGED <<env, prompt, lost, opened>> /\ Moves("done")
     /\ told' = "manual"

LEMMA HandoffRows == HandoffInv /\ HandoffNext => HandoffRow
<1> SUFFICES ASSUME HandoffInv, HandoffNext PROVE HandoffRow
  OBVIOUS
<1> USE DEF HandoffRow, Silent, Moves, Trying
<1>0. QueueInv /\ lost \in BOOLEAN /\ attempt = [at |-> attempt.at, tries |-> attempt.tries]
  BY DEF HandoffInv, ToldInv
<1>a. ASSUME UNCHANGED <<env, queue>>, attempt'.at \notin {"surface", "wait", "respawn"} \/ InCmux
      PROVE  QueueInv'
  BY <1>0, <1>a DEF QueueInv, InCmux
<1>1. CASE WritePrompt
  BY <1>0, <1>1, PlanIsAllowed DEF WritePrompt, QueueInv, InCmux
<1>2. CASE NotThere
  BY <1>0, <1>2, SkippingKeeps DEF NotThere
<1>3. CASE RunDiag
  <2>1. attempt.at = "try" /\ queue # <<>> /\ UNCHANGED <<env, prompt, surfaces>>
    BY <1>3 DEF RunDiag
  <2>2. PICK does, says \in BOOLEAN :
          /\ says => does
          /\ Call(does, says) /\ opened' = IF does THEN opened \union {Head(queue)} ELSE opened
          /\ IF says THEN Launched(Head(queue)) ELSE Skipped
    BY <1>3 DEF RunDiag
  <2>3. CASE says
    <3>1. attempt' = [at |-> "done", tries |-> 0] /\ told' = Head(queue) /\ UNCHANGED queue
      BY <2>2, <2>3 DEF Launched, Try
    <3> QED
      BY <1>0, <1>a, <2>1, <2>2, <2>3, <3>1 DEF Call
  <2>4. CASE ~says
    <3>1. QueueInv' /\ attempt' = [at |-> "try", tries |-> 0] /\ told' = told
      BY <1>0, <2>1, <2>2, <2>4, SkippingKeeps
    <3>2. CASE does
      BY <2>1, <2>2, <2>4, <3>1, <3>2 DEF Call
    <3>3. CASE ~does
      BY <1>0, <2>1, <2>2, <3>1, <3>3 DEF Call
    <3> QED
      BY <3>2, <3>3
  <2> QED
    BY <2>3, <2>4
<1>4. CASE CmuxIdentify
  <2>1. attempt.at = "try" /\ queue # <<>> /\ Head(queue) = "cmux" /\ UNCHANGED <<env, prompt, opened, lost>>
    BY <1>4 DEF CmuxIdentify
  <2>2. CASE Try("surface") /\ UNCHANGED <<queue, told>>
    <3>1. attempt' = [at |-> "surface", tries |-> 0] /\ QueueInv'
      BY <1>0, <2>1, <2>2 DEF Try, QueueInv, InCmux
    <3> QED
      BY <1>0, <2>1, <2>2, <3>1
  <2>3. CASE Skipped
    BY <1>0, <2>1, <2>3, SkippingKeeps
  <2> QED
    BY <1>4, <2>2, <2>3 DEF CmuxIdentify
<1>5. CASE CmuxSurface
  <2>1. attempt.at = "surface" /\ queue # <<>> /\ UNCHANGED <<env, prompt, opened>>
    BY <1>0, <1>5 DEF CmuxSurface, QueueInv, InCmux
  <2>2. PICK does, says \in BOOLEAN :
          Call(does, says) /\ IF says THEN Try("wait") /\ UNCHANGED <<queue, told>> ELSE Skipped
    BY <1>5 DEF CmuxSurface
  <2>3. CASE says
    <3>1. attempt' = [at |-> "wait", tries |-> 0] /\ QueueInv'
      BY <1>0, <1>a, <2>1, <2>2, <2>3 DEF Try, InCmux
    <3> QED
      BY <1>0, <2>1, <2>2, <2>3, <3>1 DEF Call
  <2>4. CASE ~says
    <3>1. QueueInv' /\ attempt' = [at |-> "try", tries |-> 0] /\ told' = told
      BY <1>0, <2>1, <2>2, <2>4, SkippingKeeps
    <3>2. CASE does
      BY <2>1, <2>2, <2>4, <3>1, <3>2 DEF Call
    <3>3. CASE ~does
      BY <1>0, <2>1, <2>2, <3>1, <3>3 DEF Call
    <3> QED
      BY <3>2, <3>3
  <2> QED
    BY <2>3, <2>4
<1>6. CASE CmuxWait
  <2>1. attempt.at = "wait" /\ queue # <<>> /\ UNCHANGED <<env, prompt, opened, lost>>
    BY <1>0, <1>6 DEF CmuxWait, QueueInv, InCmux
  <2>2. CASE Skipped
    BY <1>0, <2>1, <2>2, SkippingKeeps
  <2>3. CASE ~Skipped
    <3>1. /\ UNCHANGED <<queue, told>>
          /\ \/ attempt' = [at |-> "respawn", tries |-> 0]
             \/ attempt' = [attempt EXCEPT !.tries = @ + 1]
      BY <1>6, <2>3 DEF CmuxWait, Try
    <3>2. Moves(attempt'.at) /\ attempt'.at \in {"wait", "respawn"}
      BY <1>0, <2>1, <3>1
    <3> QED
      BY <1>0, <1>a, <2>1, <3>1, <3>2 DEF InCmux
  <2> QED
    BY <2>2, <2>3
<1>7. CASE CmuxRespawn
  <2>1. attempt.at = "respawn" /\ queue # <<>> /\ Head(queue) = "cmux" /\ UNCHANGED <<env, prompt>>
    BY <1>0, <1>7 DEF CmuxRespawn, QueueInv, InCmux
  <2>2. PICK does, says \in BOOLEAN :
          /\ says => does
          /\ Call(does, says) /\ opened' = IF does THEN opened \union {"cmux"} ELSE opened
          /\ IF says THEN Launched("cmux") ELSE Skipped
    BY <1>7 DEF CmuxRespawn
  <2>3. CASE says
    <3>1. attempt' = [at |-> "done", tries |-> 0] /\ told' = "cmux" /\ UNCHANGED queue
      BY <2>2, <2>3 DEF Launched, Try
    <3> QED
      BY <1>0, <1>a, <2>1, <2>2, <2>3, <3>1 DEF Call
  <2>4. CASE ~says
    <3>1. QueueInv' /\ attempt' = [at |-> "try", tries |-> 0] /\ told' = told
      BY <1>0, <2>1, <2>2, <2>4, SkippingKeeps
    <3>2. CASE does
      BY <2>1, <2>2, <2>4, <3>1, <3>2 DEF Call
    <3>3. CASE ~does
      BY <1>0, <2>1, <2>2, <3>1, <3>3 DEF Call
    <3> QED
      BY <3>2, <3>3
  <2> QED
    BY <2>3, <2>4
<1>8. CASE Manual
  <2>1. attempt' = [at |-> "done", tries |-> 0] /\ attempt.at = "try"
    BY <1>8 DEF Manual, Try
  <2> QED
    BY <1>0, <1>a, <1>8, <2>1 DEF Manual
<1> QED
  BY <1>1, <1>2, <1>3, <1>4, <1>5, <1>6, <1>7, <1>8 DEF HandoffNext

LEMMA HandoffKept == HandoffInv /\ HandoffRow => HandoffInv'
<1> SUFFICES ASSUME HandoffInv, HandoffRow PROVE HandoffInv'
  OBVIOUS
<1>1. queue # <<>> => /\ Head(queue) \in Names
                      /\ env.override \in Names => Head(queue) = env.override
                      /\ env.override # "manual"
  BY HeadTailProperties DEF HandoffInv, QueueInv
<1>2. QueueInv' /\ env' = env
  BY DEF HandoffRow, Silent
<1>3. OverrideInv'
  BY <1>1 DEF HandoffInv, OverrideInv, HandoffRow, Silent
<1>4. ToldInv'
  <2> USE NamesAre DEF Trying, Moves
  <2>0. ToldInv
    BY DEF HandoffInv
  <2>1. CASE attempt.at = "start" /\ prompt' /\ Moves("try") /\ UNCHANGED <<env, opened, told, lost>>
    BY <2>0, <2>1 DEF ToldInv
  <2>2. CASE Silent /\ attempt'.at \notin {"start", "done"} /\ Moves(attempt'.at)
    <3>1. CASE lost' = lost
      BY <2>0, <2>2, <3>1 DEF ToldInv, Silent
    <3>2. CASE lost' = TRUE
      BY <2>0, <2>2, <3>2 DEF ToldInv, Silent
    <3> QED
      BY <2>2, <3>1, <3>2 DEF Silent
  <2>3. CASE Trying /\ UNCHANGED <<env, prompt, told>> /\ lost' = TRUE /\ Moves("try")
    BY <2>0, <2>3 DEF ToldInv
  <2>4. CASE /\ Trying /\ UNCHANGED <<env, prompt, lost>> /\ Moves("done")
             /\ opened' = opened \union {Head(queue)} /\ told' = Head(queue)
    BY <2>0, <2>4 DEF ToldInv
  <2>5. CASE Trying /\ UNCHANGED <<env, prompt, lost, opened>> /\ Moves("done") /\ told' = "manual"
    BY <2>0, <2>5 DEF ToldInv
  <2> QED
    BY <2>1, <2>2, <2>3, <2>4, <2>5 DEF HandoffRow
<1> QED
  BY <1>2, <1>3, <1>4 DEF HandoffInv

LEMMA InitHandoff == HandoffInit => HandoffInv
<1> SUFFICES ASSUME HandoffInit PROVE HandoffInv
  OBVIOUS
<1>1. env.override \in Names \union {NoOverride, "manual", "unknown"}
  BY DEF HandoffInit, Names
<1>2. /\ attempt = [at |-> "start", tries |-> 0] /\ queue = <<>> /\ prompt = FALSE
      /\ opened = {} /\ told = "nothing" /\ lost = FALSE
  BY DEF HandoffInit
<1>3. QueueInv
  BY <1>1, <1>2 DEF QueueInv, InCmux
<1>4. ToldInv
  BY <1>2 DEF ToldInv
<1> QED
  BY <1>2, <1>3, <1>4 DEF HandoffInv, OverrideInv

LEMMA NextHandoff == HandoffInv /\ [HandoffNext]_handoffVars => HandoffInv'
<1>1. CASE HandoffInv /\ HandoffNext
  BY <1>1, HandoffRows, HandoffKept
<1>2. CASE HandoffInv /\ UNCHANGED handoffVars
  BY <1>2 DEF handoffVars, HandoffInv, QueueInv, ToldInv, OverrideInv, InCmux
<1> QED
  BY <1>1, <1>2

LEMMA HandoffShown == HandoffInv => HandoffIsHonest
<1> SUFFICES ASSUME HandoffInv PROVE HandoffIsHonest
  OBVIOUS
<1>1. told \in Names => told \in opened
  BY NamesAre DEF HandoffInv, ToldInv
<1>2. told # "nothing" /\ ~lost => opened \ {told} = {}
  BY DEF HandoffInv, ToldInv
<1>3. told # "nothing" /\ ~lost => Cardinality(opened \ {told}) = 0
  BY <1>2, FS_EmptySet
<1> QED
  BY <1>1, <1>3 DEF HandoffInv, ToldInv, OverrideInv, HandoffIsHonest, Names
-----------------------------------------------------------------------------
(* The records of runs *)

RecordSpec == RecordInit /\ [][RecordNext]_recordVars

RunRecord == [status : {"running", "failed", "completed", "cancelled"}, updated : Nat,
              session : BOOLEAN, source : Sources]
CallTyped(call) ==
  /\ call = [pc |-> call.pc, todo |-> call.todo, copy |-> call.copy]
  /\ call.copy \subseteq RunRecord
RecordsTyped ==
  /\ records \in [Runs -> RunRecord] /\ clock \in Nat
  /\ process \in [Runs -> {"running", "stopped", "ended", "gone"}]
  /\ DOMAIN recordCall = Callers /\ \A c \in Callers : CallTyped(recordCall[c])

\* Between stopping or restarting a run and recording it a command knows what the process
\* does, and no other command has the run, unless it is contested.
Settled(r) == \A c \in Callers : ~Recording(c, r)
Followed(r) ==
  /\ Settled(r) => /\ records[r].status = "running" => process[r] \in {"running", "gone"}
                   /\ process[r] = "running" => records[r].status = "running"
  /\ \A c \in Callers : Recording(c, r) =>
       /\ recordCall[c].pc = "cancelled" <=> process[r] # "running"
       /\ \A d \in Callers : Recording(d, r) => c = d
RecordsInv == RecordsTyped /\ \A r \in Runs \ contested : Followed(r)

LEMMA CallFields ==
  ASSUME NEW p, NEW q, NEW y, y \subseteq RunRecord
  PROVE  LET call == [pc |-> p, todo |-> q, copy |-> y]
         IN CallTyped(call) /\ call.pc = p /\ call.todo = q
BY DEF CallTyped

LEMMA CallChanged ==
  ASSUME NEW call, CallTyped(call), NEW p
  PROVE  /\ [call EXCEPT !.pc = p] = [pc |-> p, todo |-> call.todo, copy |-> call.copy]
         /\ call.copy \subseteq RunRecord
<1> DEFINE t == call.todo
           y == call.copy
           x == call.pc
<1>1. call = [pc |-> x, todo |-> t, copy |-> y] /\ y \subseteq RunRecord
  BY DEF CallTyped
<1> HIDE DEF t, y, x
<1>2. [call EXCEPT !.pc = p] = [pc |-> p, todo |-> t, copy |-> y]
  BY <1>1
<1> QED
  BY <1>1, <1>2 DEF t, y

LEMMA CallPatched ==
  \A call, p, q : CallTyped(call) =>
     [call EXCEPT !.pc = p, !.todo = q] = [pc |-> p, todo |-> q, copy |-> call.copy]
<1> SUFFICES ASSUME NEW call, NEW p, NEW q, CallTyped(call)
             PROVE  [call EXCEPT !.pc = p, !.todo = q] = [pc |-> p, todo |-> q, copy |-> call.copy]
  OBVIOUS
<1> DEFINE t == call.todo
           y == call.copy
<1>1. [call EXCEPT !.pc = p] = [pc |-> p, todo |-> t, copy |-> y]
  BY CallChanged
<1> HIDE DEF t, y
<1>2. [call EXCEPT !.pc = p, !.todo = q] = [[call EXCEPT !.pc = p] EXCEPT !.todo = q]
  OBVIOUS
<1>3. [[pc |-> p, todo |-> t, copy |-> y] EXCEPT !.todo = q] = [pc |-> p, todo |-> q, copy |-> y]
  OBVIOUS
<1>4. [call EXCEPT !.pc = p, !.todo = q] = [pc |-> p, todo |-> q, copy |-> y]
  BY <1>1, <1>2, <1>3, Zenon
<1> QED
  BY <1>4 DEF y

LEMMA NoCallTyped == CallTyped(NoCall) /\ NoCall.pc = "idle" /\ NoCall.copy = {}
BY DEF CallTyped, NoCall

\* A call of c is replaced; the others stay what they are.
LEMMA CallsOnly ==
  ASSUME RecordsTyped, NEW c \in Callers, NEW call, CallTyped(call), Calls(c, call)
  PROVE  /\ DOMAIN recordCall' = Callers /\ recordCall'[c] = call
         /\ \A d \in Callers \ {c} : recordCall'[d] = recordCall[d]
         /\ \A d \in Callers : CallTyped(recordCall'[d])
<1>1. /\ DOMAIN recordCall' = Callers /\ recordCall'[c] = call
      /\ \A d \in Callers \ {c} : recordCall'[d] = recordCall[d]
  BY DEF RecordsTyped, Calls
<1> QED
  BY <1>1 DEF RecordsTyped

\* A step of c that begins or gives up its command: it records nothing before or after.
LEMMA StillSelecting ==
  ASSUME RecordsInv, NEW c \in Callers, UNCHANGED <<records, process, contested, clock>>,
         recordCall[c].pc \notin {"cancelled", "resumed"},
         NEW call, CallTyped(call), Calls(c, call), call.pc \notin {"cancelled", "resumed"}
  PROVE  RecordsInv'
<1>0. RecordsTyped
  BY DEF RecordsInv
<1>1. /\ DOMAIN recordCall' = Callers /\ recordCall'[c] = call
      /\ \A d \in Callers \ {c} : recordCall'[d] = recordCall[d]
      /\ \A d \in Callers : CallTyped(recordCall'[d])
  BY <1>0, CallsOnly
<1>2. RecordsTyped'
  BY <1>0, <1>1 DEF RecordsTyped, CallTyped
<1>3. \A d \in Callers, r \in Runs : Recording(d, r)' <=> Recording(d, r)
  BY <1>1 DEF Recording
<1>4. \A d \in Callers, r \in Runs : Recording(d, r) => recordCall'[d].pc = recordCall[d].pc
  BY <1>1 DEF Recording
<1>5. ASSUME NEW r \in Runs \ contested' PROVE Followed(r)'
  <2>1. Followed(r)
    BY <1>5 DEF RecordsInv
  <2> QED
    BY <1>3, <1>4, <2>1 DEF Followed, Settled
<1> QED
  BY <1>2, <1>5 DEF RecordsInv

LEMMA RecordedRun ==
  ASSUME RecordsTyped, NEW r, NEW rec \in RunRecord, NEW s \in {"running", "failed", "completed", "cancelled"},
         Put(r, [rec EXCEPT !.status = s, !.updated = clock])
  PROVE  /\ records' \in [Runs -> RunRecord]
         /\ r \in Runs => records'[r].status = s
         /\ \A q \in Runs \ {r} : records'[q] = records[q]
<1>1. [rec EXCEPT !.status = s, !.updated = clock] \in RunRecord /\ [rec EXCEPT !.status = s, !.updated = clock].status = s
  BY DEF RecordsTyped, RunRecord
<1> QED
  BY <1>1 DEF RecordsTyped, Put

LEMMA RunEndsKeeps == ASSUME RecordsInv, NEW r \in Runs, RunEnds(r) PROVE RecordsInv'
<1>1. process' = [process EXCEPT ![r] = "ended"] /\ UNCHANGED <<recordCall, clock>> /\ Contests(r)
  BY DEF RunEnds, WorldSame
<1>2. PICK s \in {"completed", "failed"} : Put(r, [records[r] EXCEPT !.status = s, !.updated = clock])
  BY DEF RunEnds
<1>3. /\ records' \in [Runs -> RunRecord] /\ records'[r].status = s
      /\ \A q \in Runs \ {r} : records'[q] = records[q]
  BY <1>2, RecordedRun DEF RecordsInv, RecordsTyped
<1>4. RecordsTyped'
  BY <1>1, <1>3 DEF RecordsInv, RecordsTyped, CallTyped
<1>5. \A d \in Callers, q \in Runs : Recording(d, q)' <=> Recording(d, q)
  BY <1>1 DEF Recording
<1>6. /\ process'[r] = "ended" /\ \A q \in Runs \ {r} : process'[q] = process[q]
      /\ contested \subseteq contested'
      /\ (\E c \in Callers : Recording(c, r)) => r \in contested'
  BY <1>1 DEF Contests, RecordsInv, RecordsTyped
<1>7. ASSUME NEW q \in Runs \ contested' PROVE Followed(q)'
  <2>1. Followed(q)
    BY <1>6, <1>7 DEF RecordsInv
  <2>2. CASE q = r
    BY <1>3, <1>5, <1>6, <1>7, <2>2 DEF Followed, Settled
  <2>3. CASE q # r
    BY <1>1, <1>3, <1>5, <1>6, <2>1, <2>3 DEF Followed, Settled
  <2> QED
    BY <2>2, <2>3
<1> QED
  BY <1>4, <1>7 DEF RecordsInv

LEMMA AwaitKeeps == ASSUME RecordsInv, NEW c \in Callers, Await(c) PROVE RecordsInv'
<1> DEFINE r == Head(recordCall[c].todo)
           next == IF InCall(c, "cancel") THEN "cancelled" ELSE "resumed"
           call == [recordCall[c] EXCEPT !.pc = next]
<1>0. /\ recordCall[c].pc \in {"cancel", "resume"} /\ UNCHANGED records /\ clock' = clock
      /\ RecordsTyped
  BY DEF Await, WorldSame, RecordsInv
<1>1. CASE Calls(c, NoCall) /\ UNCHANGED <<process, contested>>
  BY <1>0, <1>1, NoCallTyped, StillSelecting
<1>2. CASE /\ process' = [process EXCEPT ![r] = IF ~InCall(c, "cancel") THEN "running"
                                                 ELSE IF @ = "running" THEN "stopped" ELSE @]
           /\ Calls(c, call) /\ Contests(r)
  <2>1. CallTyped(call) /\ call.pc = next /\ call.todo = recordCall[c].todo
    <3>1. CallTyped(recordCall[c])
      BY <1>0 DEF RecordsTyped
    <3>2. call = [pc |-> next, todo |-> recordCall[c].todo, copy |-> recordCall[c].copy]
      BY <3>1, CallChanged
    <3>3. recordCall[c].copy \subseteq RunRecord
      BY <3>1 DEF CallTyped
    <3> QED
      BY <3>2, <3>3, CallFields
  <2>a. Calls(c, call)
    BY <1>2
  <2> HIDE DEF call
  <2>2. /\ recordCall'[c].pc = next /\ recordCall'[c].todo = recordCall[c].todo
        /\ \A d \in Callers \ {c} : recordCall'[d] = recordCall[d]
        /\ DOMAIN recordCall' = Callers /\ \A d \in Callers : CallTyped(recordCall'[d])
    BY <1>0, <2>1, <2>a, CallsOnly
  <2>3. RecordsTyped'
    BY <1>0, <1>2, <2>2 DEF RecordsTyped, CallTyped
  <2>4. /\ \A q \in Runs \ {r} : process'[q] = process[q]
        /\ r \in Runs => (next = "cancelled" <=> process'[r] # "running")
    BY <1>0, <1>2 DEF RecordsTyped
  <2>5. /\ \A q \in Runs : ~Recording(c, q) /\ (Recording(c, q)' <=> q = r)
        /\ \A d \in Callers \ {c}, q \in Runs : Recording(d, q)' <=> Recording(d, q)
    BY <1>0, <2>2 DEF Recording, InCall
  <2>6. contested \subseteq contested' /\ ((\E d \in Callers : Recording(d, r)) => r \in contested')
    BY <1>2 DEF Contests
  <2>7. ASSUME NEW q \in Runs \ contested' PROVE Followed(q)'
    <3>1. Followed(q)
      BY <2>6, <2>7 DEF RecordsInv
    <3>2. CASE q = r
      BY <2>2, <2>4, <2>5, <2>6, <2>7, <3>2 DEF Followed, Settled
    <3>3. CASE q # r
      <4>1. \A d \in Callers : Recording(d, q)' <=> Recording(d, q)
        BY <2>5, <3>3
      <4>2. \A d \in Callers : Recording(d, q) => recordCall'[d] = recordCall[d]
        BY <2>2, <2>5
      <4> QED
        BY <1>0, <2>4, <3>1, <3>3, <4>1, <4>2 DEF Followed, Settled
    <3> QED
      BY <3>2, <3>3
  <2> QED
    BY <2>3, <2>7 DEF RecordsInv
<1> QED
  BY <1>1, <1>2 DEF Await, AfterThrow

LEMMA RecordKeeps == ASSUME RecordsInv, NEW c \in Callers, Record(c) PROVE RecordsInv'
<1> DEFINE r == Head(recordCall[c].todo)
           rest == Tail(recordCall[c].todo)
           s == IF InCall(c, "resumed") THEN "running" ELSE "cancelled"
<1>0. /\ recordCall[c].pc \in {"cancelled", "resumed"} /\ UNCHANGED <<process, contested, clock>>
      /\ RecordsTyped /\ recordCall[c].copy \subseteq RunRecord
  BY DEF Record, WorldSame, RecordsInv, RecordsTyped, CallTyped
<1>1. PICK rec \in Base(c, r) : Put(r, [rec EXCEPT !.status = s, !.updated = clock])
  BY DEF Record
<1>2. /\ records' \in [Runs -> RunRecord]
      /\ r \in Runs => records'[r].status = s
      /\ \A q \in Runs \ {r} : records'[q] = records[q]
  <2>1. CASE r \in Runs
    <3>1. rec \in RunRecord
      BY <1>0, <1>1, <2>1 DEF Base, RecordsTyped
    <3> QED
      BY <1>0, <1>1, <3>1, RecordedRun
  <2>2. CASE r \notin Runs
    BY <1>0, <1>1, <2>2 DEF Put, RecordsTyped
  <2> QED
    BY <2>1, <2>2
<1>3. PICK call : Calls(c, call) /\ CallTyped(call) /\ call.pc \in {"idle", "cancel"}
  <2>1. CASE rest = <<>>
    <3>1. Calls(c, NoCall)
      BY <2>1 DEF Record
    <3> QED
      BY <3>1, NoCallTyped
  <2>2. CASE rest # <<>>
    <3>1. Calls(c, [recordCall[c] EXCEPT !.pc = "cancel", !.todo = rest])
      BY <2>2 DEF Record
    <3>2. CallTyped(recordCall[c])
      BY <1>0 DEF RecordsTyped
    <3> DEFINE call == [pc |-> "cancel", todo |-> rest, copy |-> recordCall[c].copy]
    <3>0. [recordCall[c] EXCEPT !.pc = "cancel", !.todo = rest] = call
      BY <3>2, CallPatched, Zenon
    <3>3. Calls(c, call)
      BY <3>0, <3>1, Zenon
    <3>4. CallTyped(call) /\ call.pc = "cancel"
      BY <1>0, CallFields
    <3> HIDE DEF call
    <3> QED
      BY <3>3, <3>4
  <2> QED
    BY <2>1, <2>2
<1>4. /\ recordCall'[c].pc \in {"idle", "cancel"}
      /\ \A d \in Callers \ {c} : recordCall'[d] = recordCall[d]
      /\ DOMAIN recordCall' = Callers /\ \A d \in Callers : CallTyped(recordCall'[d])
  BY <1>0, <1>3, CallsOnly
<1>5. RecordsTyped'
  BY <1>0, <1>2, <1>4 DEF RecordsTyped, CallTyped
<1>6. /\ \A q \in Runs : ~Recording(c, q)' /\ (Recording(c, q) <=> q = r)
      /\ \A d \in Callers \ {c}, q \in Runs : Recording(d, q)' <=> Recording(d, q)
  BY <1>0, <1>4 DEF Recording
<1>7. ASSUME NEW q \in Runs \ contested' PROVE Followed(q)'
  <2>1. Followed(q)
    BY <1>0, <1>7 DEF RecordsInv
  <2>2. CASE q = r
    <3>1. Recording(c, q)
      BY <1>6, <2>2
    <3>2. \A d \in Callers : ~Recording(d, q)'
      BY <1>6, <2>1, <3>1 DEF Followed
    <3>3. s = "running" <=> process'[q] = "running"
      BY <1>0, <2>1, <3>1 DEF Followed, InCall
    <3>4. records'[q].status = s
      BY <1>2, <2>2
    <3> QED
      BY <3>2, <3>3, <3>4 DEF Followed, Settled
  <2>3. CASE q # r
    <3>1. \A d \in Callers : Recording(d, q)' <=> Recording(d, q)
      BY <1>6, <2>3
    <3>2. \A d \in Callers : Recording(d, q) => recordCall'[d] = recordCall[d]
      BY <1>4, <1>6, <2>3
    <3> QED
      BY <1>0, <1>2, <2>1, <2>3, <3>1, <3>2 DEF Followed, Settled
  <2> QED
    BY <2>2, <2>3
<1> QED
  BY <1>5, <1>7 DEF RecordsInv

LEMMA SelectionKeeps ==
  ASSUME RecordsInv, NEW c \in Callers, Cancel(c) \/ Resume(c) \/ ResumeWork(c)
  PROVE  RecordsInv'
<1>1. UNCHANGED <<records, process, contested>> /\ UNCHANGED clock /\ recordCall[c].pc = "idle"
  BY DEF Cancel, Resume, ResumeWork, WorldSame, InCall
<1>0. RecordsTyped
  BY DEF RecordsInv
<1>2. PICK call : Calls(c, call) /\ CallTyped(call) /\ call.pc \in {"cancel", "resume"}
  <2>1. CASE Cancel(c)
    <3>1. PICK q \in Cancelable : Calls(c, [NoCall EXCEPT !.pc = "cancel", !.todo = q])
      BY <2>1 DEF Cancel
    <3> DEFINE call == [pc |-> "cancel", todo |-> q, copy |-> NoCall.copy]
    <3>0. [NoCall EXCEPT !.pc = "cancel", !.todo = q] = call
      BY NoCallTyped, CallPatched, Zenon
    <3>2. Calls(c, call)
      BY <3>0, <3>1, Zenon
    <3>3. CallTyped(call) /\ call.pc = "cancel"
      BY NoCallTyped, CallFields
    <3> HIDE DEF call
    <3> QED
      BY <3>2, <3>3
  <2>2. CASE Resume(c)
    <3>1. PICK q \in Resumable : Calls(c, [NoCall EXCEPT !.pc = "resume", !.todo = q])
      BY <2>2 DEF Resume
    <3> DEFINE call == [pc |-> "resume", todo |-> q, copy |-> NoCall.copy]
    <3>0. [NoCall EXCEPT !.pc = "resume", !.todo = q] = call
      BY NoCallTyped, CallPatched, Zenon
    <3>2. Calls(c, call)
      BY <3>0, <3>1, Zenon
    <3>3. CallTyped(call) /\ call.pc = "resume"
      BY NoCallTyped, CallFields
    <3> HIDE DEF call
    <3> QED
      BY <3>2, <3>3
  <2>3. CASE ResumeWork(c)
    <3>1. PICK q \in WorkSelectable : Calls(c, [pc |-> "resume", todo |-> q, copy |-> {records[Head(q)]}])
      BY <2>3 DEF ResumeWork
    <3>2. \E x \in Runs : q = <<x>>
      <4>1. \A S : Newest(S) \subseteq S
        BY DEF Newest
      <4>2. WorkUnfinished \subseteq Runs
        BY DEF WorkUnfinished
      <4>3. Newest(WorkUnfinished) \subseteq Runs
        BY <4>1, <4>2
      <4> QED
        BY <4>3 DEF WorkSelectable
    <3>3. Head(q) \in Runs
      BY <3>2
    <3>4. {records[Head(q)]} \subseteq RunRecord
      BY <1>0, <3>3 DEF RecordsTyped
    <3> DEFINE call == [pc |-> "resume", todo |-> q, copy |-> {records[Head(q)]}]
    <3>5. call.copy = {records[Head(q)]} /\ call.pc = "resume" /\ call.todo = q
      OBVIOUS
    <3>6. CallTyped(call)
      BY <3>4, <3>5 DEF CallTyped
    <3> QED
      BY <3>1, <3>5, <3>6
  <2> QED
    BY <2>1, <2>2, <2>3
<1> QED
  BY <1>1, <1>2, StillSelecting

LEMMA WorldKeeps ==
  ASSUME RecordsInv, UNCHANGED <<records, process, recordCall, contested>>, clock' \in Nat
  PROVE  RecordsInv'
<1>1. RecordsTyped'
  BY DEF RecordsInv, RecordsTyped, CallTyped
<1>2. \A d, r : Recording(d, r)' <=> Recording(d, r)
  BY DEF Recording
<1>3. ASSUME NEW r \in Runs \ contested' PROVE Followed(r)'
  <2>1. Followed(r)
    BY <1>3 DEF RecordsInv
  <2> QED
    BY <1>2, <2>1 DEF Followed, Settled
<1> QED
  BY <1>1, <1>3 DEF RecordsInv

LEMMA InitRecords == RecordInit => RecordsInv
<1> SUFFICES ASSUME RecordInit PROVE RecordsInv
  OBVIOUS
<1>1. /\ records \in [Runs -> [status : {"running", "failed"}, updated : {0}, session : BOOLEAN, source : {"old"}]]
      /\ process \in [Runs -> {"running", "gone"}] /\ recordCall = [c \in Callers |-> NoCall] /\ clock = 0
      /\ \A r \in Runs : records[r].status = "failed" => process[r] = "gone"
  BY DEF RecordInit
<1>2. records \in [Runs -> RunRecord]
  BY <1>1 DEF RunRecord, Sources
<1>3. RecordsTyped
  BY <1>1, <1>2 DEF RecordsTyped, CallTyped, NoCall
<1>4. \A r \in Runs : Followed(r)
  BY <1>1 DEF Followed, Settled, Recording, NoCall
<1> QED
  BY <1>3, <1>4 DEF RecordsInv

LEMMA NextRecords == RecordsInv /\ [RecordNext]_recordVars => RecordsInv'
<1> SUFFICES ASSUME RecordsInv, [RecordNext]_recordVars PROVE RecordsInv'
  OBVIOUS
<1>1. clock \in Nat
  BY DEF RecordsInv, RecordsTyped
<1>2. CASE Tick \/ SelectSource \/ UNCHANGED recordVars
  <2>1. UNCHANGED <<records, process, recordCall, contested>> /\ clock' \in Nat
    BY <1>1, <1>2 DEF Tick, SelectSource, recordVars
  <2> QED
    BY <2>1, WorldKeeps
<1>3. CASE \E r \in Runs : RunEnds(r)
  BY <1>3, RunEndsKeeps
<1>4. CASE \E c \in Callers : Cancel(c) \/ Resume(c) \/ ResumeWork(c) \/ Await(c) \/ Record(c)
  BY <1>4, SelectionKeeps, AwaitKeeps, RecordKeeps
<1> QED
  BY <1>2, <1>3, <1>4 DEF RecordNext

LEMMA RecordsShown == RecordsInv => RecordFollowsTheRun
BY DEF RecordsInv, Followed, Settled, RecordFollowsTheRun
-----------------------------------------------------------------------------
(* The titles *)

AutonameSpec == AutonameInit /\ [][AutonameNext]_autonameVars

\* The title the user gave last is not the extension's own, so that no turn asks for
\* another while it stands; who asked before it was given is on record.
TitlesInv ==
  /\ {title, given, naming.owned, manual.title} \subseteq Nat
  /\ naming = [auto |-> naming.auto, owned |-> naming.owned, turns |-> naming.turns,
               attempted |-> naming.attempted]
  /\ naming.owned <= given /\ manual.title <= given
  /\ title = manual.title /\ title > 0 =>
       /\ naming.owned # title
       /\ "turn" \in waiting => "turn" \in manual.when

LEMMA InitTitles == AutonameInit => TitlesInv
BY DEF AutonameInit, TitlesInv

LEMMA TurnEndKeeps == TitlesInv /\ TurnEnd => TitlesInv'
<1> SUFFICES ASSUME TitlesInv, TurnEnd PROVE TitlesInv'
  OBVIOUS
<1>1. UNCHANGED <<title, given, manual>> /\ naming'.owned = naming.owned
      /\ naming' = [auto |-> naming'.auto, owned |-> naming'.owned, turns |-> naming'.turns,
                    attempted |-> naming'.attempted]
  BY DEF TurnEnd, TitlesInv
<1>2. waiting' = waiting \/ title = 0 \/ title = naming.owned
  BY DEF TurnEnd, Due, Owned, IsOwn
<1> QED
  BY <1>1, <1>2 DEF TitlesInv

LEMMA NextTitles == TitlesInv /\ [AutonameNext]_autonameVars => TitlesInv'
<1> SUFFICES ASSUME TitlesInv, [AutonameNext]_autonameVars PROVE TitlesInv'
  OBVIOUS
<1>1. CASE TurnEnd
  BY <1>1, TurnEndKeeps
<1>2. CASE Refresh
  BY <1>2 DEF Refresh, Waits, TitlesInv
<1>3. CASE SwitchAuto
  BY <1>3 DEF SwitchAuto, TitlesInv
<1>4. CASE UserNames
  <2>1. /\ given' = given + 1 /\ title' = given' /\ waiting' = waiting
        /\ manual' = [title |-> given', when |-> waiting]
        /\ naming' = naming \/ naming' = [naming EXCEPT !.owned = 0]
    BY <1>4 DEF UserNames
  <2>2. naming'.owned \in {naming.owned, 0}
        /\ naming' = [auto |-> naming'.auto, owned |-> naming'.owned, turns |-> naming'.turns,
                      attempted |-> naming'.attempted]
    BY <2>1 DEF TitlesInv
  <2> QED
    BY <2>1, <2>2 DEF TitlesInv
<1>5. CASE Reported
  <2>1. naming'.owned \in {naming.owned, 0} /\ UNCHANGED <<title, given, waiting, manual>>
        /\ naming' = [auto |-> naming'.auto, owned |-> naming'.owned, turns |-> naming'.turns,
                      attempted |-> naming'.attempted]
    BY <1>5 DEF Reported, TitlesInv
  <2> QED
    BY <2>1 DEF TitlesInv
<1>6. CASE \E who \in {"turn", "command"} : Suggested(who)
  <2>1. /\ given' = given + 1 /\ title' = given' /\ UNCHANGED manual /\ naming'.owned = given'
        /\ naming' = [auto |-> naming'.auto, owned |-> naming'.owned, turns |-> naming'.turns,
                      attempted |-> naming'.attempted]
    BY <1>6 DEF Suggested, FreshTitle, TitlesInv
  <2> QED
    BY <2>1 DEF TitlesInv
<1>7. CASE UNCHANGED autonameVars
  BY <1>7 DEF autonameVars, TitlesInv
<1> QED
  BY <1>1, <1>2, <1>3, <1>4, <1>5, <1>6, <1>7 DEF AutonameNext

\* Who stops waiting without a new title changes nothing; and the turn that gave the title
\* up waited when the user named the session.
LEMMA TitleStaysShown ==
  TitlesInv => (title = manual.title /\ title > 0 /\ title' # title /\ "turn" \in waiting /\ waiting' = waiting \ {"turn"}
                  => "turn" \in manual.when)
BY DEF TitlesInv
-----------------------------------------------------------------------------
(* The rewind *)

RewindSpec == RewindInit /\ [][RewindNext]_rewindVars

Kinds == {"none", "event", "checkpoint", "tree", "fork", "restore"}
Restores == {"tree", "fork", "restore"}
Answers == {"none", "clean", "checkpoint", "discard"}
Pcs == {"rest", "add", "diff", "commit", "map", "save", "status", "choose", "confirm", "navigate", "reset"}
Operation == [pc : Pcs, kind : Kinds, entry : Nat, target : Nat, commit : Nat, seen : Nat, chosen : Answers,
              answered : {"none", "yes", "no"}, first : Nat, added : Nat, alone : BOOLEAN]
NEntries == Len(session.parent)
NCommits == Len(repo.commits)

\* The tree of entries, the commits and the files, each in its range.
WorldInv ==
  /\ setup \in [auto : BOOLEAN, hasUI : BOOLEAN]
  /\ session \in [parent : Seq(Nat), leaf : Nat, turn : BOOLEAN]
  /\ NEntries <= MaxEntries /\ session.leaf <= NEntries
  /\ \A i \in 1..NEntries : session.parent[i] <= NEntries
  /\ edits \in Nat /\ workspace \in 1..edits
  /\ repo \in [commits : Seq(Nat), head : Nat, index : Nat]
  /\ \A i \in 1..NCommits : repo.commits[i] \in 1..edits
  /\ repo.head <= NCommits /\ repo.index <= edits
StoreInv ==
  /\ rt \in [checkpoints : [Entries -> 0..NCommits],
             pending : [target : Nat, commit : 0..NCommits, seen : 0..edits, chosen : Answers]]
  /\ disk \in [Entries -> 0..NCommits]

\* Files that somebody looked at are still not lost by a reset.
Kept == \E i \in 1..NCommits : repo.commits[i] = workspace
Safe(x) == x.chosen = "discard" \/ (workspace = x.seen => Kept)
Looking == {"status", "choose", "add", "diff", "commit", "map", "confirm"}

\* What the handler of one event knows of the world at each of its commands.
TypedOp(it) ==
  /\ it \in Operation /\ it.entry <= NEntries /\ it.target <= NEntries
  /\ it.commit <= NCommits /\ it.first <= NCommits /\ it.seen <= edits
AimedOp(it) ==
  /\ it.pc \in {"status", "choose", "confirm"} => it.kind \in Restores
  /\ it.kind \in Restores /\ it.pc \notin {"rest", "navigate"} => it.commit > 0
  /\ it.pc = "reset" => it.kind \in Restores /\ setup.hasUI
  /\ it.pc = "navigate" => it.kind = "tree"
  /\ it.kind = "tree" => it.target > 0
SafeOp(it) ==
  /\ it.pc \in {"map", "save", "confirm", "navigate", "reset"} => Safe(it)
  /\ it.pc \in {"diff", "commit"} => Safe(it) \/ repo.index = workspace
  /\ it.pc \in {"diff", "commit"} => repo.index > 0
AskedOp(it) ==
  /\ it.answered = "none" /\ it.pc # "reset" => it.commit = it.first
  /\ it.answered = "yes" /\ it.pc # "save" => it.commit = it.first
  /\ it.answered = "yes" /\ it.pc = "navigate" => rt.pending.commit = it.first
  /\ it.answered = "no" => it.pc \in {"navigate", "reset"}
  /\ it.pc \in Looking => it.answered = "none"
AloneOp(it) ==
  /\ it.alone /\ it.pc \in {"diff", "commit"} => repo.index = it.added
  /\ it.alone /\ it.pc = "map" => repo.head > 0 /\ repo.commits[repo.head] = it.added
OpInv(it) == TypedOp(it) /\ AimedOp(it) /\ SafeOp(it) /\ AskedOp(it) /\ AloneOp(it)
OpsInv ==
  /\ DOMAIN ops = Handlers
  /\ \A h \in Handlers : OpInv(ops[h]) /\ (ops[h].kind = "tree" => h = "pi")
  /\ \A g, h \in Handlers : g # h /\ ~Free(g) /\ ~Free(h) => ~ops[g].alone
PendingInv ==
  /\ Safe(rt.pending) /\ (rt.pending.commit > 0 => setup.hasUI)
RewindInv == WorldInv /\ StoreInv /\ OpsInv /\ PendingInv

\* What any step does to the world: entries and commits are only added, and the files are
\* new ones, or those of a commit, or what they were.
Grows ==
  /\ WorldInv' /\ setup' = setup /\ NEntries <= NEntries' /\ edits <= edits'
  /\ NCommits <= NCommits' /\ \A i \in 1..NCommits : repo'.commits[i] = repo.commits[i]
  /\ workspace' = workspace \/ workspace' > edits \/ Kept'
  /\ \/ repo'.index = workspace'
     \/ repo'.index = repo.index /\ (workspace' = workspace \/ workspace' > edits)

LEMMA CountsAreNumbers == WorldInv => NEntries \in Nat /\ NCommits \in Nat /\ edits \in Nat
<1> SUFFICES ASSUME WorldInv PROVE NEntries \in Nat /\ NCommits \in Nat /\ edits \in Nat
  OBVIOUS
<1>1. session.parent \in Seq(Nat) /\ repo.commits \in Seq(Nat) /\ edits \in Nat
  BY DEF WorldInv
<1> QED
  BY <1>1 DEF NEntries, NCommits

LEMMA KeptStays == ASSUME WorldInv, Grows, Kept, workspace' = workspace PROVE Kept'
<1>1. PICK i \in 1..NCommits : repo.commits[i] = workspace
  BY DEF Kept
<1>2. NCommits \in Nat /\ NCommits' \in Nat
  <2>1. repo'.commits \in Seq(Nat)
    BY DEF Grows, WorldInv
  <2>2. NCommits' \in Nat
    BY <2>1 DEF NCommits
  <2> QED
    BY <2>2, CountsAreNumbers
<1>3. i \in 1..NCommits' /\ repo'.commits[i] = workspace'
  BY <1>1, <1>2 DEF Grows
<1> QED
  BY <1>3 DEF Kept

LEMMA SafeStays ==
  ASSUME WorldInv, Grows, NEW chosen, NEW seen \in 0..edits,
         chosen = "discard" \/ (workspace = seen => Kept)
  PROVE  chosen = "discard" \/ (workspace' = seen => Kept')
<1>1. workspace \in Nat /\ edits \in Nat
  BY DEF WorldInv
<1>2. CASE workspace' = workspace
  BY <1>2, KeptStays
<1>3. CASE workspace' > edits
  <2>1. workspace' # seen
    BY <1>1, <1>3
  <2> QED
    BY <2>1
<1> QED
  BY <1>2, <1>3 DEF Grows

LEMMA StagedStays ==
  ASSUME WorldInv, Grows, NEW chosen, NEW seen \in 0..edits,
         \/ chosen = "discard" \/ (workspace = seen => Kept)
         \/ repo.index = workspace
  PROVE  \/ chosen = "discard" \/ (workspace' = seen => Kept')
         \/ repo'.index = workspace'
<1>1. workspace \in Nat /\ edits \in Nat
  BY DEF WorldInv
<1>2. CASE repo'.index = workspace'
  BY <1>2
<1>3. CASE repo'.index = repo.index /\ workspace' = workspace
  BY <1>3, KeptStays
<1>4. CASE workspace' > edits
  <2>1. workspace' # seen
    BY <1>1, <1>4
  <2> QED
    BY <2>1
<1> QED
  BY <1>2, <1>3, <1>4 DEF Grows

\* A handler that does nothing in a step still knows what it knew of the world; only
\* whether it runs alone, and what the other handler leaves pending, are other matters.
LEMMA OpStays ==
  ASSUME RewindInv, Grows, NEW h \in Handlers, NEW b \in BOOLEAN,
         ops'[h] = [ops[h] EXCEPT !.alone = b],
         ops[h].pc = "navigate" => rt'.pending = rt.pending
  PROVE  TypedOp(ops[h])' /\ AimedOp(ops[h])' /\ SafeOp(ops[h])' /\ AskedOp(ops[h])'
<1>0. OpInv(ops[h]) /\ WorldInv
  BY DEF RewindInv, OpsInv
<1>1. ops[h] \in Operation
  BY <1>0 DEF OpInv, TypedOp
<1>2. /\ ops'[h] \in Operation
      /\ ops'[h].pc = ops[h].pc /\ ops'[h].kind = ops[h].kind /\ ops'[h].entry = ops[h].entry
      /\ ops'[h].target = ops[h].target /\ ops'[h].commit = ops[h].commit
      /\ ops'[h].seen = ops[h].seen /\ ops'[h].chosen = ops[h].chosen
      /\ ops'[h].answered = ops[h].answered /\ ops'[h].first = ops[h].first
  BY <1>1 DEF Operation
<1>a. NEntries \in Nat /\ NCommits \in Nat /\ edits \in Nat /\ NEntries' \in Nat /\ NCommits' \in Nat /\ edits' \in Nat
  BY <1>0 DEF WorldInv, Grows, NEntries, NCommits
<1>3. TypedOp(ops[h])'
  BY <1>0, <1>1, <1>2, <1>a DEF OpInv, TypedOp, Grows, Operation
<1>4. AimedOp(ops[h])'
  BY <1>0, <1>2 DEF OpInv, AimedOp, Grows
<1>5. SafeOp(ops[h])'
  <2>1. ops[h].seen \in 0..edits
    BY <1>0, <1>1, <1>a DEF OpInv, TypedOp, Operation
  <2>2. Safe(ops[h]) => Safe(ops[h])'
    BY <1>0, <1>2, <2>1, SafeStays DEF Safe
  <2>3. Safe(ops[h]) \/ repo.index = workspace => Safe(ops[h])' \/ repo'.index = workspace'
    BY <1>0, <1>2, <2>1, StagedStays DEF Safe
  <2>4. repo.index > 0 => repo'.index > 0
    BY <1>0 DEF Grows, WorldInv
  <2> QED
    BY <1>0, <1>2, <2>2, <2>3, <2>4 DEF OpInv, SafeOp
<1>6. AskedOp(ops[h])'
  BY <1>0, <1>2 DEF OpInv, AskedOp, Looking
<1> QED
  BY <1>3, <1>4, <1>5, <1>6

LEMMA StoreStays ==
  ASSUME WorldInv, StoreInv, Grows, UNCHANGED <<rt, disk>> PROVE StoreInv'
<1>1. 0..NCommits \subseteq 0..NCommits' /\ 0..edits \subseteq 0..edits'
  BY DEF WorldInv, Grows, NCommits
<1> QED
  BY <1>1 DEF StoreInv

LEMMA PendingStays ==
  ASSUME WorldInv, StoreInv, PendingInv, Grows, rt'.pending = rt.pending PROVE PendingInv'
<1>1. rt.pending.seen \in 0..edits
  BY DEF StoreInv
<1> QED
  BY <1>1, SafeStays DEF PendingInv, Safe, Grows

\* One command of the handler h: the other handler stands where it was, and is not alone
\* if it runs.
LEMMA OpsStep ==
  ASSUME RewindInv, Grows, NEW h \in Handlers, ~Free(h), ops' = [ops EXCEPT ![h] = ops'[h]],
         OpInv(ops[h])', ops'[h].kind = "tree" => h = "pi",
         ops'[h].pc = "rest" \/ ops'[h].alone = ops[h].alone,
         h = "pi" \/ rt'.pending = rt.pending
  PROVE  OpsInv'
<1>0. OpsInv /\ DOMAIN ops = Handlers
  BY DEF RewindInv, OpsInv
<1>1. DOMAIN ops' = Handlers /\ \A g \in Handlers \ {h} : ops'[g] = ops[g]
  BY <1>0
<1>2. ASSUME NEW g \in Handlers \ {h} PROVE OpInv(ops[g])'
  <2>0. ops[g] \in Operation /\ OpInv(ops[g])
    BY <1>0 DEF OpsInv, OpInv, TypedOp
  <2>1. ops[g].alone \in BOOLEAN /\ ops'[g] = [ops[g] EXCEPT !.alone = ops[g].alone]
    BY <1>1, <2>0 DEF Operation
  <2>2. ops[g].pc = "navigate" => rt'.pending = rt.pending
    <3>1. ops[g].pc = "navigate" => g = "pi"
      BY <1>0, <2>0 DEF OpsInv, OpInv, AimedOp
    <3> QED
      BY <3>1
  <2>3. TypedOp(ops[g])' /\ AimedOp(ops[g])' /\ SafeOp(ops[g])' /\ AskedOp(ops[g])'
    BY <2>1, <2>2, OpStays
  <2>4. AloneOp(ops[g])'
    <3>1. ops[g].pc # "rest" => ~ops[g].alone
      BY <1>0 DEF OpsInv, Free
    <3> QED
      BY <1>1, <3>1 DEF AloneOp
  <2> QED
    BY <2>3, <2>4 DEF OpInv
<1>3. \A g, i \in Handlers : g # i /\ ~Free(g)' /\ ~Free(i)' => ~ops'[g].alone
  <2> SUFFICES ASSUME NEW g \in Handlers, NEW i \in Handlers, g # i, ~Free(g)', ~Free(i)' PROVE ~ops'[g].alone
    OBVIOUS
  <2>1. CASE g = h
    BY <1>0, <1>1, <2>1 DEF OpsInv, Free
  <2>2. CASE g # h
    <3>1. i = h
      BY <2>2 DEF Handlers
    <3> QED
      BY <1>0, <1>1, <2>2, <3>1 DEF OpsInv, Free
  <2> QED
    BY <2>1, <2>2
<1>4. \A g \in Handlers : ops'[g].kind = "tree" => g = "pi"
  BY <1>0, <1>1 DEF OpsInv
<1> QED
  BY <1>1, <1>2, <1>3, <1>4 DEF OpsInv

\* An event starts a handler, which is alone only if the other one rests.
LEMMA BeginKeeps ==
  ASSUME RewindInv, Grows, StoreInv', NEW h \in Handlers, NEW it, Begin(h, it),
         rt' = rt, workspace' = workspace, repo' = repo, session'.parent = session.parent, edits' = edits,
         OpInv(it), it.pc \notin {"diff", "commit", "map"}, it.kind = "tree" => h = "pi"
  PROVE  RewindInv'
<1> DEFINE calm(g) == \E i \in Handlers \ {g} : Free(i)
           Begun(g) == [(IF g = h THEN it ELSE ops[g]) EXCEPT !.alone = (g = h \/ @) /\ calm(h)]
<1>0. OpsInv /\ DOMAIN ops = Handlers /\ WorldInv /\ StoreInv /\ PendingInv
  BY DEF RewindInv, OpsInv
<1>1. Free(h) /\ ops' = [g \in Handlers |-> [(IF g = h THEN it ELSE ops[g])
               EXCEPT !.alone = (g = h \/ @) /\ calm(h)]]
  BY DEF Begin
<1>2. it \in Operation
  BY DEF OpInv, TypedOp
<1>3. ops'[h] \in Operation /\ ops'[h] = [it EXCEPT !.alone = ops'[h].alone]
      /\ (ops'[h].alone => calm(h))
  <2>1. ops'[h] = [it EXCEPT !.alone = calm(h)]
    BY <1>1
  <2>2. calm(h) \in BOOLEAN
    OBVIOUS
  <2> HIDE DEF calm
  <2> QED
    BY <1>2, <2>1, <2>2 DEF Operation
<1>4. OpInv(ops[h])'
  <2>1. /\ ops'[h].pc = it.pc /\ ops'[h].kind = it.kind /\ ops'[h].entry = it.entry
        /\ ops'[h].target = it.target /\ ops'[h].commit = it.commit /\ ops'[h].seen = it.seen
        /\ ops'[h].chosen = it.chosen /\ ops'[h].answered = it.answered /\ ops'[h].first = it.first
    BY <1>2, <1>3 DEF Operation
  <2>2. TypedOp(ops[h])'
    BY <1>3, <2>1 DEF OpInv, TypedOp, NEntries, NCommits
  <2>3. AimedOp(ops[h])'
    BY <2>1 DEF OpInv, AimedOp, Grows
  <2>4. SafeOp(ops[h])'
    BY <2>1 DEF OpInv, SafeOp, Safe, Kept, NCommits
  <2>5. AskedOp(ops[h])' /\ AloneOp(ops[h])'
    BY <2>1 DEF OpInv, AskedOp, AloneOp
  <2> QED
    BY <2>2, <2>3, <2>4, <2>5 DEF OpInv
<1>5. ASSUME NEW g \in Handlers \ {h}
      PROVE  /\ OpInv(ops[g])' /\ ops'[g].kind = ops[g].kind /\ ops'[g].pc = ops[g].pc
             /\ ops'[g].alone => Free(g)
  <2>0. ops[g] \in Operation
    BY <1>0 DEF OpsInv, OpInv, TypedOp
  <2>1. ops'[g] = [ops[g] EXCEPT !.alone = ops[g].alone /\ calm(h)]
    BY <1>1, <1>5
  <2>2. ops[g].alone \in BOOLEAN /\ calm(h) \in BOOLEAN
    BY <2>0 DEF Operation
  <2>a. calm(h) => Free(g)
    BY <1>5 DEF Handlers
  <2> HIDE DEF calm
  <2>3. PICK b \in BOOLEAN : ops'[g] = [ops[g] EXCEPT !.alone = b]
    BY <2>1, <2>2
  <2>4. TypedOp(ops[g])' /\ AimedOp(ops[g])' /\ SafeOp(ops[g])' /\ AskedOp(ops[g])'
    BY <2>3, OpStays
  <2>5. ops'[g].kind = ops[g].kind /\ ops'[g].pc = ops[g].pc
    BY <2>0, <2>3 DEF Operation
  <2>6. ops'[g].alone => Free(g)
    BY <2>0, <2>1, <2>a DEF Operation
  <2>7. AloneOp(ops[g])'
    BY <2>5, <2>6 DEF AloneOp, Free
  <2> QED
    BY <2>4, <2>5, <2>6, <2>7 DEF OpInv
<1>6. OpsInv'
  <2>1. DOMAIN ops' = Handlers
    BY <1>1
  <2>2. \A g \in Handlers : OpInv(ops[g])' /\ (ops'[g].kind = "tree" => g = "pi")
    <3> SUFFICES ASSUME NEW g \in Handlers PROVE OpInv(ops[g])' /\ (ops'[g].kind = "tree" => g = "pi")
      OBVIOUS
    <3>1. CASE g = h
      BY <1>2, <1>3, <1>4, <3>1 DEF Operation
    <3>2. CASE g # h
      BY <1>0, <1>5, <3>2 DEF OpsInv
    <3> QED
      BY <3>1, <3>2
  <2>3. ASSUME NEW g \in Handlers, NEW i \in Handlers, g # i, ~Free(g)', ~Free(i)' PROVE ~ops'[g].alone
    <3>1. CASE g = h
      <4>1. ~Free(i) /\ \A j \in Handlers \ {h} : i = j
        BY <1>5, <2>3, <3>1 DEF Free, Handlers
      <4> QED
        BY <1>3, <3>1, <4>1
    <3>2. CASE g # h
      BY <1>5, <2>3, <3>2 DEF Free
    <3> QED
      BY <3>1, <3>2
  <2> QED
    BY <2>1, <2>2, <2>3 DEF OpsInv
<1>7. PendingInv'
  BY <1>0, PendingStays
<1> QED
  BY <1>0, <1>6, <1>7 DEF RewindInv, Grows

LEMMA RestIsAnOp ==
  /\ Resting \in Operation
  /\ Resting.pc = "rest" /\ Resting.kind = "none" /\ Resting.entry = 0 /\ Resting.target = 0
  /\ Resting.commit = 0 /\ Resting.seen = 0 /\ Resting.first = 0 /\ Resting.answered = "none"
  /\ Resting.chosen = "none"
BY DEF Resting, Operation, Pcs, Kinds, Answers

\* A handler is over, whether it did its work or threw.
LEMMA RestKeeps ==
  ASSUME RewindInv, Grows, StoreInv', PendingInv', NEW h \in Handlers, ~Free(h), Rest(h),
         h = "pi" \/ rt'.pending = rt.pending
  PROVE  RewindInv'
<1>0. DOMAIN ops = Handlers
  BY DEF RewindInv, OpsInv
<1>1. ops'[h] = [Resting EXCEPT !.alone = TRUE] /\ ops' = [ops EXCEPT ![h] = ops'[h]]
  BY <1>0 DEF Rest, Becomes
<1>2. /\ ops'[h] \in Operation
      /\ ops'[h].pc = "rest" /\ ops'[h].kind = "none" /\ ops'[h].entry = 0 /\ ops'[h].target = 0
      /\ ops'[h].commit = 0 /\ ops'[h].seen = 0 /\ ops'[h].first = 0 /\ ops'[h].answered = "none"
  BY <1>1, RestIsAnOp DEF Operation
<1>3. OpInv(ops[h])'
  BY <1>2 DEF Grows, WorldInv, OpInv, TypedOp, AimedOp, SafeOp, AskedOp, AloneOp, Restores, Looking, NEntries, NCommits
<1>4. OpsInv'
  BY <1>1, <1>2, <1>3, OpsStep
<1> QED
  BY <1>4 DEF RewindInv, Grows

LEMMA Unmoved == ASSUME WorldInv, UNCHANGED <<setup, session, workspace, edits, repo>> PROVE Grows
<1>1. WorldInv'
  BY DEF WorldInv, NEntries, NCommits
<1> QED
  BY <1>1 DEF Grows, WorldInv, NEntries, NCommits

\* What a handler knows of itself while it is at one of its commands.
LEMMA AtCommand ==
  ASSUME RewindInv, NEW h \in Handlers
  PROVE  /\ DOMAIN ops = Handlers /\ WorldInv /\ StoreInv /\ PendingInv
         /\ ops[h] \in Operation /\ (ops[h].kind = "tree" => h = "pi")
         /\ TypedOp(ops[h]) /\ AimedOp(ops[h]) /\ SafeOp(ops[h]) /\ AskedOp(ops[h]) /\ AloneOp(ops[h])
         /\ NEntries \in Nat /\ NCommits \in Nat
BY DEF RewindInv, OpsInv, OpInv, TypedOp, WorldInv, NEntries, NCommits

LEMMA AddKeeps == ASSUME RewindInv, NEW h \in Handlers, Add(h) PROVE RewindInv'
<1>0. /\ DOMAIN ops = Handlers /\ WorldInv /\ StoreInv /\ PendingInv
      /\ ops[h] \in Operation /\ (ops[h].kind = "tree" => h = "pi")
      /\ TypedOp(ops[h]) /\ AimedOp(ops[h]) /\ SafeOp(ops[h]) /\ AskedOp(ops[h]) /\ AloneOp(ops[h])
      /\ NEntries \in Nat /\ NCommits \in Nat
  BY AtCommand
<1>1. /\ ops[h].pc = "add" /\ UNCHANGED <<setup, edits, session, workspace, rt, disk>>
      /\ repo' = [repo EXCEPT !.index = workspace]
      /\ ops' = [ops EXCEPT ![h] = [ops[h] EXCEPT !.pc = "diff", !.added = workspace]]
  BY DEF Add, Becomes, Same
<1>2. repo'.index = workspace /\ repo'.commits = repo.commits /\ repo'.head = repo.head
      /\ repo' \in [commits : Seq(Nat), head : Nat, index : Nat]
  <2>1. repo \in [commits : Seq(Nat), head : Nat, index : Nat] /\ workspace \in Nat
    BY <1>0 DEF WorldInv
  <2> QED
    BY <1>1, <2>1
<1>3. Grows
  <2>1. WorldInv'
    BY <1>0, <1>1, <1>2 DEF WorldInv, NEntries, NCommits
  <2> QED
    BY <2>1, <1>0, <1>1, <1>2 DEF Grows, WorldInv, NEntries, NCommits
<1>4. /\ ops'[h] = [ops[h] EXCEPT !.pc = "diff", !.added = workspace] /\ ops' = [ops EXCEPT ![h] = ops'[h]]
      /\ workspace \in Nat /\ workspace > 0
  BY <1>0, <1>1 DEF WorldInv
<1>5. /\ ops'[h] \in Operation
      /\ ops'[h].pc = "diff" /\ ops'[h].kind = ops[h].kind /\ ops'[h].entry = ops[h].entry
      /\ ops'[h].target = ops[h].target /\ ops'[h].commit = ops[h].commit
      /\ ops'[h].seen = ops[h].seen /\ ops'[h].chosen = ops[h].chosen /\ ops'[h].added = workspace
      /\ ops'[h].answered = ops[h].answered /\ ops'[h].first = ops[h].first /\ ops'[h].alone = ops[h].alone
  BY <1>0, <1>4 DEF Operation, Pcs
<1>6. OpInv(ops[h])'
  <2>1. TypedOp(ops[h])'
    BY <1>0, <1>1, <1>2, <1>5 DEF TypedOp, NEntries, NCommits
  <2>2. AimedOp(ops[h])' /\ AskedOp(ops[h])'
    BY <1>0, <1>1, <1>5 DEF AimedOp, AskedOp, Looking
  <2>3. SafeOp(ops[h])' /\ AloneOp(ops[h])'
    BY <1>1, <1>2, <1>4, <1>5 DEF SafeOp, AloneOp
  <2> QED
    BY <2>1, <2>2, <2>3 DEF OpInv
<1>7. OpsInv'
  BY <1>0, <1>1, <1>3, <1>4, <1>5, <1>6, OpsStep DEF Free
<1> QED
  BY <1>0, <1>1, <1>3, <1>7, StoreStays, PendingStays DEF RewindInv, Grows

\* A step that leaves the world as it is, takes the handler from one command to the next,
\* and at most the choice with it.
LEMMA MovesOn ==
  ASSUME RewindInv, NEW h \in Handlers, ~Free(h), NEW p \in Pcs,
         UNCHANGED <<setup, session, workspace, edits, repo, rt, disk>>,
         Becomes(h, ops'[h]), ops'[h] \in Operation,
         ops'[h].pc = p, ops'[h].kind = ops[h].kind, ops'[h].target = ops[h].target,
         ops'[h].commit = ops[h].commit, ops'[h].first = ops[h].first,
         ops'[h].alone = ops[h].alone, ops'[h].added = ops[h].added,
         ops'[h].entry <= NEntries, ops'[h].seen <= edits,
         AimedOp(ops[h])', SafeOp(ops[h])', AskedOp(ops[h])', AloneOp(ops[h])'
  PROVE  RewindInv'
<1>0. /\ DOMAIN ops = Handlers /\ WorldInv /\ StoreInv /\ PendingInv
      /\ ops[h] \in Operation /\ (ops[h].kind = "tree" => h = "pi") /\ TypedOp(ops[h])
  BY AtCommand
<1>1. Grows
  BY <1>0, Unmoved
<1>2. TypedOp(ops[h])'
  BY <1>0 DEF TypedOp, NEntries, NCommits
<1>3. OpInv(ops[h])'
  BY <1>2 DEF OpInv
<1>4. OpsInv'
  BY <1>0, <1>1, <1>3, OpsStep DEF Becomes
<1> QED
  BY <1>0, <1>1, <1>4, StoreStays, PendingStays DEF RewindInv, Grows

LEMMA StepFields ==
  ASSUME NEW it \in Operation, NEW p \in Pcs, NEW n, n = [it EXCEPT !.pc = p]
  PROVE  /\ n \in Operation
         /\ n.pc = p /\ n.kind = it.kind /\ n.entry = it.entry /\ n.target = it.target
         /\ n.commit = it.commit /\ n.seen = it.seen /\ n.chosen = it.chosen
         /\ n.answered = it.answered /\ n.first = it.first /\ n.added = it.added /\ n.alone = it.alone
BY DEF Operation

LEMMA DiffKeeps == ASSUME RewindInv, NEW h \in Handlers, Diff(h) PROVE RewindInv'
<1>0. /\ DOMAIN ops = Handlers /\ WorldInv /\ StoreInv /\ PendingInv
      /\ ops[h] \in Operation /\ (ops[h].kind = "tree" => h = "pi")
      /\ TypedOp(ops[h]) /\ AimedOp(ops[h]) /\ SafeOp(ops[h]) /\ AskedOp(ops[h]) /\ AloneOp(ops[h])
      /\ NEntries \in Nat /\ NCommits \in Nat
  BY AtCommand
<1> DEFINE p == IF repo.index = Committed THEN "map" ELSE "commit"
<1>1. /\ ops[h].pc = "diff" /\ UNCHANGED <<setup, session, workspace, edits, repo, rt, disk>>
      /\ Becomes(h, [ops[h] EXCEPT !.pc = p]) /\ p \in Pcs
  BY DEF Diff, Step, Same, Pcs
<1>2. ops'[h] = [ops[h] EXCEPT !.pc = p] /\ Becomes(h, ops'[h])
  BY <1>0, <1>1 DEF Becomes
<1>3. /\ ops'[h] \in Operation
      /\ ops'[h].pc = p /\ ops'[h].kind = ops[h].kind /\ ops'[h].entry = ops[h].entry
      /\ ops'[h].target = ops[h].target /\ ops'[h].commit = ops[h].commit
      /\ ops'[h].seen = ops[h].seen /\ ops'[h].chosen = ops[h].chosen /\ ops'[h].added = ops[h].added
      /\ ops'[h].answered = ops[h].answered /\ ops'[h].first = ops[h].first /\ ops'[h].alone = ops[h].alone
  BY <1>0, <1>1, <1>2, StepFields
<1>4. p = "map" => repo.head > 0 /\ repo.commits[repo.head] = repo.index /\ (repo.index = workspace => Kept)
  <2> SUFFICES ASSUME p = "map" PROVE repo.head > 0 /\ repo.commits[repo.head] = repo.index /\ (repo.index = workspace => Kept)
    OBVIOUS
  <2>1. repo.index = Committed /\ repo.index > 0
    BY <1>0, <1>1 DEF SafeOp
  <2>2. repo.head > 0 /\ repo.head \in 1..NCommits /\ repo.commits[repo.head] = repo.index
    BY <1>0, <2>1 DEF Committed, WorldInv
  <2> QED
    BY <2>2 DEF Kept
<1>5. AimedOp(ops[h])' /\ AskedOp(ops[h])'
  BY <1>0, <1>1, <1>3 DEF AimedOp, AskedOp, Looking
<1>6. SafeOp(ops[h])'
  BY <1>0, <1>1, <1>3, <1>4 DEF SafeOp, Safe, Kept, NCommits
<1>7. AloneOp(ops[h])'
  BY <1>0, <1>1, <1>3, <1>4 DEF AloneOp
<1> QED
  BY <1>0, <1>1, <1>2, <1>3, <1>5, <1>6, <1>7, MovesOn DEF TypedOp, Free

LEMMA CommitIndexKeeps == ASSUME RewindInv, NEW h \in Handlers, CommitIndex(h) PROVE RewindInv'
<1>0. /\ DOMAIN ops = Handlers /\ WorldInv /\ StoreInv /\ PendingInv
      /\ ops[h] \in Operation /\ (ops[h].kind = "tree" => h = "pi")
      /\ TypedOp(ops[h]) /\ AimedOp(ops[h]) /\ SafeOp(ops[h]) /\ AskedOp(ops[h]) /\ AloneOp(ops[h])
      /\ NEntries \in Nat /\ NCommits \in Nat
  BY AtCommand
<1>1. /\ ops[h].pc = "commit" /\ UNCHANGED <<setup, session, workspace, edits, rt, disk>>
      /\ repo' = [repo EXCEPT !.commits = Append(@, repo.index), !.head = Len(repo.commits) + 1]
      /\ ops' = [ops EXCEPT ![h] = [ops[h] EXCEPT !.pc = "map"]] /\ repo.index > 0
  BY <1>0 DEF CommitIndex, WithIndex, Step, Becomes, Same, SafeOp
<1>2. /\ repo'.index = repo.index /\ repo'.commits = Append(repo.commits, repo.index) /\ repo'.head = NCommits + 1
      /\ repo' \in [commits : Seq(Nat), head : Nat, index : Nat]
      /\ NCommits' = NCommits + 1 /\ repo'.commits[NCommits + 1] = repo.index
      /\ \A i \in 1..NCommits : repo'.commits[i] = repo.commits[i]
  <2>1. repo \in [commits : Seq(Nat), head : Nat, index : Nat] /\ NCommits = Len(repo.commits)
    BY <1>0 DEF WorldInv, NCommits
  <2>2. Append(repo.commits, repo.index) \in Seq(Nat) /\ Len(repo.commits) + 1 \in Nat
    BY <2>1
  <2>3. /\ repo' \in [commits : Seq(Nat), head : Nat, index : Nat]
        /\ repo'.index = repo.index /\ repo'.commits = Append(repo.commits, repo.index)
        /\ repo'.head = Len(repo.commits) + 1
    BY <1>1, <2>1, <2>2
  <2>4. /\ Len(Append(repo.commits, repo.index)) = Len(repo.commits) + 1
        /\ Append(repo.commits, repo.index)[Len(repo.commits) + 1] = repo.index
        /\ \A i \in 1..Len(repo.commits) : Append(repo.commits, repo.index)[i] = repo.commits[i]
    BY <2>1
  <2> QED
    BY <2>1, <2>3, <2>4 DEF NCommits
<1>3. Grows
  <2>1. WorldInv'
    BY <1>0, <1>1, <1>2 DEF WorldInv, NEntries
  <2> QED
    BY <2>1, <1>0, <1>1, <1>2 DEF Grows, WorldInv, NEntries
<1>4. ops'[h] = [ops[h] EXCEPT !.pc = "map"] /\ ops' = [ops EXCEPT ![h] = ops'[h]] /\ "map" \in Pcs
  BY <1>0, <1>1 DEF Pcs
<1>5. /\ ops'[h] \in Operation
      /\ ops'[h].pc = "map" /\ ops'[h].kind = ops[h].kind /\ ops'[h].entry = ops[h].entry
      /\ ops'[h].target = ops[h].target /\ ops'[h].commit = ops[h].commit
      /\ ops'[h].seen = ops[h].seen /\ ops'[h].chosen = ops[h].chosen /\ ops'[h].added = ops[h].added
      /\ ops'[h].answered = ops[h].answered /\ ops'[h].first = ops[h].first /\ ops'[h].alone = ops[h].alone
  BY <1>0, <1>4, StepFields
<1>6. OpInv(ops[h])'
  <2>1. TypedOp(ops[h])'
    <3>1. NEntries' = NEntries
      BY <1>1 DEF NEntries
    <3>2. ops[h].commit \in Nat /\ ops[h].first \in Nat /\ ops[h].commit <= NCommits /\ ops[h].first <= NCommits
      BY <1>0 DEF TypedOp, Operation
    <3>3. ops[h].commit <= NCommits' /\ ops[h].first <= NCommits'
      BY <1>0, <1>2, <3>2
    <3> QED
      BY <1>0, <1>1, <1>5, <3>1, <3>3 DEF TypedOp
  <2>2. AimedOp(ops[h])' /\ AskedOp(ops[h])'
    BY <1>0, <1>1, <1>5 DEF AimedOp, AskedOp, Looking
  <2>3. Safe(ops[h]) => Safe(ops[h])'
    <3>1. Kept => Kept'
      BY <1>0, <1>1, <1>3, KeptStays
    <3> QED
      BY <1>1, <1>5, <3>1 DEF Safe
  <2>4. repo.index = workspace => Kept'
    BY <1>0, <1>1, <1>2 DEF Kept
  <2>5. SafeOp(ops[h])'
    BY <1>0, <1>1, <1>5, <2>3, <2>4 DEF SafeOp, Safe
  <2>6. AloneOp(ops[h])'
    BY <1>0, <1>1, <1>2, <1>5 DEF AloneOp
  <2> QED
    BY <2>1, <2>2, <2>5, <2>6 DEF OpInv
<1>7. OpsInv'
  BY <1>0, <1>1, <1>3, <1>4, <1>5, <1>6, OpsStep DEF Free
<1> QED
  BY <1>0, <1>1, <1>3, <1>7, StoreStays, PendingStays DEF RewindInv, Grows

LEMMA MapKeeps == ASSUME RewindInv, NEW h \in Handlers, Map(h) PROVE RewindInv'
<1>0. /\ DOMAIN ops = Handlers /\ WorldInv /\ StoreInv /\ PendingInv
      /\ ops[h] \in Operation /\ (ops[h].kind = "tree" => h = "pi")
      /\ TypedOp(ops[h]) /\ AimedOp(ops[h]) /\ SafeOp(ops[h]) /\ AskedOp(ops[h]) /\ AloneOp(ops[h])
      /\ NEntries \in Nat /\ NCommits \in Nat
  BY AtCommand
<1>1. /\ ops[h].pc = "map" /\ UNCHANGED <<setup, session, workspace, edits, repo, disk>>
      /\ ops' = [ops EXCEPT ![h] = [ops[h] EXCEPT !.pc = "save"]]
      /\ rt' = [rt EXCEPT !.checkpoints[ops[h].entry] = IF ops[h].entry > 0 /\ repo.head > 0 THEN repo.head ELSE @]
  BY DEF Map, Step, Becomes, Same
<1>2. Grows
  BY <1>0, <1>1, Unmoved
<1>3. /\ rt'.pending = rt.pending
      /\ rt' \in [checkpoints : [Entries -> 0..NCommits],
                  pending : [target : Nat, commit : 0..NCommits, seen : 0..edits, chosen : Answers]]
  <2>1. repo.head \in 0..NCommits
    BY <1>0 DEF WorldInv
  <2>2. rt \in [checkpoints : [Entries -> 0..NCommits],
                pending : [target : Nat, commit : 0..NCommits, seen : 0..edits, chosen : Answers]]
    BY <1>0 DEF StoreInv
  <2> DEFINE v == IF ops[h].entry > 0 /\ repo.head > 0 THEN repo.head ELSE rt.checkpoints[ops[h].entry]
             cps == [rt.checkpoints EXCEPT ![ops[h].entry] = v]
  <2>3. rt' = [rt EXCEPT !.checkpoints = cps]
    BY <1>1
  <2>4. cps \in [Entries -> 0..NCommits]
    BY <2>1, <2>2
  <2> HIDE DEF cps
  <2> QED
    BY <2>2, <2>3, <2>4
<1>4. ops'[h] = [ops[h] EXCEPT !.pc = "save"] /\ ops' = [ops EXCEPT ![h] = ops'[h]] /\ "save" \in Pcs
  BY <1>0, <1>1 DEF Pcs
<1>5. /\ ops'[h] \in Operation
      /\ ops'[h].pc = "save" /\ ops'[h].kind = ops[h].kind /\ ops'[h].entry = ops[h].entry
      /\ ops'[h].target = ops[h].target /\ ops'[h].commit = ops[h].commit
      /\ ops'[h].seen = ops[h].seen /\ ops'[h].chosen = ops[h].chosen /\ ops'[h].added = ops[h].added
      /\ ops'[h].answered = ops[h].answered /\ ops'[h].first = ops[h].first /\ ops'[h].alone = ops[h].alone
  BY <1>0, <1>4, StepFields
<1>6. OpInv(ops[h])'
  <2>1. TypedOp(ops[h])'
    BY <1>0, <1>1, <1>5 DEF TypedOp, NEntries, NCommits
  <2>2. AimedOp(ops[h])' /\ AskedOp(ops[h])'
    BY <1>0, <1>1, <1>5 DEF AimedOp, AskedOp, Looking
  <2>3. SafeOp(ops[h])' /\ AloneOp(ops[h])'
    BY <1>0, <1>1, <1>5 DEF SafeOp, AloneOp, Safe, Kept, NCommits
  <2> QED
    BY <2>1, <2>2, <2>3 DEF OpInv
<1>7. OpsInv'
  BY <1>0, <1>1, <1>2, <1>3, <1>4, <1>5, <1>6, OpsStep DEF Free
<1>8. StoreInv'
  BY <1>0, <1>1, <1>3 DEF StoreInv, NCommits
<1> QED
  BY <1>0, <1>2, <1>3, <1>7, <1>8, PendingStays DEF RewindInv, Grows

LEMMA SaveStateKeeps == ASSUME RewindInv, NEW h \in Handlers, SaveState(h) PROVE RewindInv'
<1>0. /\ DOMAIN ops = Handlers /\ WorldInv /\ StoreInv /\ PendingInv
      /\ ops[h] \in Operation /\ (ops[h].kind = "tree" => h = "pi")
      /\ TypedOp(ops[h]) /\ AimedOp(ops[h]) /\ SafeOp(ops[h]) /\ AskedOp(ops[h]) /\ AloneOp(ops[h])
      /\ NEntries \in Nat /\ NCommits \in Nat
  BY AtCommand
<1>1. /\ ops[h].pc = "save" /\ UNCHANGED <<setup, session, workspace, edits, repo, rt>>
      /\ disk' = rt.checkpoints
  BY DEF SaveState, Same
<1>2. Grows
  BY <1>0, <1>1, Unmoved
<1>3. StoreInv'
  BY <1>0, <1>1 DEF StoreInv, NCommits
<1>4. PendingInv'
  BY <1>0, <1>1, <1>2, PendingStays
<1>5. CASE Rest(h)
  BY <1>1, <1>2, <1>3, <1>4, <1>5, RestKeeps DEF Free
<1>6. CASE ~Rest(h)
  <2>1. ops[h].answered # "yes" /\ ops[h].kind \in Restores /\ Becomes(h, [ops[h] EXCEPT !.pc = "confirm"])
    BY <1>6 DEF SaveState, Saved, Step, Restores
  <2>2. ops'[h] = [ops[h] EXCEPT !.pc = "confirm"] /\ ops' = [ops EXCEPT ![h] = ops'[h]] /\ "confirm" \in Pcs
    BY <1>0, <2>1 DEF Becomes, Pcs
  <2>3. /\ ops'[h] \in Operation
        /\ ops'[h].pc = "confirm" /\ ops'[h].kind = ops[h].kind /\ ops'[h].entry = ops[h].entry
        /\ ops'[h].target = ops[h].target /\ ops'[h].commit = ops[h].commit
        /\ ops'[h].seen = ops[h].seen /\ ops'[h].chosen = ops[h].chosen /\ ops'[h].added = ops[h].added
        /\ ops'[h].answered = ops[h].answered /\ ops'[h].first = ops[h].first /\ ops'[h].alone = ops[h].alone
    BY <1>0, <2>2, StepFields
  <2>4. OpInv(ops[h])'
    <3>1. TypedOp(ops[h])'
      BY <1>0, <1>1, <2>3 DEF TypedOp, NEntries, NCommits
    <3>2. ops[h].answered = "none"
      BY <1>0, <1>1, <2>1 DEF AskedOp, Operation
    <3>3. AimedOp(ops[h])' /\ AskedOp(ops[h])'
      BY <1>0, <1>1, <2>1, <2>3, <3>2 DEF AimedOp, AskedOp, Looking, Restores
    <3>4. SafeOp(ops[h])' /\ AloneOp(ops[h])'
      BY <1>0, <1>1, <2>3 DEF SafeOp, AloneOp, Safe, Kept, NCommits
    <3> QED
      BY <3>1, <3>3, <3>4 DEF OpInv
  <2>5. OpsInv'
    BY <1>0, <1>1, <1>2, <2>2, <2>3, <2>4, OpsStep DEF Free
  <2> QED
    BY <1>2, <1>3, <1>4, <2>5 DEF RewindInv, Grows
<1> QED
  BY <1>5, <1>6

LEMMA StatusKeeps == ASSUME RewindInv, NEW h \in Handlers, Status(h) PROVE RewindInv'
<1>0. /\ DOMAIN ops = Handlers /\ WorldInv /\ StoreInv /\ PendingInv
      /\ ops[h] \in Operation /\ (ops[h].kind = "tree" => h = "pi")
      /\ TypedOp(ops[h]) /\ AimedOp(ops[h]) /\ SafeOp(ops[h]) /\ AskedOp(ops[h]) /\ AloneOp(ops[h])
      /\ NEntries \in Nat /\ NCommits \in Nat
  BY AtCommand
<1> DEFINE looked == [ops[h] EXCEPT !.seen = workspace]
<1>1. ops[h].pc = "status" /\ UNCHANGED <<setup, session, workspace, edits, repo, rt, disk>>
  BY DEF Status, Same
<1>2. /\ workspace \in Nat /\ workspace <= edits /\ edits \in Nat
      /\ looked \in Operation
      /\ looked.kind = ops[h].kind /\ looked.entry = ops[h].entry
      /\ looked.target = ops[h].target /\ looked.commit = ops[h].commit
      /\ looked.seen = workspace /\ looked.chosen = ops[h].chosen /\ looked.added = ops[h].added
      /\ looked.answered = ops[h].answered /\ looked.first = ops[h].first /\ looked.alone = ops[h].alone
  <2>1. workspace \in Nat /\ workspace <= edits /\ edits \in Nat
    BY <1>0 DEF WorldInv
  <2> QED
    BY <1>0, <2>1 DEF Operation
<1>3. \/ Rest(h)
      \/ Becomes(h, [looked EXCEPT !.pc = "choose"])
      \/ workspace = Committed /\ Becomes(h, [looked EXCEPT !.pc = "confirm", !.chosen = "clean"])
  BY DEF Status
<1>4. CASE Rest(h)
  BY <1>0, <1>1, <1>4, Unmoved, StoreStays, PendingStays, RestKeeps DEF Free
<1>5. CASE Becomes(h, [looked EXCEPT !.pc = "choose"])
  <2>1. ops'[h] = [looked EXCEPT !.pc = "choose"] /\ Becomes(h, ops'[h])
    BY <1>0, <1>5 DEF Becomes
  <2> HIDE DEF looked
  <2>2. /\ ops'[h] \in Operation
        /\ ops'[h].pc = "choose" /\ ops'[h].kind = ops[h].kind /\ ops'[h].entry = ops[h].entry
        /\ ops'[h].target = ops[h].target /\ ops'[h].commit = ops[h].commit
        /\ ops'[h].seen = workspace /\ ops'[h].added = ops[h].added
        /\ ops'[h].answered = ops[h].answered /\ ops'[h].first = ops[h].first /\ ops'[h].alone = ops[h].alone
    BY <1>2, <2>1, StepFields DEF Pcs
  <2>3. AimedOp(ops[h])' /\ AskedOp(ops[h])'
    BY <1>0, <1>1, <2>2 DEF AimedOp, AskedOp, Looking
  <2>4. SafeOp(ops[h])' /\ AloneOp(ops[h])'
    BY <2>2 DEF SafeOp, AloneOp
  <2> QED
    BY <1>0, <1>1, <1>2, <2>1, <2>2, <2>3, <2>4, MovesOn DEF Free, Pcs, TypedOp
<1>6. CASE workspace = Committed /\ Becomes(h, [looked EXCEPT !.pc = "confirm", !.chosen = "clean"])
  <2>1. ops'[h] = [looked EXCEPT !.pc = "confirm", !.chosen = "clean"] /\ Becomes(h, ops'[h])
    BY <1>0, <1>6 DEF Becomes
  <2> HIDE DEF looked
  <2>2. /\ ops'[h] \in Operation
        /\ ops'[h].pc = "confirm" /\ ops'[h].kind = ops[h].kind /\ ops'[h].entry = ops[h].entry
        /\ ops'[h].target = ops[h].target /\ ops'[h].commit = ops[h].commit
        /\ ops'[h].seen = workspace /\ ops'[h].added = ops[h].added /\ ops'[h].chosen = "clean"
        /\ ops'[h].answered = ops[h].answered /\ ops'[h].first = ops[h].first /\ ops'[h].alone = ops[h].alone
    BY <1>2, <2>1 DEF Operation, Pcs, Answers
  <2>3. AimedOp(ops[h])' /\ AskedOp(ops[h])'
    BY <1>0, <1>1, <2>2 DEF AimedOp, AskedOp, Looking
  <2>4. Kept
    BY <1>0, <1>6 DEF Committed, WorldInv, Kept, NCommits
  <2>5. SafeOp(ops[h])' /\ AloneOp(ops[h])'
    BY <1>1, <2>2, <2>4 DEF SafeOp, AloneOp, Safe, Kept, NCommits
  <2> QED
    BY <1>0, <1>1, <1>2, <2>1, <2>2, <2>3, <2>5, MovesOn DEF Free, Pcs, TypedOp
<1> QED
  BY <1>3, <1>4, <1>5, <1>6

LEMMA ChooseKeeps == ASSUME RewindInv, NEW h \in Handlers, Choose(h) PROVE RewindInv'
<1>0. /\ DOMAIN ops = Handlers /\ WorldInv /\ StoreInv /\ PendingInv
      /\ ops[h] \in Operation /\ (ops[h].kind = "tree" => h = "pi")
      /\ TypedOp(ops[h]) /\ AimedOp(ops[h]) /\ SafeOp(ops[h]) /\ AskedOp(ops[h]) /\ AloneOp(ops[h])
      /\ NEntries \in Nat /\ NCommits \in Nat
  BY AtCommand
<1>1. ops[h].pc = "choose" /\ UNCHANGED <<setup, session, workspace, edits, repo, rt, disk>>
  BY DEF Choose, Same
<1>2. session.leaf \in Nat /\ session.leaf <= NEntries
  BY <1>0 DEF WorldInv
<1>3. \/ Rest(h)
      \/ Becomes(h, [ops[h] EXCEPT !.pc = "add", !.entry = session.leaf, !.chosen = "checkpoint"])
      \/ Becomes(h, [ops[h] EXCEPT !.pc = "confirm", !.chosen = "discard"])
  BY DEF Choose, BeforeQuestion
<1>4. CASE Rest(h)
  BY <1>0, <1>1, <1>4, Unmoved, StoreStays, PendingStays, RestKeeps DEF Free
<1>5. CASE Becomes(h, [ops[h] EXCEPT !.pc = "add", !.entry = session.leaf, !.chosen = "checkpoint"])
  <2>1. ops'[h] = [ops[h] EXCEPT !.pc = "add", !.entry = session.leaf, !.chosen = "checkpoint"] /\ Becomes(h, ops'[h])
    BY <1>0, <1>5 DEF Becomes
  <2>2. /\ ops'[h] \in Operation
        /\ ops'[h].pc = "add" /\ ops'[h].kind = ops[h].kind /\ ops'[h].entry = session.leaf
        /\ ops'[h].target = ops[h].target /\ ops'[h].commit = ops[h].commit
        /\ ops'[h].seen = ops[h].seen /\ ops'[h].added = ops[h].added
        /\ ops'[h].answered = ops[h].answered /\ ops'[h].first = ops[h].first /\ ops'[h].alone = ops[h].alone
    BY <1>0, <1>2, <2>1 DEF Operation, Pcs, Answers
  <2>3. AimedOp(ops[h])' /\ AskedOp(ops[h])'
    BY <1>0, <1>1, <2>2 DEF AimedOp, AskedOp, Looking
  <2>4. SafeOp(ops[h])' /\ AloneOp(ops[h])'
    BY <2>2 DEF SafeOp, AloneOp
  <2> QED
    BY <1>0, <1>1, <1>2, <2>1, <2>2, <2>3, <2>4, MovesOn DEF Free, Pcs, TypedOp
<1>6. CASE Becomes(h, [ops[h] EXCEPT !.pc = "confirm", !.chosen = "discard"])
  <2>1. ops'[h] = [ops[h] EXCEPT !.pc = "confirm", !.chosen = "discard"] /\ Becomes(h, ops'[h])
    BY <1>0, <1>6 DEF Becomes
  <2>2. /\ ops'[h] \in Operation
        /\ ops'[h].pc = "confirm" /\ ops'[h].kind = ops[h].kind /\ ops'[h].entry = ops[h].entry
        /\ ops'[h].target = ops[h].target /\ ops'[h].commit = ops[h].commit
        /\ ops'[h].seen = ops[h].seen /\ ops'[h].added = ops[h].added /\ ops'[h].chosen = "discard"
        /\ ops'[h].answered = ops[h].answered /\ ops'[h].first = ops[h].first /\ ops'[h].alone = ops[h].alone
    BY <1>0, <2>1 DEF Operation, Pcs, Answers
  <2>3. AimedOp(ops[h])' /\ AskedOp(ops[h])'
    BY <1>0, <1>1, <2>2 DEF AimedOp, AskedOp, Looking
  <2>4. SafeOp(ops[h])' /\ AloneOp(ops[h])'
    BY <2>2 DEF SafeOp, AloneOp, Safe
  <2> QED
    BY <1>0, <1>1, <2>1, <2>2, <2>3, <2>4, MovesOn DEF Free, Pcs, TypedOp
<1> QED
  BY <1>3, <1>4, <1>5, <1>6

LEMMA ConfirmKeeps == ASSUME RewindInv, NEW h \in Handlers, Confirm(h) PROVE RewindInv'
<1>0. /\ DOMAIN ops = Handlers /\ WorldInv /\ StoreInv /\ PendingInv
      /\ ops[h] \in Operation /\ (ops[h].kind = "tree" => h = "pi")
      /\ TypedOp(ops[h]) /\ AimedOp(ops[h]) /\ SafeOp(ops[h]) /\ AskedOp(ops[h]) /\ AloneOp(ops[h])
      /\ NEntries \in Nat /\ NCommits \in Nat
  BY AtCommand
<1>1. /\ ops[h].pc = "confirm" /\ UNCHANGED <<setup, session, workspace, edits, repo, disk>>
      /\ ops[h].kind \in Restores /\ Grows /\ ops[h].commit = ops[h].first
  BY <1>0, Unmoved DEF Confirm, Same, AimedOp, AskedOp, Looking
<1>2. \/ Rest(h) /\ rt' = rt
      \/ rt' = rt /\ ops[h].kind = "tree" /\ Becomes(h, [ops[h] EXCEPT !.answered = "no", !.pc = "navigate"])
      \/ /\ rt' = rt /\ setup.hasUI
         /\ Becomes(h, [[ops[h] EXCEPT !.answered = "yes"] EXCEPT !.pc = "reset", !.commit = ops[h].commit])
      \/ /\ setup.hasUI /\ ops[h].kind = "tree"
         /\ Becomes(h, [[ops[h] EXCEPT !.answered = "yes"] EXCEPT !.pc = "navigate"])
         /\ rt' = [rt EXCEPT !.pending = [target |-> ops[h].target, commit |-> ops[h].commit,
                                          seen |-> ops[h].seen, chosen |-> ops[h].chosen]]
  BY DEF Confirm, Wanted
<1>3. CASE Rest(h) /\ rt' = rt
  BY <1>0, <1>1, <1>3, StoreStays, PendingStays, RestKeeps DEF Free
<1>4. CASE rt' = rt /\ ops[h].kind = "tree" /\ Becomes(h, [ops[h] EXCEPT !.answered = "no", !.pc = "navigate"])
  <2>1. ops'[h] = [ops[h] EXCEPT !.answered = "no", !.pc = "navigate"] /\ Becomes(h, ops'[h])
    BY <1>0, <1>4 DEF Becomes
  <2>2. /\ ops'[h] \in Operation
        /\ ops'[h].pc = "navigate" /\ ops'[h].kind = ops[h].kind /\ ops'[h].entry = ops[h].entry
        /\ ops'[h].target = ops[h].target /\ ops'[h].commit = ops[h].commit
        /\ ops'[h].seen = ops[h].seen /\ ops'[h].added = ops[h].added /\ ops'[h].chosen = ops[h].chosen
        /\ ops'[h].answered = "no" /\ ops'[h].first = ops[h].first /\ ops'[h].alone = ops[h].alone
    BY <1>0, <2>1 DEF Operation, Pcs
  <2>3. AimedOp(ops[h])' /\ AskedOp(ops[h])'
    BY <1>0, <1>1, <1>4, <2>2 DEF AimedOp, AskedOp, Looking
  <2>4. SafeOp(ops[h])' /\ AloneOp(ops[h])'
    BY <1>0, <1>1, <2>2 DEF SafeOp, AloneOp, Safe, Kept, NCommits
  <2> QED
    BY <1>0, <1>1, <1>4, <2>1, <2>2, <2>3, <2>4, MovesOn DEF Free, Pcs, TypedOp
<1>5. CASE /\ rt' = rt /\ setup.hasUI
           /\ Becomes(h, [[ops[h] EXCEPT !.answered = "yes"] EXCEPT !.pc = "reset", !.commit = ops[h].commit])
  <2>1. ops'[h] = [[ops[h] EXCEPT !.answered = "yes"] EXCEPT !.pc = "reset", !.commit = ops[h].commit] /\ Becomes(h, ops'[h])
    BY <1>0, <1>5 DEF Becomes
  <2>2. /\ ops'[h] \in Operation
        /\ ops'[h].pc = "reset" /\ ops'[h].kind = ops[h].kind /\ ops'[h].entry = ops[h].entry
        /\ ops'[h].target = ops[h].target /\ ops'[h].commit = ops[h].commit
        /\ ops'[h].seen = ops[h].seen /\ ops'[h].added = ops[h].added /\ ops'[h].chosen = ops[h].chosen
        /\ ops'[h].answered = "yes" /\ ops'[h].first = ops[h].first /\ ops'[h].alone = ops[h].alone
    BY <1>0, <2>1 DEF Operation, Pcs
  <2>3. AimedOp(ops[h])' /\ AskedOp(ops[h])'
    BY <1>0, <1>1, <1>5, <2>2 DEF AimedOp, AskedOp, Looking
  <2>4. SafeOp(ops[h])' /\ AloneOp(ops[h])'
    BY <1>0, <1>1, <2>2 DEF SafeOp, AloneOp, Safe, Kept, NCommits
  <2> QED
    BY <1>0, <1>1, <1>5, <2>1, <2>2, <2>3, <2>4, MovesOn DEF Free, Pcs, TypedOp
<1>6. CASE /\ setup.hasUI /\ ops[h].kind = "tree"
           /\ Becomes(h, [[ops[h] EXCEPT !.answered = "yes"] EXCEPT !.pc = "navigate"])
           /\ rt' = [rt EXCEPT !.pending = [target |-> ops[h].target, commit |-> ops[h].commit,
                                            seen |-> ops[h].seen, chosen |-> ops[h].chosen]]
  <2>1. /\ ops'[h] = [[ops[h] EXCEPT !.answered = "yes"] EXCEPT !.pc = "navigate"]
        /\ ops' = [ops EXCEPT ![h] = ops'[h]]
    BY <1>0, <1>6 DEF Becomes
  <2>2. /\ ops'[h] \in Operation
        /\ ops'[h].pc = "navigate" /\ ops'[h].kind = ops[h].kind /\ ops'[h].entry = ops[h].entry
        /\ ops'[h].target = ops[h].target /\ ops'[h].commit = ops[h].commit
        /\ ops'[h].seen = ops[h].seen /\ ops'[h].added = ops[h].added /\ ops'[h].chosen = ops[h].chosen
        /\ ops'[h].answered = "yes" /\ ops'[h].first = ops[h].first /\ ops'[h].alone = ops[h].alone
    BY <1>0, <2>1 DEF Operation, Pcs
  <2> DEFINE p == [target |-> ops[h].target, commit |-> ops[h].commit,
                   seen |-> ops[h].seen, chosen |-> ops[h].chosen]
  <2>a. edits \in Nat /\ rt' = [rt EXCEPT !.pending = p]
    BY <1>0, <1>6 DEF WorldInv
  <2>b. p \in [target : Nat, commit : 0..NCommits, seen : 0..edits, chosen : Answers]
    BY <1>0, <2>a DEF TypedOp, Operation
  <2>c. p.commit = ops[h].commit /\ p.seen = ops[h].seen /\ p.chosen = ops[h].chosen
    OBVIOUS
  <2> HIDE DEF p
  <2>3. /\ rt' \in [checkpoints : [Entries -> 0..NCommits],
                    pending : [target : Nat, commit : 0..NCommits, seen : 0..edits, chosen : Answers]]
        /\ rt'.pending = p
    BY <1>0, <2>a, <2>b DEF StoreInv
  <2>4. StoreInv'
    BY <1>0, <1>1, <2>3 DEF StoreInv, NCommits
  <2>5. PendingInv'
    BY <1>0, <1>1, <1>6, <2>3, <2>c DEF PendingInv, SafeOp, Safe, Kept, NCommits
  <2>6. OpInv(ops[h])'
    <3>1. TypedOp(ops[h])'
      BY <1>0, <1>1, <2>2 DEF TypedOp, NEntries, NCommits
    <3>2. AimedOp(ops[h])' /\ AskedOp(ops[h])'
      BY <1>0, <1>1, <1>6, <2>2, <2>3, <2>c DEF AimedOp, AskedOp, Looking
    <3>3. SafeOp(ops[h])' /\ AloneOp(ops[h])'
      BY <1>0, <1>1, <2>2 DEF SafeOp, AloneOp, Safe, Kept, NCommits
    <3> QED
      BY <3>1, <3>2, <3>3 DEF OpInv
  <2>7. OpsInv'
    BY <1>0, <1>1, <1>6, <2>1, <2>2, <2>6, OpsStep DEF Free
  <2> QED
    BY <1>1, <2>4, <2>5, <2>7 DEF RewindInv, Grows
<1> QED
  BY <1>2, <1>3, <1>4, <1>5, <1>6

\* The session goes to another entry that it has.
LEMMA Turned ==
  ASSUME WorldInv, UNCHANGED <<setup, workspace, edits, repo>>,
         session' \in [parent : Seq(Nat), leaf : Nat, turn : BOOLEAN],
         session'.parent = session.parent, session'.leaf <= NEntries
  PROVE  Grows
<1>1. WorldInv'
  BY DEF WorldInv, NEntries, NCommits
<1> QED
  BY <1>1 DEF Grows, WorldInv, NEntries, NCommits

LEMMA NavigateKeeps == ASSUME RewindInv, NEW h \in Handlers, Navigate(h) PROVE RewindInv'
<1>0. /\ DOMAIN ops = Handlers /\ WorldInv /\ StoreInv /\ PendingInv
      /\ ops[h] \in Operation /\ (ops[h].kind = "tree" => h = "pi")
      /\ TypedOp(ops[h]) /\ AimedOp(ops[h]) /\ SafeOp(ops[h]) /\ AskedOp(ops[h]) /\ AloneOp(ops[h])
      /\ NEntries \in Nat /\ NCommits \in Nat
  BY AtCommand
<1>1. /\ ops[h].pc = "navigate" /\ UNCHANGED <<setup, workspace, edits, repo, disk>>
      /\ h = "pi" /\ ops[h].kind = "tree" /\ ops[h].target > 0
  BY <1>0 DEF Navigate, Same, AimedOp
<1>2. CASE Rest(h) /\ UNCHANGED <<session, rt>>
  BY <1>0, <1>1, <1>2, Unmoved, StoreStays, PendingStays, RestKeeps DEF Free
<1>3. CASE \E leaf \in {ops[h].target, session.parent[ops[h].target]} :
             /\ session' = [session EXCEPT !.leaf = leaf] /\ rt' = [rt EXCEPT !.pending = NoPending]
             /\ IF rt.pending.commit > 0 /\ leaf = rt.pending.target
                THEN Becomes(h, [ops[h] EXCEPT !.pc = "reset", !.commit = rt.pending.commit,
                                          !.seen = rt.pending.seen, !.chosen = rt.pending.chosen])
                ELSE Rest(h)
  <2>1. PICK leaf \in {ops[h].target, session.parent[ops[h].target]} :
             /\ session' = [session EXCEPT !.leaf = leaf] /\ rt' = [rt EXCEPT !.pending = NoPending]
             /\ IF rt.pending.commit > 0 /\ leaf = rt.pending.target
                THEN Becomes(h, [ops[h] EXCEPT !.pc = "reset", !.commit = rt.pending.commit,
                                          !.seen = rt.pending.seen, !.chosen = rt.pending.chosen])
                ELSE Rest(h)
    BY <1>3
  <2>2. leaf \in Nat /\ leaf <= NEntries
    <3>1. ops[h].target \in 1..NEntries
      BY <1>0, <1>1 DEF TypedOp, Operation
    <3> QED
      BY <1>0, <3>1 DEF WorldInv, NEntries
  <2>3. Grows
    <3>1. session' \in [parent : Seq(Nat), leaf : Nat, turn : BOOLEAN] /\ session'.parent = session.parent /\ session'.leaf = leaf
      <4>1. session \in [parent : Seq(Nat), leaf : Nat, turn : BOOLEAN]
        BY <1>0 DEF WorldInv
      <4> QED
        BY <2>1, <2>2, <4>1
    <3> QED
      BY <1>0, <1>1, <2>2, <3>1, Turned
  <2>4. /\ rt' \in [checkpoints : [Entries -> 0..NCommits],
                    pending : [target : Nat, commit : 0..NCommits, seen : 0..edits, chosen : Answers]]
        /\ rt'.pending.commit = 0 /\ rt'.pending.seen = 0
        /\ rt.pending \in [target : Nat, commit : 0..NCommits, seen : 0..edits, chosen : Answers]
        /\ edits \in Nat /\ workspace > 0
    <3>1. edits \in Nat /\ workspace > 0
      BY <1>0 DEF WorldInv
    <3> QED
      BY <1>0, <2>1, <3>1 DEF StoreInv, NoPending, Answers
  <2>5. StoreInv'
    BY <1>0, <1>1, <2>4 DEF StoreInv, NCommits
  <2>6. PendingInv'
    BY <1>1, <2>4 DEF PendingInv, Safe
  <2>7. CASE Rest(h)
    BY <1>1, <2>3, <2>5, <2>6, <2>7, RestKeeps DEF Free
  <2>8. CASE ~Rest(h)
    <3>1. /\ rt.pending.commit > 0
          /\ ops' = [ops EXCEPT ![h] = [ops[h] EXCEPT !.pc = "reset", !.commit = rt.pending.commit,
                                          !.seen = rt.pending.seen, !.chosen = rt.pending.chosen]]
      BY <2>1, <2>8 DEF Becomes
    <3>2. /\ ops'[h] = [ops[h] EXCEPT !.pc = "reset", !.commit = rt.pending.commit,
                                      !.seen = rt.pending.seen, !.chosen = rt.pending.chosen]
          /\ ops' = [ops EXCEPT ![h] = ops'[h]]
      BY <1>0, <3>1
    <3>3. /\ rt.pending.commit \in 0..NCommits /\ rt.pending.commit \in Nat
          /\ rt.pending.seen \in 0..edits /\ rt.pending.seen \in Nat /\ rt.pending.chosen \in Answers
      BY <1>0, <2>4
    <3>4. /\ ops'[h] \in Operation
          /\ ops'[h].pc = "reset" /\ ops'[h].kind = ops[h].kind /\ ops'[h].entry = ops[h].entry
          /\ ops'[h].target = ops[h].target /\ ops'[h].commit = rt.pending.commit
          /\ ops'[h].seen = rt.pending.seen /\ ops'[h].added = ops[h].added /\ ops'[h].chosen = rt.pending.chosen
          /\ ops'[h].answered = ops[h].answered /\ ops'[h].first = ops[h].first /\ ops'[h].alone = ops[h].alone
      BY <1>0, <3>2, <3>3 DEF Operation, Pcs
    <3>5. OpInv(ops[h])'
      <4>0. NEntries' \in Nat /\ NEntries <= NEntries' /\ NCommits' = NCommits
        BY <1>1, <2>3 DEF Grows, WorldInv, NEntries, NCommits
      <4>1. TypedOp(ops[h])'
        BY <1>0, <1>1, <2>4, <3>3, <3>4, <4>0 DEF TypedOp, Operation
      <4>2. AimedOp(ops[h])' /\ AskedOp(ops[h])'
        BY <1>0, <1>1, <3>1, <3>4 DEF AimedOp, AskedOp, Looking, Restores, PendingInv
      <4>3. SafeOp(ops[h])' /\ AloneOp(ops[h])'
        BY <1>0, <1>1, <3>4 DEF SafeOp, AloneOp, Safe, Kept, NCommits, PendingInv
      <4> QED
        BY <4>1, <4>2, <4>3 DEF OpInv
    <3>6. OpsInv'
      BY <1>0, <1>1, <2>3, <3>2, <3>4, <3>5, OpsStep DEF Free
    <3> QED
      BY <2>3, <2>5, <2>6, <3>6 DEF RewindInv, Grows
  <2> QED
    BY <2>7, <2>8
<1> QED
  BY <1>2, <1>3 DEF Navigate

LEMMA ResetFilesKeeps == ASSUME RewindInv, NEW h \in Handlers, ResetFiles(h) PROVE RewindInv'
<1>0. /\ DOMAIN ops = Handlers /\ WorldInv /\ StoreInv /\ PendingInv
      /\ ops[h] \in Operation /\ (ops[h].kind = "tree" => h = "pi")
      /\ TypedOp(ops[h]) /\ AimedOp(ops[h]) /\ SafeOp(ops[h]) /\ AskedOp(ops[h]) /\ AloneOp(ops[h])
      /\ NEntries \in Nat /\ NCommits \in Nat
  BY AtCommand
<1>1. /\ ops[h].pc = "reset" /\ UNCHANGED <<setup, edits, session, rt, disk>>
      /\ workspace' = repo.commits[ops[h].commit]
      /\ repo' = [repo EXCEPT !.head = ops[h].commit, !.index = workspace']
      /\ ops' = [ops EXCEPT ![h] = [ops[h] EXCEPT !.pc = "save", !.answered = "yes"]]
  BY DEF ResetFiles, Becomes, Same
<1>2. ops[h].commit \in 1..NCommits
  BY <1>0, <1>1 DEF TypedOp, AimedOp, Operation
<1>3. /\ repo'.index = workspace' /\ repo'.commits = repo.commits /\ repo'.head = ops[h].commit
      /\ repo' \in [commits : Seq(Nat), head : Nat, index : Nat] /\ workspace' \in 1..edits
  <2>1. repo \in [commits : Seq(Nat), head : Nat, index : Nat] /\ workspace' \in 1..edits /\ edits \in Nat
    BY <1>0, <1>1, <1>2 DEF WorldInv
  <2>2. workspace' \in Nat /\ ops[h].commit \in Nat
    BY <1>0, <1>2, <2>1
  <2> QED
    BY <1>1, <2>1, <2>2
<1>4. Grows
  <2>1. WorldInv'
    BY <1>0, <1>1, <1>2, <1>3 DEF WorldInv, NEntries, NCommits
  <2>2. Kept'
    BY <1>1, <1>2, <1>3 DEF Kept, NCommits
  <2> QED
    BY <2>1, <2>2, <1>0, <1>1, <1>3 DEF Grows, WorldInv, NEntries, NCommits
<1>5. /\ ops'[h] = [ops[h] EXCEPT !.pc = "save", !.answered = "yes"] /\ ops' = [ops EXCEPT ![h] = ops'[h]]
  BY <1>0, <1>1
<1>6. /\ ops'[h] \in Operation
      /\ ops'[h].pc = "save" /\ ops'[h].kind = ops[h].kind /\ ops'[h].entry = ops[h].entry
      /\ ops'[h].target = ops[h].target /\ ops'[h].commit = ops[h].commit
      /\ ops'[h].seen = ops[h].seen /\ ops'[h].chosen = ops[h].chosen
      /\ ops'[h].answered = "yes" /\ ops'[h].first = ops[h].first /\ ops'[h].alone = ops[h].alone
  BY <1>0, <1>5 DEF Operation, Pcs
<1>7. OpInv(ops[h])'
  <2>1. TypedOp(ops[h])'
    BY <1>0, <1>1, <1>3, <1>6 DEF TypedOp, NEntries, NCommits
  <2>2. AimedOp(ops[h])' /\ AskedOp(ops[h])'
    BY <1>0, <1>1, <1>6 DEF AimedOp, AskedOp, Looking
  <2>3. Kept'
    BY <1>1, <1>2, <1>3 DEF Kept, NCommits
  <2>4. SafeOp(ops[h])' /\ AloneOp(ops[h])'
    BY <1>6, <2>3 DEF SafeOp, AloneOp, Safe
  <2> QED
    BY <2>1, <2>2, <2>4 DEF OpInv
<1>8. OpsInv'
  BY <1>0, <1>1, <1>4, <1>5, <1>6, <1>7, OpsStep DEF Free
<1> QED
  BY <1>0, <1>1, <1>4, <1>8, StoreStays, PendingStays DEF RewindInv, Grows

LEMMA FailsKeeps == ASSUME RewindInv, NEW h \in Handlers, Fails(h) PROVE RewindInv'
<1>1. /\ ~Free(h) /\ Rest(h) /\ WorldInv /\ StoreInv /\ PendingInv
      /\ UNCHANGED <<setup, session, workspace, edits, repo, rt, disk>>
  BY DEF Fails, Free, RewindInv
<1> QED
  BY <1>1, Unmoved, StoreStays, PendingStays, RestKeeps

\* The operations that a handler may begin with.
LEMMA CheckpointingIsSound ==
  ASSUME RewindInv, NEW kind \in {"event", "checkpoint"}
  PROVE  LET it == Checkpointing(kind, session.leaf)
         IN OpInv(it) /\ it.pc = "add" /\ it.kind = kind
<1> DEFINE it == Checkpointing(kind, session.leaf)
<1>0. WorldInv /\ session.leaf \in Nat /\ session.leaf <= NEntries /\ NCommits \in Nat /\ edits \in Nat
  BY DEF RewindInv, WorldInv, NCommits
<1>1. /\ it \in Operation
      /\ it.pc = "add" /\ it.kind = kind /\ it.entry = session.leaf /\ it.target = 0
      /\ it.commit = 0 /\ it.seen = 0 /\ it.first = 0 /\ it.answered = "none"
  BY <1>0, RestIsAnOp DEF Checkpointing, Operation, Pcs, Kinds
<1> HIDE DEF it
<1>2. TypedOp(it)
  BY <1>0, <1>1 DEF TypedOp, NEntries
<1>3. OpInv(it)
  BY <1>1, <1>2 DEF OpInv, AimedOp, SafeOp, AskedOp, AloneOp, Restores, Looking
<1> QED
  BY <1>1, <1>3 DEF it

LEMMA AskingIsSound ==
  ASSUME RewindInv, NEW kind \in Restores, NEW target \in 1..NEntries
  PROVE  LET it == Asking(kind, target)
         IN OpInv(it) /\ it.pc \notin {"diff", "commit", "map"} /\ it.kind = kind
<1> DEFINE it == Asking(kind, target)
           commit == rt.checkpoints[target]
           pc == IF commit > 0 THEN "status" ELSE IF kind = "tree" THEN "navigate" ELSE "rest"
<1>0. /\ WorldInv /\ NCommits \in Nat /\ edits \in Nat /\ NEntries \in Nat /\ NEntries <= MaxEntries
      /\ workspace > 0
  BY DEF RewindInv, WorldInv, NCommits, NEntries
<1>1. commit \in 0..NCommits /\ commit \in Nat
  BY <1>0, RewindAssumption DEF RewindInv, StoreInv, Entries
<1>2. it = [Resting EXCEPT !.pc = pc, !.kind = kind, !.target = target, !.commit = commit, !.first = commit]
  BY DEF Asking
<1>3. pc \in Pcs /\ kind \in Kinds /\ target \in Nat
  BY <1>0 DEF Pcs, Kinds, Restores
<1>4. pc = "status" => commit > 0
  BY <1>1
<1>5. pc = "navigate" => kind = "tree"
  OBVIOUS
<1>6. pc \in {"status", "navigate", "rest"}
  OBVIOUS
<1> HIDE DEF it, pc, commit
<1>7. /\ it \in Operation
      /\ it.pc = pc /\ it.kind = kind /\ it.entry = 0 /\ it.target = target
      /\ it.commit = commit /\ it.seen = 0 /\ it.first = commit /\ it.answered = "none"
  BY <1>1, <1>2, <1>3, RestIsAnOp DEF Operation
<1>8. TypedOp(it)
  BY <1>0, <1>1, <1>7 DEF TypedOp
<1>9. AimedOp(it)
  BY <1>4, <1>5, <1>6, <1>7 DEF AimedOp
<1>10. SafeOp(it) /\ AskedOp(it) /\ AloneOp(it)
  BY <1>0, <1>6, <1>7 DEF SafeOp, AskedOp, AloneOp, Safe, Looking
<1> QED
  BY <1>6, <1>7, <1>8, <1>9, <1>10 DEF OpInv, it

LEMMA NothingBegun ==
  ASSUME RewindInv, Grows, StoreInv', rt' = rt, ops' = ops, repo' = repo
  PROVE  RewindInv'
<1>1. DOMAIN ops = Handlers /\ WorldInv /\ StoreInv /\ PendingInv /\ OpsInv
  BY DEF RewindInv, OpsInv
<1>2. ASSUME NEW h \in Handlers PROVE OpInv(ops[h])'
  <2>1. ops[h].alone \in BOOLEAN /\ ops'[h] = [ops[h] EXCEPT !.alone = ops[h].alone]
    BY <1>1 DEF OpsInv, OpInv, TypedOp, Operation
  <2>2. TypedOp(ops[h])' /\ AimedOp(ops[h])' /\ SafeOp(ops[h])' /\ AskedOp(ops[h])'
    BY <2>1, OpStays
  <2>3. AloneOp(ops[h])'
    BY <1>1 DEF OpsInv, OpInv, AloneOp
  <2> QED
    BY <2>2, <2>3 DEF OpInv
<1>3. OpsInv'
  BY <1>1, <1>2 DEF OpsInv, Free
<1> QED
  BY <1>1, <1>3, PendingStays DEF RewindInv, Grows

LEMMA TurnBoundsKeeps == ASSUME RewindInv, TurnBounds PROVE RewindInv'
<1>0. WorldInv /\ StoreInv /\ PendingInv /\ session \in [parent : Seq(Nat), leaf : Nat, turn : BOOLEAN]
  BY DEF RewindInv, WorldInv
<1>1. session' = [session EXCEPT !.turn = ~@] /\ UNCHANGED <<setup, workspace, edits, repo, rt, disk>>
  BY DEF TurnBounds
<1>2. session' \in [parent : Seq(Nat), leaf : Nat, turn : BOOLEAN] /\ session'.parent = session.parent
      /\ session'.leaf = session.leaf
  BY <1>0, <1>1
<1>3. Grows
  BY <1>0, <1>1, <1>2, Turned DEF WorldInv
<1>4. StoreInv'
  BY <1>0, <1>1, <1>3, StoreStays
<1>5. CASE Begin("pi", Checkpointing("event", session.leaf))
  BY <1>1, <1>2, <1>3, <1>4, <1>5, CheckpointingIsSound, BeginKeeps DEF Handlers
<1>6. CASE UNCHANGED ops
  BY <1>1, <1>2, <1>3, <1>4, <1>6, NothingBegun
<1> QED
  BY <1>5, <1>6 DEF TurnBounds

LEMMA AsksKeep == ASSUME RewindInv, AskTree \/ AskFork \/ AskCommand \/ RewindCheckpoint PROVE RewindInv'
<1>1. UNCHANGED <<setup, session, workspace, edits, repo, rt, disk>>
  BY DEF AskTree, AskFork, AskCommand, RewindCheckpoint
<1>2. Grows /\ StoreInv'
  BY <1>1, Unmoved, StoreStays DEF RewindInv
<1>3. CASE RewindCheckpoint
  BY <1>1, <1>2, <1>3, CheckpointingIsSound, BeginKeeps DEF Handlers, RewindCheckpoint
<1>4. CASE AskTree \/ AskFork \/ AskCommand
  <2>1. PICK h \in Handlers, kind \in Restores, target \in 1..NEntries :
          Begin(h, Asking(kind, target)) /\ (kind = "tree" => h = "pi")
    BY <1>4 DEF AskTree, AskFork, AskCommand, Handlers, Restores, NEntries
  <2> QED
    BY <1>1, <1>2, <2>1, AskingIsSound, BeginKeeps
<1> QED
  BY <1>3, <1>4

LEMMA AppendEntryKeeps == ASSUME RewindInv, AppendEntry PROVE RewindInv'
<1>0. /\ WorldInv /\ StoreInv /\ session \in [parent : Seq(Nat), leaf : Nat, turn : BOOLEAN]
      /\ NEntries \in Nat /\ NEntries = Len(session.parent) /\ NCommits \in Nat
  BY DEF RewindInv, WorldInv, NEntries, NCommits
<1>1. /\ session' = [session EXCEPT !.parent = Append(@, session.leaf), !.leaf = Len(session.parent) + 1]
      /\ UNCHANGED <<setup, workspace, edits, repo, rt, disk, ops>> /\ Len(session.parent) < MaxEntries
  BY DEF AppendEntry
<1>2. /\ session' \in [parent : Seq(Nat), leaf : Nat, turn : BOOLEAN]
      /\ session'.parent = Append(session.parent, session.leaf) /\ session'.leaf = NEntries + 1
  <2>1. Append(session.parent, session.leaf) \in Seq(Nat) /\ Len(session.parent) + 1 \in Nat
    BY <1>0
  <2> QED
    BY <1>0, <1>1, <2>1
<1>3. /\ NEntries' = NEntries + 1 /\ session'.parent[NEntries + 1] = session.leaf
      /\ \A i \in 1..NEntries : session'.parent[i] = session.parent[i]
  BY <1>0, <1>2 DEF NEntries
<1>4. WorldInv'
  <2>1. session'.leaf <= NEntries' /\ NEntries' <= MaxEntries
    BY <1>0, <1>1, <1>2, <1>3, RewindAssumption
  <2>2. \A i \in 1..NEntries' : session'.parent[i] <= NEntries'
    <3> SUFFICES ASSUME NEW i \in 1..NEntries' PROVE session'.parent[i] <= NEntries'
      OBVIOUS
    <3>1. session.leaf \in Nat /\ session.leaf <= NEntries
      BY <1>0 DEF WorldInv
    <3>2. CASE i = NEntries + 1
      BY <1>0, <1>3, <3>1, <3>2
    <3>3. CASE i # NEntries + 1
      <4>1. i \in 1..NEntries
        BY <1>0, <1>3, <3>3
      <4>2. session.parent[i] \in Nat /\ session.parent[i] <= NEntries
        BY <1>0, <4>1 DEF WorldInv
      <4> QED
        BY <1>0, <1>3, <4>1, <4>2
    <3> QED
      BY <3>2, <3>3
  <2> QED
    BY <1>0, <1>1, <1>2, <2>1, <2>2 DEF WorldInv, NCommits
<1>5. Grows
  BY <1>0, <1>1, <1>3, <1>4 DEF Grows, WorldInv, NCommits
<1> QED
  BY <1>0, <1>1, <1>5, StoreStays, NothingBegun

LEMMA EditFilesKeeps == ASSUME RewindInv, EditFiles PROVE RewindInv'
<1>0. WorldInv /\ StoreInv /\ NEntries \in Nat /\ NCommits \in Nat /\ edits \in Nat
  BY DEF RewindInv, WorldInv, NEntries, NCommits
<1>1. edits' = edits + 1 /\ workspace' = edits' /\ UNCHANGED <<setup, session, repo, rt, disk, ops>>
  BY DEF EditFiles
<1>2. WorldInv'
  BY <1>0, <1>1 DEF WorldInv, NEntries, NCommits
<1>3. Grows
  BY <1>0, <1>1, <1>2 DEF Grows, WorldInv, NEntries, NCommits
<1> QED
  BY <1>0, <1>1, <1>3, StoreStays, NothingBegun

\* Pi starts: nothing runs, but for the first checkpoint.
LEMMA HandlersStart ==
  ASSUME WorldInv',
         ops' = [h \in Handlers |-> IF h = "pi" /\ setup'.auto THEN Checkpointing("event", session'.leaf) ELSE Resting]
  PROVE  OpsInv'
<1>0. /\ session'.leaf \in Nat /\ session'.leaf <= NEntries' /\ NCommits' \in Nat /\ edits' \in Nat
      /\ NEntries' \in Nat
  BY DEF WorldInv, NCommits, NEntries
<1>1. /\ Checkpointing("event", session'.leaf) \in Operation
      /\ Checkpointing("event", session'.leaf).pc = "add" /\ Checkpointing("event", session'.leaf).kind = "event"
      /\ Checkpointing("event", session'.leaf).entry = session'.leaf /\ Checkpointing("event", session'.leaf).target = 0
      /\ Checkpointing("event", session'.leaf).commit = 0 /\ Checkpointing("event", session'.leaf).seen = 0
      /\ Checkpointing("event", session'.leaf).first = 0 /\ Checkpointing("event", session'.leaf).answered = "none"
  BY <1>0, RestIsAnOp DEF Checkpointing, Operation, Pcs, Kinds
<1>2. ASSUME NEW h \in Handlers
      PROVE  /\ ops'[h] \in Operation
             /\ ops'[h].pc \in {"add", "rest"} /\ ops'[h].kind \in {"event", "none"}
             /\ ops'[h].entry \in {session'.leaf, 0} /\ ops'[h].target = 0
             /\ ops'[h].commit = 0 /\ ops'[h].seen = 0 /\ ops'[h].first = 0 /\ ops'[h].answered = "none"
             /\ ops'[h].pc = "add" => h = "pi"
  <2>1. ops'[h] = Resting \/ (h = "pi" /\ ops'[h] = Checkpointing("event", session'.leaf))
    OBVIOUS
  <2> QED
    BY <1>1, <2>1, RestIsAnOp
<1>3. \A h \in Handlers : OpInv(ops[h])'
  <2> SUFFICES ASSUME NEW h \in Handlers PROVE OpInv(ops[h])'
    OBVIOUS
  <2>1. TypedOp(ops[h])'
    BY <1>0, <1>2 DEF TypedOp
  <2>2. AimedOp(ops[h])' /\ SafeOp(ops[h])' /\ AskedOp(ops[h])' /\ AloneOp(ops[h])'
    BY <1>2 DEF AimedOp, SafeOp, AskedOp, AloneOp, Restores, Looking
  <2> QED
    BY <2>1, <2>2 DEF OpInv
<1>4. \A g, h \in Handlers : g # h /\ ~Free(g)' /\ ~Free(h)' => ~ops'[g].alone
  BY <1>2 DEF Free
<1> QED
  BY <1>2, <1>3, <1>4 DEF OpsInv

LEMMA RestartKeeps == ASSUME RewindInv, Restart PROVE RewindInv'
<1>0. /\ WorldInv /\ StoreInv /\ session \in [parent : Seq(Nat), leaf : Nat, turn : BOOLEAN]
      /\ edits \in Nat /\ workspace > 0 /\ NCommits \in Nat
  BY DEF RewindInv, WorldInv, NCommits
<1>1. /\ UNCHANGED <<setup, workspace, edits, repo>> /\ session' = [session EXCEPT !.turn = FALSE]
      /\ disk' \in {disk, None} /\ rt' = [checkpoints |-> disk', pending |-> NoPending]
      /\ ops' = [h \in Handlers |-> IF h = "pi" /\ setup.auto THEN Checkpointing("event", session.leaf) ELSE Resting]
  BY DEF Restart
<1>2. session' \in [parent : Seq(Nat), leaf : Nat, turn : BOOLEAN] /\ session'.parent = session.parent
      /\ session'.leaf = session.leaf
  BY <1>0, <1>1
<1>3. Grows
  BY <1>0, <1>1, <1>2, Turned DEF WorldInv
<1>4. disk' \in [Entries -> 0..NCommits]
  BY <1>0, <1>1 DEF StoreInv, None
<1>5. NoPending \in [target : Nat, commit : 0..NCommits, seen : 0..edits, chosen : Answers]
      /\ NoPending.commit = 0 /\ NoPending.seen = 0
  BY <1>0 DEF NoPending, Answers
<1>6. StoreInv'
  BY <1>1, <1>4, <1>5 DEF StoreInv, NCommits
<1>7. PendingInv'
  BY <1>0, <1>1, <1>5 DEF PendingInv, Safe
<1>8. OpsInv'
  BY <1>1, <1>2, <1>3, HandlersStart DEF Grows
<1> QED
  BY <1>3, <1>6, <1>7, <1>8 DEF RewindInv, Grows

LEMMA InitRewind == RewindInit => RewindInv
<1> SUFFICES ASSUME RewindInit PROVE RewindInv
  OBVIOUS
<1>1. /\ setup \in [auto : BOOLEAN, hasUI : BOOLEAN]
      /\ session = [parent |-> <<>>, leaf |-> 0, turn |-> FALSE]
      /\ workspace = 1 /\ edits = 1 /\ repo = [commits |-> <<>>, head |-> 0, index |-> 0]
      /\ rt = [checkpoints |-> None, pending |-> NoPending] /\ disk = None
      /\ ops = [h \in Handlers |-> IF h = "pi" /\ setup.auto THEN Checkpointing("event", 0) ELSE Resting]
  BY DEF RewindInit
<1>2. NEntries = 0 /\ NCommits = 0 /\ session.leaf = 0
  BY <1>1 DEF NEntries, NCommits
<1>3. WorldInv
  <2>1. session \in [parent : Seq(Nat), leaf : Nat, turn : BOOLEAN]
    BY <1>1
  <2>2. repo \in [commits : Seq(Nat), head : Nat, index : Nat]
    BY <1>1
  <2> QED
    BY <1>1, <1>2, <2>1, <2>2, RewindAssumption DEF WorldInv
<1>4. StoreInv
  <2>1. None \in [Entries -> 0..NCommits]
    BY <1>2 DEF None
  <2>2. NoPending \in [target : Nat, commit : 0..NCommits, seen : 0..edits, chosen : Answers]
    BY <1>1, <1>2 DEF NoPending, Answers
  <2> QED
    BY <1>1, <2>1, <2>2 DEF StoreInv
<1>5. PendingInv
  BY <1>1 DEF PendingInv, Safe, NoPending
<1>6. OpsInv
  <2>1. /\ Checkpointing("event", 0) \in Operation
        /\ Checkpointing("event", 0).pc = "add" /\ Checkpointing("event", 0).kind = "event"
        /\ Checkpointing("event", 0).entry = 0 /\ Checkpointing("event", 0).target = 0
        /\ Checkpointing("event", 0).commit = 0 /\ Checkpointing("event", 0).seen = 0
        /\ Checkpointing("event", 0).first = 0 /\ Checkpointing("event", 0).answered = "none"
    BY RestIsAnOp DEF Checkpointing, Operation, Pcs, Kinds
  <2>2. ASSUME NEW h \in Handlers
        PROVE  /\ ops[h] \in Operation
               /\ ops[h].pc \in {"add", "rest"} /\ ops[h].kind \in {"event", "none"}
               /\ ops[h].entry = 0 /\ ops[h].target = 0
               /\ ops[h].commit = 0 /\ ops[h].seen = 0 /\ ops[h].first = 0 /\ ops[h].answered = "none"
               /\ ops[h].pc = "add" => h = "pi"
    <3>1. ops[h] = Resting \/ (h = "pi" /\ ops[h] = Checkpointing("event", 0))
      BY <1>1
    <3> QED
      BY <2>1, <3>1, RestIsAnOp
  <2>3. ASSUME NEW h \in Handlers PROVE OpInv(ops[h])
    <3>1. TypedOp(ops[h])
      BY <1>1, <1>2, <2>2 DEF TypedOp
    <3>2. AimedOp(ops[h]) /\ SafeOp(ops[h]) /\ AskedOp(ops[h]) /\ AloneOp(ops[h])
      BY <2>2 DEF AimedOp, SafeOp, AskedOp, AloneOp, Restores, Looking
    <3> QED
      BY <3>1, <3>2 DEF OpInv
  <2> QED
    BY <1>1, <2>2, <2>3 DEF OpsInv, Free
<1> QED
  BY <1>3, <1>4, <1>5, <1>6 DEF RewindInv

LEMMA NextRewind == RewindInv /\ [RewindNext]_rewindVars => RewindInv'
<1> SUFFICES ASSUME RewindInv, [RewindNext]_rewindVars PROVE RewindInv'
  OBVIOUS
<1>1. CASE UNCHANGED rewindVars
  <2>1. UNCHANGED <<setup, session, workspace, edits, repo, rt, disk, ops>>
    BY <1>1 DEF rewindVars
  <2> QED
    BY <2>1, Unmoved, StoreStays, NothingBegun DEF RewindInv
<1>2. CASE TurnBounds \/ AppendEntry \/ EditFiles \/ Restart
  BY <1>2, TurnBoundsKeeps, AppendEntryKeeps, EditFilesKeeps, RestartKeeps
<1>3. CASE AskTree \/ AskFork \/ AskCommand \/ RewindCheckpoint
  BY <1>3, AsksKeep
<1>4. ASSUME NEW h \in Handlers, \/ Add(h) \/ Diff(h) \/ CommitIndex(h) \/ Map(h) \/ SaveState(h) \/ Status(h)
                                 \/ Choose(h) \/ Confirm(h) \/ Navigate(h) \/ ResetFiles(h) \/ Fails(h)
      PROVE  RewindInv'
  BY <1>4, AddKeeps, DiffKeeps, CommitIndexKeeps, MapKeeps, SaveStateKeeps, StatusKeeps,
     ChooseKeeps, ConfirmKeeps, NavigateKeeps, ResetFilesKeeps, FailsKeeps
<1> QED
  BY <1>1, <1>2, <1>3, <1>4 DEF RewindNext

\* Only the state file's turn comes after a reset, or after a checkpoint is mapped.
LEMMA SavedBy ==
  ASSUME RewindInv, RewindNext, NEW h \in Handlers,
         ops[h].pc \in {"map", "reset"}, ops'[h].pc = "save"
  PROVE  IF ops[h].pc = "map" THEN Map(h) ELSE ResetFiles(h)
<1>0. DOMAIN ops = Handlers /\ \A g \in Handlers : ops[g] \in Operation
  BY DEF RewindInv, OpsInv, OpInv, TypedOp
<1>1. Resting.pc = "rest" /\ \A kind, entry : Checkpointing(kind, entry).pc = "add"
  BY DEF Resting, Checkpointing
<1>2. ASSUME NEW g \in Handlers, NEW it, Begin(g, it) PROVE FALSE
  <2>1. g # h /\ ops'[h] = [ops[h] EXCEPT !.alone = (h = g \/ @) /\ \E i \in Handlers \ {g} : Free(i)]
    BY <1>2 DEF Begin, Free
  <2>2. ops'[h].pc = ops[h].pc
    BY <1>0, <2>1 DEF Operation
  <2> QED
    BY <2>2
<1>3. ops'[h] # ops[h]
  OBVIOUS
<1>4. CASE TurnBounds \/ AskTree \/ AskFork \/ AskCommand \/ RewindCheckpoint
  BY <1>2, <1>3, <1>4 DEF TurnBounds, AskTree, AskFork, AskCommand, RewindCheckpoint, Handlers
<1>5. CASE AppendEntry \/ EditFiles
  BY <1>3, <1>5 DEF AppendEntry, EditFiles
<1>6. CASE Restart
  <2>1. ops'[h].pc \in {"add", "rest"}
    BY <1>1, <1>6 DEF Restart
  <2> QED
    BY <2>1
<1>7. ASSUME NEW g \in Handlers, NEW it, Becomes(g, it) PROVE g = h /\ ops'[h] = it
  BY <1>0, <1>3, <1>7 DEF Becomes
<1>8. ASSUME NEW g \in Handlers, Rest(g) PROVE FALSE
  <2>1. ops'[h] = [Resting EXCEPT !.alone = TRUE]
    BY <1>7, <1>8 DEF Rest
  <2>2. ops'[h].pc = "rest"
    BY <2>1, RestIsAnOp DEF Operation
  <2> QED
    BY <2>2
<1>9. ASSUME NEW g \in Handlers, ops[g].pc \notin {"map", "reset"} PROVE ~(\E it : Becomes(g, it))
  BY <1>7, <1>9
<1>10. ASSUME NEW g \in Handlers, Add(g) \/ Diff(g) \/ CommitIndex(g) \/ SaveState(g) \/ Status(g) \/ Choose(g)
                                  \/ Confirm(g) \/ Navigate(g) \/ Fails(g)
       PROVE  FALSE
  <2>1. ~Rest(g)
    BY <1>8, <1>10
  <2>2. CASE Add(g) \/ Diff(g) \/ CommitIndex(g) \/ SaveState(g)
    BY <1>9, <2>1, <2>2 DEF Add, Diff, CommitIndex, SaveState, Step
  <2>3. CASE Status(g) \/ Choose(g)
    BY <1>9, <2>1, <2>3 DEF Status, Choose
  <2>4. CASE Confirm(g) \/ Navigate(g) \/ Fails(g)
    BY <1>9, <2>1, <2>4 DEF Confirm, Navigate, Fails
  <2> QED
    BY <1>10, <2>2, <2>3, <2>4
<1>11. ASSUME NEW g \in Handlers, Map(g) \/ ResetFiles(g) PROVE g = h
  BY <1>7, <1>11 DEF Map, ResetFiles, Step
<1>12. CASE \E g \in Handlers : Map(g) \/ ResetFiles(g)
  BY <1>11, <1>12 DEF Map, ResetFiles
<1> QED
  BY <1>4, <1>5, <1>6, <1>10, <1>12 DEF RewindNext

LEMMA ResetShown ==
  ASSUME RewindInv, NEW h \in Handlers, ResetFiles(h)
  PROVE  /\ setup.hasUI
         /\ workspace \in Range(repo.commits) \/ workspace # ops[h].seen \/ ops[h].chosen = "discard"
         /\ ops[h].answered = "yes" => workspace' = repo.commits[ops[h].first]
<1>1. /\ AimedOp(ops[h]) /\ SafeOp(ops[h]) /\ AskedOp(ops[h]) /\ ops[h].pc = "reset"
      /\ workspace' = repo.commits[ops[h].commit]
  BY AtCommand DEF ResetFiles
<1>2. Kept => workspace \in Range(repo.commits)
  BY DEF Kept, NCommits, Range, RewindInv, WorldInv
<1> QED
  BY <1>1, <1>2 DEF AimedOp, SafeOp, Safe, AskedOp

LEMMA MapShown ==
  ASSUME RewindInv, NEW h \in Handlers, Map(h), ops[h].alone, ops[h].entry > 0
  PROVE  \E c \in DOMAIN repo.commits : c = rt'.checkpoints[ops[h].entry] /\ repo.commits[c] = ops[h].added
<1>1. /\ ops[h].pc = "map" /\ WorldInv /\ StoreInv /\ TypedOp(ops[h]) /\ AloneOp(ops[h]) /\ NEntries <= MaxEntries
      /\ rt' = [rt EXCEPT !.checkpoints[ops[h].entry] = IF ops[h].entry > 0 /\ repo.head > 0 THEN repo.head ELSE @]
  BY AtCommand DEF Map, WorldInv
<1>2. repo.head > 0 /\ repo.commits[repo.head] = ops[h].added
  BY <1>1 DEF AloneOp
<1>3. ops[h].entry \in Entries
  <2>1. ops[h].entry \in Nat /\ ops[h].entry <= NEntries /\ NEntries \in Nat
    BY <1>1 DEF TypedOp, Operation, WorldInv, NEntries
  <2> QED
    BY <1>1, <2>1, RewindAssumption DEF Entries
<1>4. rt'.checkpoints[ops[h].entry] = repo.head
  BY <1>1, <1>2, <1>3 DEF StoreInv
<1>5. repo.head \in DOMAIN repo.commits
  BY <1>1, <1>2 DEF WorldInv, NCommits
<1> QED
  BY <1>2, <1>4, <1>5

LEMMA RewindShown ==
  ASSUME RewindInv, [RewindNext]_rewindVars
  PROVE  /\ [\A h \in Handlers : Resets(h) =>
              /\ setup.hasUI
              /\ workspace \in Range(repo.commits) \/ workspace # ops[h].seen \/ ops[h].chosen = "discard"]_rewindVars
         /\ [\A h \in Handlers : Resets(h) /\ ops[h].answered = "yes"
               => workspace' = repo.commits[ops[h].first]]_rewindVars
         /\ [\A h \in Handlers : LET it == ops[h]
               IN it.pc = "map" /\ ops'[h].pc = "save" /\ it.alone /\ it.entry > 0
                    => \E c \in DOMAIN repo.commits : c = rt'.checkpoints[it.entry] /\ repo.commits[c] = it.added]_rewindVars
<1>1. CASE UNCHANGED rewindVars
  BY <1>1
<1>2. CASE RewindNext
  <2>1. ASSUME NEW h \in Handlers, Resets(h) PROVE ResetFiles(h)
    BY <1>2, <2>1, SavedBy DEF Resets
  <2>2. ASSUME NEW h \in Handlers, ops[h].pc = "map", ops'[h].pc = "save" PROVE Map(h)
    BY <1>2, <2>2, SavedBy
  <2> QED
    BY <2>1, <2>2, ResetShown, MapShown
<1> QED
  BY <1>1, <1>2

LEMMA RewindTyped == RewindInv => RewindTypeOK
BY RewindAssumption DEF RewindInv, WorldInv, StoreInv, RewindTypeOK, NEntries, NCommits
-----------------------------------------------------------------------------
(* Moving and splitting a session *)

MoveSpec == MoveInit /\ [][MoveNext]_moveVars

\* What files, memories and the command in progress are made of.
IsFile(f) == f = [cwd |-> f.cwd, turns |-> f.turns, aside |-> f.aside] /\ f.turns \in Seq(Turns)
IsMemory(m) == m = [exists |-> m.exists, said |-> m.said] /\ m.exists \in BOOLEAN /\ m.said \in Seq(Messages)
OpTyped(o) ==
  /\ o = [pc |-> o.pc, cmd |-> o.cmd, lines |-> o.lines, msgs |-> o.msgs, expected |-> o.expected,
          raw |-> o.raw, read |-> o.read, head |-> o.head, saved |-> o.saved, merge |-> o.merge,
          clean |-> o.clean]
  /\ IsFile(o.lines) /\ o.saved \in BOOLEAN /\ o.clean \in BOOLEAN
  /\ o.msgs \in Seq(Messages) /\ o.expected \in Seq(Messages) /\ o.raw \in Seq(Messages)
  /\ o.read \in Seq(Messages) /\ o.head \in Seq(Messages)
FilesTyped(f) ==
  /\ f = [source |-> f.source, dest |-> f.dest, tail |-> f.tail]
  /\ IsFile(f.source) /\ IsFile(f.dest) /\ IsFile(f.tail)
MemoryTyped(m) ==
  /\ m = [from |-> m.from, to |-> m.to, tail |-> m.tail]
  /\ IsMemory(m.from) /\ IsMemory(m.to) /\ IsMemory(m.tail)
MoveTyped ==
  /\ FilesTyped(files) /\ MemoryTyped(memory) /\ OpTyped(op)
  /\ backups = [pi |-> backups.pi, honcho |-> backups.honcho]
  /\ agent = [working |-> agent.working, lag |-> agent.lag]
  /\ agent.working \in Seq(Turns) /\ agent.lag \subseteq Turns /\ visitors \subseteq Messages
  /\ ever = [turns |-> ever.turns, uploads |-> ever.uploads]

\* Which command is at which step, where a split cuts, and which steps come before the
\* file is in its new place, before the memory is read to be deleted, and after that.
SplitSteps == SplitTry \union Restoring
Early == MoveTry \union {"gate", "approve", "backup"}
Unread == {"plan", "gate", "approve", "backup", "addTail", "checkTail", "readHead"}
Heads == {"deleteHead", "restoreHead", "refillHead"}
PlacedMove ==
  /\ op.pc # "idle" => op.cmd.kind \in {"move", "split"}
  /\ op.pc \in SplitSteps => op.cmd.kind = "split"
  /\ op.pc = "delete" => op.cmd.kind = "move"
  /\ op.cmd.kind = "split" => op.cmd.cut \in 1..Len(op.lines.turns)
  /\ op.cmd.kind = "move" /\ op.pc \in Early => files.dest = NoFile
  /\ op.pc \in Unread => ~op.saved
  /\ op.pc \in Heads => op.saved

\* Everything uploaded is in one of the two memories, or in the copy that a delete
\* was preceded by.
Uploaded == ToSet(memory.from.said) \union ToSet(memory.to.said) \union backups.honcho
CopiedMemory ==
  /\ ever.uploads \ gone \subseteq Uploaded
  /\ op.pc = "delete" \/ (op.cmd.kind = "split" /\ op.saved) => ToSet(op.raw) \subseteq backups.honcho

\* Every turn is in the session's file or in its new place, or in a copy; and once the
\* command has Started, without the session's file.
CopiedFile == (UNION {Elements(f) : f \in backups.pi}) \union Elements(files.dest)
CopiedTranscript ==
  /\ ever.turns \subseteq CopiedFile \union Elements(files.source)
  /\ Started => ever.turns \subseteq CopiedFile

\* What was read when the split was planned is where the rollback will find it.
ReadIsKept ==
  op.cmd.kind = "split" =>
    ToSet(op.read) \subseteq IF op.saved THEN ToSet(op.raw) ELSE ToSet(memory.from.said)
\* What a rollback has given back so far, if nothing of it failed.
RestoredFile == Elements(op.lines) \subseteq Elements(files.source)
RollbackSoFar ==
  op.clean =>
    /\ op.pc \in Restoring \union {"idle"}
    /\ op.pc \in {"unlinkTail", "restoreTail", "restoreHead", "refillHead"} => RestoredFile
    /\ op.pc \in {"restoreTail", "restoreHead", "refillHead"} => files.tail = NoFile
    /\ op.pc \in {"restoreHead", "refillHead"} => ~memory.tail.exists
NotRolledBack == Started => manifest # "failed_rolled_back"

MoveInv ==
  /\ MoveTyped /\ PlacedMove /\ CopiedMemory /\ CopiedTranscript
  /\ ReadIsKept /\ RollbackSoFar /\ NotRolledBack /\ RollbackRestores

\* And a bounded one has a greatest.
LEMMA GreatestExists ==
  ASSUME NEW n \in Nat, NEW S \in SUBSET (0..n), S # {}
  PROVE  Max(S) \in S
<1> DEFINE T == {m \in 0..n : n - m \in S}
<1>1. T \in SUBSET Nat /\ T # {}
  <2>1. PICK x \in S : TRUE
    OBVIOUS
  <2>2. n - x \in 0..n /\ n - (n - x) = x
    OBVIOUS
  <2>3. n - x \in T /\ T \subseteq 0..n
    BY <2>1, <2>2
  <2> HIDE DEF T
  <2> QED
    BY <2>3
<1>2. PICK m \in T : \A k \in T : m =< k
  <2> HIDE DEF T
  <2> QED
    BY <1>1, LeastExists
<1>3. ASSUME NEW y \in S
      PROVE  n - m >= y
  <2>1. n - y \in 0..n /\ n - (n - y) = y
    OBVIOUS
  <2>2. n - y \in T
    BY <2>1
  <2>3. m \in Nat /\ y \in Nat
    OBVIOUS
  <2>4. m =< n - y
    <3> HIDE DEF T
    <3> QED
      BY <1>2, <2>2
  <2> HIDE DEF T
  <2> QED
    BY <2>3, <2>4
<1>4. n - m \in S
  BY <1>2
<1> QED
  BY <1>3, <1>4 DEF Max

\* What is uploaded of a text is a list of messages, and so are what a memory is made
\* of, what it lacks and what it has of others.
LEMMA FlattenIsList ==
  ASSUME NEW B, NEW ss \in Seq(Seq(B))
  PROVE  FlattenSeq(ss) \in Seq(B)
<1> DEFINE N == Len(ss)
           X == Seq(B)
           G == [k \in 1..N |-> [h \in X |-> h \o ss[k]]]
           Body(f) == [i \in 1..N |-> IF i = 1 THEN ss[i] ELSE f[i - 1] \o ss[i]]
<1>1. N \in Nat /\ <<>> \in X /\ \A k \in 1..N : ss[k] \in X /\ <<>> \o ss[k] = ss[k]
  BY EmptySeq, ConcatEmptySeq
<1>2. CASE N = 0
  BY <1>1, <1>2 DEF FlattenSeq
<1>3. CASE N # 0
  <2>1. \A h \in X, k \in 1..N : h \o ss[k] \in X /\ G[k][h] = h \o ss[k]
    <3>1. \A h \in X, k \in 1..N : h \o ss[k] \in X
      BY <1>1, ConcatProperties
    <3> HIDE DEF X
    <3> QED
      BY <3>1
  <2>2. G \in [1..N -> [X -> X]]
    <3> HIDE DEF X
    <3> QED
      BY <2>1
  <2> HIDE DEF G, X
  <2>3. PICK g : Computes(g, X, N, <<>>, G)
    <3> HIDE DEF N
    <3> QED
      BY <1>1, <2>2, Recursion
  <2> DEFINE g1 == [i \in 1..N |-> g[i]]
  <2>4. g1 = Body(g1)
    <3>1. ASSUME NEW i \in 1..N
          PROVE  g1[i] = IF i = 1 THEN ss[i] ELSE g1[i - 1] \o ss[i]
      <4> HIDE DEF N
      <4>1. i - 1 \in 0..N /\ (i # 1 => i - 1 \in 1..N) /\ (i = 1 => g[i - 1] = <<>>)
        BY <1>1, <2>3 DEF Computes
      <4>2. g[i - 1] \in X /\ g[i] = G[i][g[i - 1]]
        BY <2>3, <4>1 DEF Computes
      <4>3. g[i] = g[i - 1] \o ss[i]
        BY <2>1, <4>2
      <4> QED
        BY <1>1, <4>1, <4>3
    <3> QED
      BY <3>1
  <2> DEFINE flatten == CHOOSE f : f = Body(f)
  <2>5. flatten = Body(flatten)
    BY <2>4
  <2>6. FlattenSeq(ss) = flatten[N]
    BY <1>3 DEF FlattenSeq
  <2> DEFINE T == {k \in 0..N : k = 0 \/ flatten[k] \in X}
  <2> HIDE DEF flatten
  <2>7. 0 \in T
    BY <1>1
  <2>8. ASSUME NEW k \in 0..N, k \in T, k < N
        PROVE  k + 1 \in T
    <3>1. k + 1 \in 1..N /\ k + 1 \in 0..N /\ (k + 1) - 1 = k /\ (k = 0 <=> k + 1 = 1)
      BY <1>1, <2>8
    <3>2. flatten[k + 1] = IF k + 1 = 1 THEN ss[k + 1] ELSE flatten[(k + 1) - 1] \o ss[k + 1]
      <4>1. flatten[k + 1] = Body(flatten)[k + 1]
        BY <2>5
      <4> QED
        BY <3>1, <4>1
    <3> HIDE DEF N
    <3>3. k # 0 => flatten[k] \o ss[k + 1] \in X
      BY <2>1, <2>8, <3>1
    <3> QED
      BY <1>1, <3>1, <3>2, <3>3
  <2>9. 0..N \subseteq T
    <3> HIDE DEF T
    <3> QED
      BY <1>1, <2>7, <2>8, Counting
  <2> QED
    BY <1>1, <1>3, <2>6, <2>9 DEF X
<1> QED
  BY <1>2, <1>3

\* The turns of a session, also with those of a migration under way.
SomeTurns == [text : DOMAIN Chunks, at : Nat, late : BOOLEAN]
LEMMA RebuildIsList ==
  ASSUME NEW list \in Seq(SomeTurns)
  PROVE  RebuildMessages(list) \in Seq(Messages)
<1> DEFINE pieces == [i \in DOMAIN list |->
             [j \in DOMAIN Chunks[list[i].text] |-> [list[i] EXCEPT !.text = Chunks[list[i].text][j]]]]
<1>1. ASSUME NEW i \in DOMAIN list
      PROVE  [j \in DOMAIN Chunks[list[i].text] |-> [list[i] EXCEPT !.text = Chunks[list[i].text][j]]] \in Seq(Messages)
  <2>1. list[i] \in SomeTurns
    BY <1>1
  <2>2. Chunks[list[i].text] \in Seq(STRING)
    BY <2>1, MoveAssumption DEF SomeTurns
  <2> DEFINE c == Chunks[list[i].text]
             t == list[i]
  <2>3. \A j \in 1..Len(c) : [t EXCEPT !.text = c[j]] \in Messages
    <3>1. ASSUME NEW j \in 1..Len(c) PROVE c[j] \in STRING
      BY <2>2
    <3> HIDE DEF c, t
    <3>2. t \in SomeTurns
      BY <2>1 DEF t
    <3> QED
      BY <3>1, <3>2 DEF SomeTurns, Messages
  <2>4. DOMAIN c = 1..Len(c) /\ Len(c) \in Nat
    BY <2>2
  <2> HIDE DEF c, t
  <2>5. [j \in 1..Len(c) |-> [t EXCEPT !.text = c[j]]] \in Seq(Messages)
    BY <2>3, <2>4, IsASeq
  <2> QED
    BY <2>4, <2>5 DEF c, t
<1>2. pieces \in Seq(Seq(Messages))
  <2>1. DOMAIN list = 1..Len(list) /\ Len(list) \in Nat
    OBVIOUS
  <2> QED
    BY <1>1, <2>1, IsASeq
<1> QED
  BY <1>2, FlattenIsList DEF RebuildMessages

LEMMA AlignIsList ==
  ASSUME NEW msgs \in Seq(Messages), NEW source \in Seq(Messages)
  PROVE  Align(msgs, source).out \in Seq(Messages)
<1> DEFINE Taken(i) == {j \in DOMAIN source : source[j].text = msgs[i].text /\ Nth(source, j) = Nth(msgs, i)}
           Pick(i) == IF Taken(i) = {} THEN msgs[i] ELSE source[CHOOSE j \in Taken(i) : TRUE]
<1>1. DOMAIN msgs = 1..Len(msgs) /\ Len(msgs) \in Nat
  OBVIOUS
<1>2. ASSUME NEW i \in 1..Len(msgs)
      PROVE  Pick(i) \in Messages
  <2>1. Taken(i) # {} => (CHOOSE j \in Taken(i) : TRUE) \in DOMAIN source
    OBVIOUS
  <2> HIDE DEF Taken
  <2> QED
    BY <2>1, <1>1
<1>3. Align(msgs, source).out = [i \in DOMAIN msgs |-> Pick(i)]
  BY DEF Align
<1> HIDE DEF Pick
<1> QED
  BY <1>1, <1>2, <1>3, IsASeq

LEMMA MissingIsList ==
  ASSUME NEW msgs \in Seq(Messages), NEW target
  PROVE  Missing(msgs, target) \in Seq(Messages)
<1> DEFINE S == {m \in ToSet(msgs) : m.text \notin Texts(target)}
<1>1. Filtered(msgs, S) \in Seq(S \intersect Messages)
  BY FilterKeeps
<1>2. Filtered(msgs, S) \in Seq(Messages)
  <2> HIDE DEF S
  <2> QED
    BY <1>1
<1> QED
  BY <1>2 DEF Missing

LEMMA UnmatchedAreIndices ==
  ASSUME NEW source \in Seq(Messages), NEW msgs
  PROVE  Unmatched(source, msgs) \in Seq(1..Len(source))
<1> DEFINE ids == [i \in DOMAIN source |-> i]
           S == DOMAIN source \ Align(msgs, source).used
<1>1. ids \in Seq(1..Len(source))
  <2>1. DOMAIN source = 1..Len(source) /\ Len(source) \in Nat
    OBVIOUS
  <2> QED
    BY <2>1, IsASeq
<1>2. Filtered(ids, S) \in Seq(S \intersect 1..Len(source))
  <2> HIDE DEF ids, S
  <2> QED
    BY <1>1, FilterKeeps
<1>3. Filtered(ids, S) \in Seq(1..Len(source))
  <2> HIDE DEF ids, S
  <2> QED
    BY <1>2
<1> QED
  BY <1>3 DEF Unmatched

LEMMA ResidualIsList ==
  ASSUME NEW source \in Seq(Messages), NEW msgs
  PROVE  Residual(source, msgs) \in Seq(Messages)
<1> DEFINE rest == Unmatched(source, msgs)
<1>1. rest \in Seq(1..Len(source))
  BY UnmatchedAreIndices
<1> HIDE DEF rest
<1>2. DOMAIN rest = 1..Len(rest) /\ Len(rest) \in Nat /\ \A i \in 1..Len(rest) : source[rest[i]] \in Messages
  BY <1>1
<1>3. [i \in DOMAIN rest |-> source[rest[i]]] \in Seq(Messages)
  BY <1>2, IsASeq
<1> QED
  BY <1>3 DEF Residual, rest

LEMMA LatestIsMessage ==
  ASSUME NEW out \in Seq(Messages), NEW t, {i \in DOMAIN out : out[i].text = t} # {}
  PROVE  out[Max({i \in DOMAIN out : out[i].text = t})] \in Messages
<1> DEFINE Of == {i \in DOMAIN out : out[i].text = t}
<1>1. DOMAIN out = 1..Len(out) /\ Len(out) \in Nat
  OBVIOUS
<1>2. Of \subseteq 0..Len(out) /\ Of # {} /\ Of \subseteq DOMAIN out
  BY <1>1
<1> HIDE DEF Of
<1>3. Max(Of) \in DOMAIN out
  BY <1>1, <1>2, GreatestExists
<1>4. \A g \in DOMAIN out : out[g] \in Messages
  BY <1>1
<1> QED
  BY <1>3, <1>4 DEF Of

\* What of its own the head keeps is there as the latest message with that text.
LEMMA PlanParts ==
  ASSUME NEW source \in Seq(Messages), NEW headMsgs \in Seq(Messages), NEW tailMsgs
  PROVE  \E kept \in Seq(Messages) :
           PlanHead(source, headMsgs, tailMsgs) = kept \o Missing(Align(headMsgs, source).out, kept)
<1> DEFINE head == Align(headMsgs, source)
           rest == Unmatched(source, tailMsgs)
           Of(t) == {i \in DOMAIN head.out : head.out[i].text = t}
           Latest(t) == head.out[Max(Of(t))]
           kept == [i \in DOMAIN rest |->
                      IF rest[i] \in head.used THEN Latest(source[rest[i]].text) ELSE source[rest[i]]]
<1>1. head.out \in Seq(Messages) /\ rest \in Seq(1..Len(source))
  BY AlignIsList, UnmatchedAreIndices
<1>2. ASSUME NEW j \in head.used
      PROVE  Of(source[j].text) # {}
  <2> DEFINE Taken(i) == {k \in DOMAIN source : source[k].text = headMsgs[i].text /\ Nth(source, k) = Nth(headMsgs, i)}
  <2>1. /\ head.used = UNION {Taken(i) : i \in DOMAIN headMsgs}
        /\ head.out = [i \in DOMAIN headMsgs |->
                         IF Taken(i) = {} THEN headMsgs[i] ELSE source[CHOOSE k \in Taken(i) : TRUE]]
    BY DEF Align
  <2>2. PICK i \in DOMAIN headMsgs : j \in Taken(i)
    BY <1>2, <2>1
  <2>3. source[j].text = headMsgs[i].text /\ (CHOOSE k \in Taken(i) : TRUE) \in Taken(i)
    BY <2>2
  <2>4. head.out[i] = source[CHOOSE k \in Taken(i) : TRUE] /\ i \in DOMAIN head.out
    <3> HIDE DEF Taken, head
    <3> QED
      BY <2>1, <2>2
  <2>5. head.out[i].text = source[j].text
    <3> HIDE DEF head
    <3> QED
      BY <2>3, <2>4
  <2> HIDE DEF head
  <2> QED
    BY <2>4, <2>5
<1>3. ASSUME NEW t, Of(t) # {}
      PROVE  Latest(t) \in Messages
  <2> HIDE DEF head
  <2> QED
    BY <1>1, <1>3, LatestIsMessage
<1>4. kept \in Seq(Messages)
  <2>1. ASSUME NEW i \in 1..Len(rest)
        PROVE  (IF rest[i] \in head.used THEN Latest(source[rest[i]].text) ELSE source[rest[i]]) \in Messages
    <3>1. rest[i] \in 1..Len(source)
      BY <1>1
    <3>2. source[rest[i]] \in Messages
      BY <3>1
    <3> HIDE DEF head, Of, Latest
    <3> QED
      BY <1>2, <1>3, <3>2
  <2> HIDE DEF head, Latest, rest
  <2>2. DOMAIN rest = 1..Len(rest) /\ Len(rest) \in Nat
    BY <1>1
  <2> QED
    BY <2>1, <2>2, IsASeq
<1>5. PlanHead(source, headMsgs, tailMsgs) = kept \o Missing(head.out, kept)
  BY DEF PlanHead
<1> QED
  BY <1>4, <1>5, Zenon

LEMMA PlanIsList ==
  ASSUME NEW source \in Seq(Messages), NEW headMsgs \in Seq(Messages), NEW tailMsgs
  PROVE  PlanHead(source, headMsgs, tailMsgs) \in Seq(Messages)
<1>1. PICK kept \in Seq(Messages) :
        PlanHead(source, headMsgs, tailMsgs) = kept \o Missing(Align(headMsgs, source).out, kept)
  BY PlanParts
<1>2. Missing(Align(headMsgs, source).out, kept) \in Seq(Messages)
  BY AlignIsList, MissingIsList
<1> QED
  BY <1>1, <1>2, ConcatProperties

LEMMA ElementsOfBoth ==
  ASSUME NEW S, NEW s \in Seq(S), NEW t \in Seq(S)
  PROVE  s \o t \in Seq(S) /\ ToSet(s \o t) = ToSet(s) \union ToSet(t)
<1>1. /\ s \o t \in Seq(S) /\ Len(s) \in Nat /\ Len(t) \in Nat /\ Len(s \o t) = Len(s) + Len(t)
      /\ \A i \in 1..Len(s) : (s \o t)[i] = s[i]
      /\ \A i \in 1..Len(t) : (s \o t)[Len(s) + i] = t[i]
  BY ConcatProperties
<1>2. DOMAIN s = 1..Len(s) /\ DOMAIN t = 1..Len(t) /\ DOMAIN (s \o t) = 1..(Len(s) + Len(t))
  BY <1>1
<1>3. ToSet(s) \subseteq ToSet(s \o t)
  <2>1. ASSUME NEW i \in 1..Len(s) PROVE i \in DOMAIN (s \o t) /\ (s \o t)[i] = s[i]
    BY <1>1, <1>2
  <2> QED
    BY <1>2, <2>1 DEF ToSet
<1>4. ToSet(t) \subseteq ToSet(s \o t)
  <2>1. ASSUME NEW i \in 1..Len(t) PROVE Len(s) + i \in DOMAIN (s \o t) /\ (s \o t)[Len(s) + i] = t[i]
    BY <1>1, <1>2
  <2> QED
    BY <1>2, <2>1 DEF ToSet
<1>5. ToSet(s \o t) \subseteq ToSet(s) \union ToSet(t)
  <2>1. ASSUME NEW i \in DOMAIN (s \o t) PROVE (s \o t)[i] \in ToSet(s) \union ToSet(t)
    <3>1. CASE i =< Len(s)
      <4>1. i \in DOMAIN s /\ (s \o t)[i] = s[i]
        BY <1>1, <1>2, <2>1, <3>1
      <4> QED
        BY <4>1 DEF ToSet
    <3>2. CASE ~(i =< Len(s))
      <4>1. i - Len(s) \in DOMAIN t /\ Len(s) + (i - Len(s)) = i
        BY <1>1, <1>2, <2>1, <3>2
      <4>2. (s \o t)[i] = t[i - Len(s)]
        BY <1>1, <1>2, <4>1
      <4> QED
        BY <4>1, <4>2 DEF ToSet
    <3> QED
      BY <3>1, <3>2
  <2> QED
    BY <2>1 DEF ToSet
<1> QED
  BY <1>1, <1>3, <1>4, <1>5

LEMMA BatchesAreLists ==
  ASSUME NEW s \in Seq(Messages), NEW p \in Batches(s)
  PROVE  p \in Seq(Messages)
<1>1. Len(s) \in Nat
  OBVIOUS
<1>2. PICK n \in 0..(Len(s) - 1) : p = SubSeq(s, 1, n)
  BY DEF Batches
<1>3. n \in Int /\ \A i \in 1..n : s[i] \in Messages
  BY <1>1, <1>2
<1> QED
  BY <1>2, <1>3, SubSeqProperties

LEMMA HeadAndTail ==
  ASSUME NEW B, NEW s \in Seq(B), NEW n \in 1..Len(s)
  PROVE  HeadOf(s, n) \in Seq(B) /\ TailOf(s, n) \in Seq(B)
<1>1. Len(s) \in Nat
  OBVIOUS
<1>2. \A i \in 1..(n - 1) : s[i] \in B
  BY <1>1
<1>3. \A i \in n..Len(s) : s[i] \in B
  BY <1>1
<1> QED
  BY <1>1, <1>2, <1>3, SubSeqProperties DEF HeadOf, TailOf

LEMMA TurnsAreSome == \A s \in Seq(Turns) : s \in Seq(SomeTurns)
<1>1. Turns \subseteq SomeTurns
  BY DEF Turns, SomeTurns
<1> QED
  BY <1>1

\* A command that goes on, or has to be rolled back, is still the same one.
SameCommand ==
  /\ op'.cmd = op.cmd /\ op'.lines = op.lines /\ op'.msgs = op.msgs /\ op'.expected = op.expected
  /\ op'.raw = op.raw /\ op'.read = op.read /\ op'.head = op.head /\ op'.saved = op.saved

LEMMA GoesOn ==
  ASSUME OpTyped(op), NEW p, Go(p)
  PROVE  OpTyped(op') /\ op'.pc = p /\ SameCommand /\ op'.clean = op.clean /\ op'.merge = op.merge
BY DEF OpTyped, Go, SameCommand

LEMMA RollsBack ==
  ASSUME OpTyped(op), Restore
  PROVE  OpTyped(op') /\ op'.pc = "restoreFile" /\ SameCommand /\ op'.clean = TRUE
BY DEF OpTyped, Restore, SameCommand

LEMMA OpFields ==
  ASSUME OpTyped(op)
  PROVE  /\ IsFile(op.lines) /\ op.lines.turns \in Seq(Turns) /\ op.lines.turns \in Seq(SomeTurns)
         /\ op.msgs \in Seq(Messages) /\ op.expected \in Seq(Messages) /\ op.raw \in Seq(Messages)
         /\ op.read \in Seq(Messages) /\ op.head \in Seq(Messages) /\ op.saved \in BOOLEAN
BY TurnsAreSome DEF OpTyped, IsFile

LEMMA NothingTyped == IsFile(NoFile) /\ IsMemory(NoMemory) /\ OpTyped(Idle)
<1>1. IsFile(NoFile)
  BY DEF NoFile, IsFile
<1>2. IsMemory(NoMemory)
  BY DEF NoMemory, IsMemory
<1>3. OpTyped(Idle)
  BY <1>1 DEF OpTyped, Idle
<1> QED
  BY <1>1, <1>2, <1>3

\* What is added to a memory stays a memory, and keeps what it said.
LEMMA AddsKeep ==
  ASSUME MoveTyped, NEW k \in {"from", "to", "tail"}, NEW ms \in Seq(Messages), Adds(k, ms)
  PROVE  /\ MemoryTyped(memory')
         /\ ToSet(memory'[k].said) = ToSet(memory[k].said) \union ToSet(ms) /\ memory'[k].exists
         /\ \A j \in {"from", "to", "tail"} \ {k} : memory'[j] = memory[j]
<1>1. memory[k].said \in Seq(Messages) /\ MemoryTyped(memory)
  BY DEF MoveTyped, MemoryTyped, IsMemory
<1>2. /\ memory[k].said \o ms \in Seq(Messages)
      /\ ToSet(memory[k].said \o ms) = ToSet(memory[k].said) \union ToSet(ms)
  BY <1>1, ElementsOfBoth
<1> DEFINE m == [exists |-> TRUE, said |-> memory[k].said \o ms]
<1>3. memory' = [memory EXCEPT ![k] = m]
  BY DEF Adds, Memory
<1>4. IsMemory(m) /\ m.said = memory[k].said \o ms /\ m.exists
  BY <1>2 DEF IsMemory
<1> HIDE DEF m
<1>5. memory'[k] = m /\ \A j \in {"from", "to", "tail"} \ {k} : memory'[j] = memory[j]
  BY <1>1, <1>3 DEF MemoryTyped
<1>6. MemoryTyped(memory')
  BY <1>1, <1>3, <1>4 DEF MemoryTyped
<1> QED
  BY <1>2, <1>4, <1>5, <1>6

\* Which steps change the files, the memories and the command.
FileSteps == FinishTurn \/ Rewrite \/ Rename \/ WriteHead \/ WriteTail \/ RestoreFile \/ UnlinkTail \/ Crash
MemorySteps ==
  \/ Upload \/ Visit \/ AddToTarget \/ DeleteSource \/ AddResidual \/ AddTail \/ DeleteHead \/ AddHead
  \/ RestoreTail \/ RestoreHead \/ RefillHead \/ CallFails \/ Crash
OpSteps == Read \/ Plan \/ ApproveMove \/ AlignPayload \/ ReadTarget \/ ReadSource \/ ReadHead \/ CallFails

Paced == \E p : Go(p)

LEMMA FilesChange == MoveNext => UNCHANGED files \/ FileSteps
<1> USE DEF Only, FileSteps
<1>1. CASE Read \/ Plan \/ SafetyGate \/ ApproveMove \/ ApproveSplit \/ Backup \/ AlignPayload \/ ReadTarget
  BY <1>1 DEF Read, Plan, SafetyGate, ApproveMove, ApproveSplit, Backup, AlignPayload, ReadTarget
<1>2. CASE AddToTarget \/ VerifyTarget \/ Switch \/ Validate \/ ReadSource \/ Revalidate \/ DeleteSource \/ AddResidual
           \/ Recheck \/ AddTail \/ CheckTail
  BY <1>2 DEF AddToTarget, VerifyTarget, Switch, Validate, ReadSource, Revalidate, DeleteSource, AddResidual, Recheck,
              AddTail, CheckTail
<1>3. CASE ReadHead \/ DeleteHead \/ AddHead \/ CheckHead \/ SwitchPart \/ RestoreTail \/ RestoreHead \/ RefillHead
           \/ Upload \/ Visit \/ CallFails
  BY <1>3 DEF ReadHead, DeleteHead, AddHead, CheckHead, SwitchPart, RestoreTail, RestoreHead, RefillHead,
              Upload, Visit, CallFails
<1> QED
  BY <1>1, <1>2, <1>3 DEF MoveNext, Command

LEMMA MemoryChanges == MoveNext => UNCHANGED <<memory, gone, ever>> \/ FinishTurn \/ MemorySteps
<1> USE DEF Only, Quiet, MemorySteps
<1>1. CASE Read \/ Plan \/ SafetyGate \/ ApproveMove \/ ApproveSplit \/ Backup \/ AlignPayload \/ ReadTarget
  BY <1>1 DEF Read, Plan, SafetyGate, ApproveMove, ApproveSplit, Backup, AlignPayload, ReadTarget
<1>2. CASE VerifyTarget \/ Rewrite \/ Rename \/ Switch \/ Validate \/ ReadSource \/ Revalidate \/ Recheck \/ CheckTail
  BY <1>2 DEF VerifyTarget, Rewrite, Rename, Switch, Validate, ReadSource, Revalidate, Recheck, CheckTail
<1>3. CASE ReadHead \/ CheckHead \/ WriteHead \/ WriteTail \/ SwitchPart \/ RestoreFile \/ UnlinkTail
  BY <1>3 DEF ReadHead, CheckHead, WriteHead, WriteTail, SwitchPart, RestoreFile, UnlinkTail
<1> QED
  BY <1>1, <1>2, <1>3 DEF MoveNext, Command

LEMMA OpChanges == MoveNext => UNCHANGED op \/ Restore \/ Paced \/ OpSteps
<1>a. /\ (Go("idle") => Paced) /\ (Go("approve") => Paced) /\ (Go("backup") => Paced)
      /\ (Go("align") => Paced) /\ (Go("addTail") => Paced) /\ (Go("verify") => Paced)
      /\ (Go("rewrite") => Paced) /\ (Go("rename") => Paced) /\ (Go("switch") => Paced)
      /\ (Go("cleanup") => Paced) /\ (Go("final") => Paced) /\ (Go("delete") => Paced)
      /\ (Go("residual") => Paced) /\ (Go("recheck") => Paced) /\ (Go("checkTail") => Paced)
      /\ (Go("readHead") => Paced) /\ (Go("addHead") => Paced) /\ (Go("checkHead") => Paced)
      /\ (Go("writeHead") => Paced) /\ (Go("writeTail") => Paced) /\ (Go("unlinkTail") => Paced)
      /\ (Go("restoreTail") => Paced) /\ (Go("restoreHead") => Paced) /\ (Go("refillHead") => Paced)
  <2>1. \A p : Go(p) => Paced
    BY DEF Paced
  <2> QED
    BY <2>1, Zenon
<1>b. CASE Backup
  <2>1. op' = [op EXCEPT !.pc = IF op.cmd.kind = "move" THEN "align" ELSE "addTail"]
    BY <1>b DEF Backup, Go
  <2>2. Go("align") \/ Go("addTail")
    BY <2>1 DEF Go
  <2> QED
    BY <1>a, <2>2
<1> USE <1>a DEF OpSteps, Failed, CleanupPending, RolledBack, AfterTarget
<1>1. CASE SafetyGate \/ ApproveSplit \/ AddToTarget \/ VerifyTarget \/ Rewrite
  BY <1>1 DEF SafetyGate, ApproveSplit, AddToTarget, VerifyTarget, Rewrite
<1>2. CASE Switch \/ Validate \/ Revalidate \/ DeleteSource \/ AddResidual \/ Recheck \/ Rename
  BY <1>2 DEF Switch, Validate, Revalidate, DeleteSource, AddResidual, Recheck, Rename
<1>3. CASE AddTail \/ CheckTail \/ DeleteHead \/ AddHead \/ CheckHead \/ WriteHead \/ WriteTail \/ SwitchPart
  BY <1>3 DEF AddTail, CheckTail, DeleteHead, AddHead, CheckHead, WriteHead, WriteTail, SwitchPart
<1>4. CASE RestoreFile \/ UnlinkTail \/ RestoreTail \/ RestoreHead \/ RefillHead \/ FinishTurn \/ Upload \/ Visit \/ Crash
  BY <1>4 DEF RestoreFile, UnlinkTail, RestoreTail, RestoreHead, RefillHead, FinishTurn, Upload, Visit, Crash
<1> QED
  BY <1>b, <1>1, <1>2, <1>3, <1>4 DEF MoveNext, Command

\* What a step does to the memories: the new directory's only grows, the old one's grows
\* or is deleted, and the tail's is made by one step.
MemoryRow ==
  /\ MemoryTyped(memory')
  /\ ToSet(memory.to.said) \subseteq ToSet(memory'.to.said)
  /\ ever'.uploads \subseteq ever.uploads \union ToSet(memory'.from.said) \union ToSet(memory'.to.said)
  /\ memory'.tail.exists => memory.tail.exists \/ op.pc = "addTail"
  /\ memory'.tail = memory.tail \/ op.pc \in {"addTail", "restoreTail"}
  /\ \/ /\ ToSet(memory.from.said) \subseteq ToSet(memory'.from.said) /\ gone' = gone
        /\ memory.from.exists => memory'.from.exists
     \/ /\ op.pc \in {"delete", "deleteHead", "restoreHead"}
        /\ gone' = gone \union (ToSet(memory.from.said) \ ToSet(op.raw))

LEMMA AddsRow ==
  ASSUME MoveTyped, NEW k \in {"from", "to", "tail"}, NEW ms \in Seq(Messages), Adds(k, ms), gone' = gone,
         k = "tail" => op.pc = "addTail",
         ever'.uploads = ever.uploads \/ (k # "tail" /\ ever'.uploads = ever.uploads \union ToSet(ms))
  PROVE  MemoryRow
<1>1. /\ MemoryTyped(memory')
      /\ ToSet(memory'[k].said) = ToSet(memory[k].said) \union ToSet(ms) /\ memory'[k].exists
      /\ \A j \in {"from", "to", "tail"} \ {k} : memory'[j] = memory[j]
  BY AddsKeep
<1>2. \A j \in {"from", "to", "tail"} : ToSet(memory[j].said) \subseteq ToSet(memory'[j].said)
  BY <1>1
<1>3. /\ memory'.tail.exists => memory.tail.exists \/ op.pc = "addTail"
      /\ memory'.tail = memory.tail \/ op.pc = "addTail"
      /\ memory.from.exists => memory'.from.exists
  BY <1>1
<1>4. ever'.uploads \subseteq ever.uploads \union ToSet(memory'.from.said) \union ToSet(memory'.to.said)
  BY <1>1
<1> QED
  BY <1>1, <1>2, <1>3, <1>4 DEF MemoryRow

LEMMA DeletesRow ==
  ASSUME MoveTyped, Deletes("from"), op.pc \in {"delete", "deleteHead", "restoreHead"}, ever' = ever
  PROVE  MemoryRow
<1>1. MemoryTyped(memory') /\ memory'.to = memory.to /\ memory'.tail = memory.tail
  BY NothingTyped DEF Deletes, MoveTyped, MemoryTyped
<1> QED
  BY <1>1 DEF MemoryRow, Deletes

LEMMA StillRow == ASSUME MoveTyped, UNCHANGED <<memory, gone, ever>> PROVE MemoryRow
BY DEF MemoryRow, MoveTyped

LEMMA PartOfRow == ASSUME MoveTyped, PartOf, gone' = gone, ever' = ever PROVE MemoryRow
<1>1. OpTyped(op)
  BY DEF MoveTyped
<1>2. op.raw \in Seq(Messages) /\ op.expected \in Seq(Messages) /\ op.head \in Seq(Messages)
  BY <1>1, OpFields
<1>3. Residual(op.raw, op.msgs) \in Seq(Messages)
  BY <1>2, ResidualIsList
<1>4. ASSUME NEW k \in {"from", "to", "tail"}, NEW s \in Seq(Messages), NEW p \in Batches(s), Adds(k, p),
             k = "tail" => op.pc = "addTail"
      PROVE  MemoryRow
  BY <1>4, BatchesAreLists, AddsRow
<1>5. CASE \E p \in Batches(op.raw) : Adds("to", p) \/ Adds("from", p)
  BY <1>2, <1>4, <1>5
<1>6. CASE \E p \in Batches(Residual(op.raw, op.msgs)) : Adds("from", p)
  BY <1>3, <1>4, <1>6
<1>7. CASE op.pc = "addTail" /\ \E p \in Batches(op.expected) : Adds("tail", p)
  BY <1>2, <1>4, <1>7
<1>8. CASE \E p \in Batches(op.head) : Adds("from", p)
  BY <1>2, <1>4, <1>8
<1>9. CASE UNCHANGED memory
  BY <1>9, StillRow
<1> QED
  BY <1>5, <1>6, <1>7, <1>8, <1>9 DEF PartOf

LEMMA ReceiveRow ==
  ASSUME MoveTyped, NEW k \in {"from", "to"}, NEW ms \in Seq(Messages), Receive(k, ms), gone' = gone
  PROVE  MemoryRow
<1>1. Adds(k, ms) /\ ever'.uploads = ever.uploads \union ToSet(ms)
  BY DEF Receive, Adds, MoveTyped
<1> QED
  BY <1>1, AddsRow

LEMMA UploadRow == ASSUME MoveTyped, Upload PROVE MemoryRow
<1>1. PICK t \in agent.lag : Receive("from", RebuildMessages(<<[t EXCEPT !.late = Started]>>))
  BY DEF Upload
<1>2. t \in Turns
  BY DEF MoveTyped
<1> DEFINE u == [t EXCEPT !.late = Started]
<1>3. u \in SomeTurns
  <2>1. Started \in BOOLEAN
    BY DEF Started
  <2> HIDE DEF Started
  <2> QED
    BY <1>2, <2>1 DEF Turns, SomeTurns
<1>4. <<u>> \in Seq(SomeTurns)
  <2> HIDE DEF u
  <2> QED
    BY <1>3
<1>5. RebuildMessages(<<u>>) \in Seq(Messages)
  <2> HIDE DEF u
  <2> QED
    BY <1>4, RebuildIsList
<1>6. gone' = gone
  BY DEF Upload
<1> QED
  BY <1>1, <1>5, <1>6, ReceiveRow

LEMMA VisitRow == ASSUME MoveTyped, Visit PROVE MemoryRow
<1>1. PICK v \in visitors, key \in {"from", "to"} : Receive(key, <<[v EXCEPT !.late = Started]>>)
  BY DEF Visit
<1>2. v \in Messages
  BY DEF MoveTyped
<1> DEFINE u == [v EXCEPT !.late = Started]
<1>3. u \in Messages
  <2>1. Started \in BOOLEAN
    BY DEF Started
  <2> HIDE DEF Started
  <2> QED
    BY <1>2, <2>1 DEF Messages
<1>4. <<u>> \in Seq(Messages)
  <2> HIDE DEF u
  <2> QED
    BY <1>3
<1>5. gone' = gone
  BY DEF Visit
<1> QED
  BY <1>1, <1>4, <1>5, ReceiveRow

LEMMA MemoryMoves == ASSUME MoveTyped, MoveNext PROVE MemoryRow
<1>1. OpTyped(op)
  BY DEF MoveTyped
<1>2. op.raw \in Seq(Messages) /\ op.expected \in Seq(Messages) /\ op.head \in Seq(Messages)
  BY <1>1, OpFields
<1>3. CASE UNCHANGED <<memory, gone, ever>>
  BY <1>3, StillRow
<1>4. CASE FinishTurn
  <2>1. UNCHANGED <<memory, gone>> /\ ever'.uploads = ever.uploads
    BY <1>4 DEF FinishTurn, MoveTyped
  <2> QED
    BY <2>1 DEF MemoryRow, MoveTyped
<1>5. CASE AddToTarget
  BY <1>2, <1>5, AddsRow DEF AddToTarget, Only, Quiet
<1>6. CASE AddResidual
  BY <1>2, <1>6, ResidualIsList, AddsRow DEF AddResidual, Only, Quiet
<1>7. CASE AddTail
  BY <1>2, <1>7, AddsRow DEF AddTail, At, Only, Quiet
<1>8. CASE AddHead
  BY <1>2, <1>8, AddsRow DEF AddHead, Only, Quiet
<1>9. CASE RefillHead
  BY <1>2, <1>9, AddsRow DEF RefillHead, TheCopy, Only, Quiet
<1>10. CASE DeleteSource \/ DeleteHead \/ RestoreHead
  BY <1>10, DeletesRow DEF DeleteSource, DeleteHead, RestoreHead, At, Only, Quiet
<1>11. CASE RestoreTail
  <2>1. memory' = [memory EXCEPT !.tail = NoMemory] /\ UNCHANGED <<gone, ever>> /\ op.pc = "restoreTail"
    BY <1>11 DEF RestoreTail, Only, Quiet
  <2>2. MemoryTyped(memory') /\ memory'.to = memory.to /\ memory'.from = memory.from /\ memory'.tail = NoMemory
    BY <2>1, NothingTyped DEF MoveTyped, MemoryTyped
  <2> QED
    BY <2>1, <2>2 DEF MemoryRow, NoMemory
<1>12. CASE CallFails \/ Crash
  BY <1>12, PartOfRow DEF CallFails, Crash
<1> QED
  BY <1>3, <1>4, <1>5, <1>6, <1>7, <1>8, <1>9, <1>10, <1>11, <1>12, MemoryChanges, UploadRow, VisitRow DEF MemorySteps

\* What a step does to the files: before the copy the session's file only grows, the tail
\* is written by one step, and the new place is filled once.
FilesRow ==
  /\ FilesTyped(files')
  /\ files'.dest = files.dest \/ At("move", "rename")
  /\ ever'.turns \subseteq ever.turns \union Elements(files'.source)
  /\ Started \/ Elements(files.source) \subseteq Elements(files'.source)
  /\ Started => ever'.turns = ever.turns
  /\ files'.tail = files.tail \/ files'.tail = NoFile \/ op.pc = "writeTail"
  /\ op.pc \in Restoring \ {"restoreFile"} => files'.source = files.source

LEMMA EverTurns == ASSUME MoveTyped, MoveNext, ~FinishTurn PROVE ever'.turns = ever.turns
<1>1. CASE Upload \/ Visit
  BY <1>1 DEF Upload, Visit, Receive, MoveTyped
<1>2. CASE ~(Upload \/ Visit)
  <2>1. CASE MemorySteps
    BY <1>2, <2>1 DEF MemorySteps, AddToTarget, DeleteSource, AddResidual, AddTail, DeleteHead, AddHead,
                      RestoreTail, RestoreHead, RefillHead, CallFails, Crash, Only, Quiet
  <2> QED
    BY <1>2, <2>1, MemoryChanges
<1> QED
  BY <1>1, <1>2

LEMMA FilesMove == ASSUME MoveTyped, PlacedMove, MoveNext PROVE FilesRow
<1>1. /\ FilesTyped(files) /\ OpTyped(op) /\ IsFile(op.lines) /\ op.lines.turns \in Seq(Turns)
      /\ files = [source |-> files.source, dest |-> files.dest, tail |-> files.tail]
      /\ op.lines = [cwd |-> op.lines.cwd, turns |-> op.lines.turns, aside |-> op.lines.aside]
  BY OpFields DEF MoveTyped, FilesTyped, IsFile
<1>a. ~FinishTurn => ever'.turns = ever.turns
  BY EverTurns
<1>2. CASE UNCHANGED files
  <2>1. ~FinishTurn
    <3>1. SUFFICES ASSUME FinishTurn PROVE FALSE
      OBVIOUS
    <3>2. Len(files'.source.turns) = Len(files.source.turns) + 1
      <4>1. files.source.turns \in Seq(Turns) /\ files.source = [cwd |-> files.source.cwd, turns |-> files.source.turns, aside |-> files.source.aside]
        BY <1>1 DEF FilesTyped, IsFile
      <4>2. PICK t : files'.source.turns = Append(files.source.turns, t)
        BY <1>1, <3>1, <4>1 DEF FinishTurn
      <4> QED
        BY <4>1, <4>2
    <3>3. Len(files.source.turns) \in Nat
      BY <1>1 DEF FilesTyped, IsFile
    <3> QED
      BY <1>2, <3>2, <3>3
  <2> QED
    BY <1>1, <1>2, <1>a, <2>1 DEF FilesRow
<1>3. CASE FinishTurn
  <2> DEFINE t == Head(agent.working)
             f == files.source
  <2>1. t \in Turns /\ f.turns \in Seq(Turns) /\ f = [cwd |-> f.cwd, turns |-> f.turns, aside |-> f.aside]
    BY <1>1, <1>3, HeadTailProperties DEF FinishTurn, MoveTyped, FilesTyped, IsFile
  <2>2. files' = [files EXCEPT !.source.turns = Append(@, t)] /\ ever' = [ever EXCEPT !.turns = @ \union {t}]
    BY <1>3 DEF FinishTurn
  <2> HIDE DEF t
  <2>3. files' = [files EXCEPT !.source = [f EXCEPT !.turns = Append(f.turns, t)]]
    BY <1>1, <2>2
  <2>4. Append(f.turns, t) \in Seq(Turns) /\ Append(f.turns, t) = f.turns \o <<t>> /\ <<t>> \in Seq(Turns)
    BY <2>1
  <2> HIDE DEF f
  <2>5. ToSet(Append(f.turns, t)) = ToSet(f.turns) \union {t}
    <3>1. ToSet(<<t>>) = {t}
      BY DEF ToSet
    <3>2. ToSet(f.turns \o <<t>>) = ToSet(f.turns) \union ToSet(<<t>>)
      BY <2>1, <2>4, ElementsOfBoth
    <3> QED
      BY <2>4, <3>1, <3>2
  <2>6. PICK g : g = [cwd |-> f.cwd, turns |-> Append(f.turns, t), aside |-> f.aside]
    OBVIOUS
  <2>a. IsFile(g) /\ g.turns = Append(f.turns, t) /\ g.aside = f.aside
    BY <2>4, <2>6 DEF IsFile
  <2>b. files' = [files EXCEPT !.source = g]
    <3>1. PICK a : a = Append(f.turns, t)
      OBVIOUS
    <3>2. [f EXCEPT !.turns = a] = [cwd |-> f.cwd, turns |-> a, aside |-> f.aside]
      BY <2>1
    <3> QED
      BY <2>3, <2>6, <3>1, <3>2, Zenon
  <2>7. files'.source = g /\ files'.dest = files.dest /\ files'.tail = files.tail /\ FilesTyped(files')
    BY <1>1, <2>a, <2>b DEF FilesTyped
  <2>8. Elements(files'.source) = Elements(files.source) \union {t}
    BY <2>5, <2>7, <2>a DEF Elements, f
  <2>9. ever'.turns = ever.turns \union {t} /\ ~Started /\ op.pc \notin Restoring
    BY <1>3, <2>2 DEF FinishTurn, Started, MoveTyped, Restoring
  <2> QED
    BY <2>7, <2>8, <2>9 DEF FilesRow
<1>4. CASE Rewrite
  <2>1. files' = [files EXCEPT !.source = [op.lines EXCEPT !.cwd = "to"]] /\ op.pc = "rewrite"
    BY <1>4 DEF Rewrite, At
  <2>2. IsFile([op.lines EXCEPT !.cwd = "to"])
    BY <1>1 DEF IsFile
  <2> QED
    BY <1>1, <1>a, <1>4, <2>1, <2>2 DEF FilesRow, FilesTyped, Started, Restoring, FinishTurn
<1>5. CASE Rename
  <2>1. files' = [files EXCEPT !.source = NoFile, !.dest = files.source] /\ At("move", "rename")
    BY <1>5 DEF Rename, At
  <2>2. files' = [source |-> NoFile, dest |-> files.source, tail |-> files.tail]
    BY <1>1, <2>1
  <2> QED
    BY <1>1, <1>a, <2>1, <2>2, NothingTyped DEF FilesRow, FilesTyped, At, Started, Restoring, FinishTurn
<1>6. CASE WriteHead \/ WriteTail
  <2>1. op.cmd.cut \in 1..Len(op.lines.turns)
    BY <1>6 DEF PlacedMove, WriteHead, WriteTail, At
  <2>2. Heading \in Seq(Turns) /\ Tailing \in Seq(Turns)
    BY <1>1, <2>1, HeadAndTail DEF Heading, Tailing
  <2>a. IsFile([cwd |-> op.lines.cwd, turns |-> Heading, aside |-> {}]) /\ IsFile([cwd |-> op.lines.cwd, turns |-> Tailing, aside |-> {}])
    BY <2>2 DEF IsFile
  <2>4. CASE WriteHead
    <3>1. files' = [files EXCEPT !.source = [cwd |-> op.lines.cwd, turns |-> Heading, aside |-> {}]] /\ op.pc = "writeHead"
      BY <2>4 DEF WriteHead, At
    <3> QED
      BY <1>1, <1>a, <2>a, <3>1 DEF FilesRow, FilesTyped, Started, Restoring, FinishTurn
  <2>5. CASE WriteTail
    <3>1. files' = [files EXCEPT !.tail = [cwd |-> op.lines.cwd, turns |-> Tailing, aside |-> {}]] /\ op.pc = "writeTail"
      BY <2>5 DEF WriteTail, At
    <3> QED
      BY <1>1, <1>a, <2>a, <3>1 DEF FilesRow, FilesTyped, Started, Restoring, FinishTurn
  <2> QED
    BY <1>6, <2>4, <2>5
<1>7. CASE RestoreFile
  BY <1>1, <1>a, <1>7 DEF RestoreFile, FilesRow, FilesTyped, Started, Restoring, FinishTurn
<1>8. CASE UnlinkTail
  BY <1>1, <1>a, <1>8, NothingTyped DEF UnlinkTail, FilesRow, FilesTyped, Started, Restoring, FinishTurn
<1>9. CASE Crash
  <2>1. CASE UNCHANGED files
    BY <1>2, <2>1
  <2>2. CASE ~UNCHANGED files
    <3>1. op.pc \in {"rewrite", "writeHead", "restoreFile"}
      BY <1>9, <2>2 DEF Crash
    <3>2. PICK f \in Cut(op.lines) : files' = [files EXCEPT !.source = f]
      BY <1>9, <2>2 DEF Crash
    <3>3. PICK n \in 0..Len(op.lines.turns) : f = [op.lines EXCEPT !.turns = SubSeq(@, 1, n)]
      BY <3>2 DEF Cut
    <3>4. SubSeq(op.lines.turns, 1, n) \in Seq(Turns)
      <4>1. n \in Int /\ \A i \in 1..n : op.lines.turns[i] \in Turns
        BY <1>1
      <4> QED
        BY <4>1, SubSeqProperties
    <3>5. IsFile(f)
      BY <1>1, <3>3, <3>4 DEF IsFile
    <3> QED
      BY <1>1, <1>a, <3>1, <3>2, <3>5 DEF FilesRow, FilesTyped, Started, Restoring, FinishTurn
  <2> QED
    BY <2>1, <2>2
<1> QED
  BY <1>2, <1>3, <1>4, <1>5, <1>6, <1>7, <1>8, <1>9, FilesChange DEF FileSteps

\* Copies and uploads are never taken away, and only the backup starts a command.
BackupsRow ==
  /\ backups' = [pi |-> backups'.pi, honcho |-> backups'.honcho]
  /\ backups.pi \subseteq backups'.pi /\ backups.honcho \subseteq backups'.honcho
  /\ agent' = [working |-> agent'.working, lag |-> agent'.lag]
  /\ agent'.working \in Seq(Turns) /\ agent'.lag \subseteq Turns /\ visitors' \subseteq Messages
  /\ ever' = [turns |-> ever'.turns, uploads |-> ever'.uploads]

LEMMA BackupsMove == ASSUME MoveTyped, MoveNext PROVE BackupsRow
<1>1. /\ backups = [pi |-> backups.pi, honcho |-> backups.honcho]
      /\ agent = [working |-> agent.working, lag |-> agent.lag]
      /\ agent.working \in Seq(Turns) /\ agent.lag \subseteq Turns /\ visitors \subseteq Messages
      /\ ever = [turns |-> ever.turns, uploads |-> ever.uploads]
  BY DEF MoveTyped
<1>2. CASE UNCHANGED <<backups, agent, visitors, ever>>
  BY <1>1, <1>2 DEF BackupsRow
<1>3. CASE FinishTurn
  <2>1. Head(agent.working) \in Turns /\ Tail(agent.working) \in Seq(Turns)
    BY <1>1, <1>3, HeadTailProperties DEF FinishTurn
  <2>2. /\ agent' = [working |-> Tail(agent.working), lag |-> agent.lag \union {Head(agent.working)}]
        /\ ever' = [ever EXCEPT !.turns = @ \union {Head(agent.working)}] /\ UNCHANGED <<backups, visitors>>
    BY <1>3 DEF FinishTurn
  <2>3. ever' = [turns |-> ever'.turns, uploads |-> ever'.uploads]
    BY <1>1, <2>2
  <2> QED
    BY <1>1, <2>1, <2>2, <2>3 DEF BackupsRow
<1>4. CASE Upload \/ Visit
  <2>1. \E u : ever' = [ever EXCEPT !.uploads = u]
    BY <1>4 DEF Upload, Visit, Receive
  <2>2. ever' = [turns |-> ever'.turns, uploads |-> ever'.uploads]
    BY <1>1, <2>1
  <2>3. UNCHANGED backups
    BY <1>4 DEF Upload, Visit
  <2>4. CASE Upload
    <3>1. UNCHANGED visitors /\ \E t \in agent.lag : agent' = [agent EXCEPT !.lag = @ \ {t}]
      BY <2>4 DEF Upload
    <3> QED
      BY <1>1, <2>2, <2>3, <3>1 DEF BackupsRow
  <2>5. CASE Visit
    <3>1. UNCHANGED agent /\ visitors' \subseteq visitors
      BY <2>5 DEF Visit
    <3> QED
      BY <1>1, <2>2, <2>3, <3>1 DEF BackupsRow
  <2> QED
    BY <1>4, <2>4, <2>5
<1>5. CASE Backup \/ Revalidate \/ ReadHead
  <2>1. UNCHANGED <<agent, visitors, ever>>
    BY <1>5 DEF Backup, Revalidate, ReadHead, Only, Quiet
  <2>2. \/ backups' = backups \/ \E s : backups' = [backups EXCEPT !.pi = @ \union s]
        \/ \E s : backups' = [backups EXCEPT !.honcho = @ \union s]
    BY <1>5 DEF Backup, Revalidate, ReadHead
  <2> QED
    BY <1>1, <2>1, <2>2 DEF BackupsRow
<1>6. CASE Read \/ Plan \/ SafetyGate \/ ApproveMove \/ ApproveSplit \/ AlignPayload \/ ReadTarget \/ AddToTarget
           \/ VerifyTarget \/ Rewrite \/ Rename \/ Switch \/ Validate \/ ReadSource
  BY <1>2, <1>6 DEF Read, Plan, SafetyGate, ApproveMove, ApproveSplit, AlignPayload, ReadTarget, AddToTarget,
                    VerifyTarget, Rewrite, Rename, Switch, Validate, ReadSource, Only, Quiet
<1>7. CASE DeleteSource \/ AddResidual \/ Recheck \/ AddTail \/ CheckTail \/ DeleteHead \/ AddHead \/ CheckHead
           \/ WriteHead \/ WriteTail \/ SwitchPart
  BY <1>2, <1>7 DEF DeleteSource, AddResidual, Recheck, AddTail, CheckTail, DeleteHead, AddHead, CheckHead,
                    WriteHead, WriteTail, SwitchPart, Only, Quiet
<1>8. CASE RestoreFile \/ UnlinkTail \/ RestoreTail \/ RestoreHead \/ RefillHead \/ CallFails \/ Crash
  BY <1>2, <1>8 DEF RestoreFile, UnlinkTail, RestoreTail, RestoreHead, RefillHead, CallFails, Crash, Only, Quiet
<1> QED
  BY <1>3, <1>4, <1>5, <1>6, <1>7, <1>8 DEF MoveNext, Command

LEMMA StartIsBackup ==
  ASSUME MoveTyped, MoveNext, ~Started, Started'
  PROVE  files.source \in backups'.pi /\ ever' = ever /\ manifest' # "failed_rolled_back"
<1>1. OpTyped(op) /\ op.pc \in {"idle", "plan", "gate", "approve", "backup"}
  BY DEF MoveTyped, Started
<1>2. op'.pc \notin {"idle", "plan", "gate", "approve", "backup"}
  BY DEF Started
<1>3. CASE Backup
  BY <1>3 DEF Backup, Copied, Only, Quiet, MoveTyped
<1>4. ~Read /\ ~Plan
  <2>1. ASSUME Read PROVE FALSE
    <3>1. PICK c \in Parsed :
            \/ op' = [Idle EXCEPT !.pc = "gate", !.cmd = c, !.lines = files.source, !.merge = c.merge,
                                  !.msgs = RebuildMessages(files.source.turns)]
            \/ \E n \in Cuts(c, files.source.turns) :
                 op' = [Idle EXCEPT !.pc = "plan", !.cmd = [c EXCEPT !.cut = n], !.lines = files.source]
      BY <2>1 DEF Read
    <3> DEFINE ms == RebuildMessages(files.source.turns)
               l == files.source
    <3> HIDE DEF ms, l
    <3>2. CASE op' = [Idle EXCEPT !.pc = "gate", !.cmd = c, !.lines = l, !.merge = c.merge, !.msgs = ms]
      BY <1>2, <3>2 DEF Idle
    <3>3. CASE \E n \in Cuts(c, files.source.turns) :
                 op' = [Idle EXCEPT !.pc = "plan", !.cmd = [c EXCEPT !.cut = n], !.lines = l]
      BY <1>2, <3>3 DEF Idle
    <3> QED
      BY <3>1, <3>2, <3>3 DEF ms, l
  <2>2. ASSUME Plan PROVE FALSE
    <3>1. ~Go("idle")
      BY <1>1, <1>2, GoesOn
    <3> DEFINE r == memory.from.said
               h == PlanHead(memory.from.said, RebuildMessages(Heading), RebuildMessages(Tailing))
               e == Align(RebuildMessages(Tailing), memory.from.said).out
    <3>2. op' = [op EXCEPT !.pc = "gate", !.read = r, !.head = h, !.expected = e]
      BY <2>2, <3>1 DEF Plan
    <3> HIDE DEF r, h, e
    <3> QED
      BY <1>1, <1>2, <3>2 DEF OpTyped
  <2> QED
    BY <2>1, <2>2
<1>5. ~SafetyGate /\ ~ApproveMove /\ ~ApproveSplit /\ ~FinishTurn /\ ~Upload /\ ~Visit
  <2>1. ~Go("approve") /\ ~Go("idle") /\ ~Go("backup") /\ op' # op
    BY <1>1, <1>2, GoesOn
  <2>2. \A m : [op EXCEPT !.pc = "backup", !.merge = m].pc = "backup"
    BY <1>1 DEF OpTyped
  <2> QED
    BY <1>2, <2>1, <2>2 DEF SafetyGate, ApproveMove, ApproveSplit, FinishTurn, Upload, Visit
<1>6. ~CallFails /\ ~Crash
  <2>1. ~Go("idle")
    BY <1>1, <1>2, GoesOn
  <2> QED
    BY <1>1, <2>1 DEF CallFails, Crash, MoveTry, CleanupTry, SplitTry, Restoring
<1>7. ~(AlignPayload \/ ReadTarget \/ AddToTarget \/ VerifyTarget \/ Rewrite \/ Rename \/ Switch \/ Validate
        \/ ReadSource \/ Revalidate \/ DeleteSource \/ AddResidual \/ Recheck)
  BY <1>1 DEF AlignPayload, ReadTarget, AddToTarget, VerifyTarget, Rewrite, Rename, Switch, Validate, ReadSource,
              Revalidate, DeleteSource, AddResidual, Recheck, At
<1>8. ~(AddTail \/ CheckTail \/ ReadHead \/ DeleteHead \/ AddHead \/ CheckHead \/ WriteHead \/ WriteTail \/ SwitchPart
        \/ RestoreFile \/ UnlinkTail \/ RestoreTail \/ RestoreHead \/ RefillHead)
  BY <1>1 DEF AddTail, CheckTail, ReadHead, DeleteHead, AddHead, CheckHead, WriteHead, WriteTail, SwitchPart,
              RestoreFile, UnlinkTail, RestoreTail, RestoreHead, RefillHead, At
<1> QED
  BY <1>3, <1>4, <1>5, <1>6, <1>7, <1>8 DEF MoveNext, Command

LEMMA TranscriptStays ==
  ASSUME MoveTyped, PlacedMove, CopiedTranscript, MoveNext
  PROVE  CopiedTranscript'
<1>1. FilesRow /\ BackupsRow
  BY FilesMove, BackupsMove
<1>2. CopiedFile \subseteq CopiedFile'
  <2>1. CASE files'.dest = files.dest
    BY <1>1, <2>1 DEF CopiedFile, BackupsRow
  <2>2. CASE At("move", "rename")
    <3>1. files.dest = NoFile
      BY <2>2 DEF At, PlacedMove, Early, MoveTry
    <3>2. Elements(files.dest) = {}
      BY <3>1 DEF Elements, NoFile, ToSet
    <3> QED
      BY <1>1, <3>2 DEF CopiedFile, BackupsRow
  <2> QED
    BY <1>1, <2>1, <2>2 DEF FilesRow
<1>3. CASE Started
  BY <1>1, <1>2, <1>3 DEF CopiedTranscript, FilesRow
<1>4. CASE ~Started
  <2>1. ever'.turns \subseteq CopiedFile' \union Elements(files'.source)
    BY <1>1, <1>2, <1>4 DEF CopiedTranscript, FilesRow
  <2>2. CASE Started'
    <3>1. files.source \in backups'.pi /\ ever' = ever
      BY <1>4, <2>2, StartIsBackup
    <3>2. Elements(files.source) \subseteq CopiedFile'
      BY <3>1 DEF CopiedFile
    <3> QED
      BY <1>2, <2>1, <3>1, <3>2 DEF CopiedTranscript
  <2> QED
    BY <2>1, <2>2 DEF CopiedTranscript
<1> QED
  BY <1>3, <1>4

\* What was uploaded stays: a delete takes what it read, which is in the copy, or what
\* the history counts as gone.
LEMMA UploadsStay ==
  ASSUME MoveTyped, PlacedMove, CopiedMemory, MoveNext
  PROVE  (ever.uploads \ gone \subseteq Uploaded)'
<1>1. MemoryRow /\ BackupsRow
  BY MemoryMoves, BackupsMove
<1>2. CASE ToSet(memory.from.said) \subseteq ToSet(memory'.from.said) /\ gone' = gone
  BY <1>1, <1>2 DEF MemoryRow, BackupsRow, CopiedMemory, Uploaded
<1>3. CASE /\ op.pc \in {"delete", "deleteHead", "restoreHead"}
           /\ gone' = gone \union (ToSet(memory.from.said) \ ToSet(op.raw))
  <2>1. ToSet(op.raw) \subseteq backups.honcho
    BY <1>3 DEF CopiedMemory, PlacedMove, Heads, SplitSteps, SplitTry, Restoring
  <2> QED
    BY <1>1, <1>3, <2>1 DEF MemoryRow, BackupsRow, CopiedMemory, Uploaded
<1> QED
  BY <1>1, <1>2, <1>3 DEF MemoryRow

\* A step within a command: what it read and what it saved stay as they are.
Steady ==
  /\ SameCommand /\ OpTyped(op')
  /\ op'.pc # "idle" => op.pc # "idle"
  /\ op.pc = "plan" => op'.pc \in {"plan", "idle"}
  /\ op'.pc \in {"add", "verify"} => op.pc \in {"add", "verify"}
  /\ op'.pc \in SplitSteps => op.cmd.kind = "split"
  /\ op'.pc = "delete" => op.cmd.kind = "move" /\ ToSet(op.raw) \subseteq backups'.honcho
  /\ op.cmd.kind = "move" /\ op'.pc \in Early => op.pc \in Early /\ files'.dest = files.dest
  /\ op'.pc \in Unread => op.pc \in Unread
  /\ op'.pc \in Heads => op.saved

LEMMA SteadyStays ==
  ASSUME MoveInv, MoveNext, Steady
  PROVE  PlacedMove' /\ CopiedMemory' /\ ReadIsKept'
<1>1. MoveTyped /\ PlacedMove /\ CopiedMemory /\ ReadIsKept
  BY DEF MoveInv
<1>2. (ever.uploads \ gone \subseteq Uploaded)' /\ MemoryRow /\ BackupsRow
  BY <1>1, UploadsStay, MemoryMoves, BackupsMove
<1>3. PlacedMove'
  BY <1>1 DEF PlacedMove, Steady, SameCommand
<1>4. CopiedMemory'
  BY <1>1, <1>2 DEF CopiedMemory, Steady, SameCommand, BackupsRow
<1>5. ReadIsKept'
  <2>1. op.cmd.kind = "split" /\ ~op.saved => ToSet(memory.from.said) \subseteq ToSet(memory'.from.said)
    BY <1>1, <1>2 DEF MemoryRow, PlacedMove, Heads
  <2> QED
    BY <1>1, <2>1 DEF ReadIsKept, Steady, SameCommand
<1> QED
  BY <1>3, <1>4, <1>5

\* The steps of a move that read a memory.
Reads ==
  /\ OpTyped(op') /\ op.cmd.kind = "move" /\ op'.cmd = op.cmd /\ op'.saved \in BOOLEAN
  /\ op'.pc \in {"target", "add", "revalidate"} /\ files' = files
  /\ op'.pc \in Early => op.pc \in Early

LEMMA ReadsStay ==
  ASSUME MoveInv, MoveNext, Reads
  PROVE  PlacedMove' /\ CopiedMemory' /\ ReadIsKept'
<1>1. MoveTyped /\ PlacedMove /\ CopiedMemory
  BY DEF MoveInv
<1>2. (ever.uploads \ gone \subseteq Uploaded)'
  BY <1>1, UploadsStay
<1>3. PlacedMove'
  BY <1>1 DEF PlacedMove, Reads, SplitSteps, SplitTry, Restoring, Unread, Heads
<1>4. CopiedMemory'
  BY <1>2 DEF CopiedMemory, Reads
<1>5. ReadIsKept'
  BY DEF ReadIsKept, Reads
<1> QED
  BY <1>3, <1>4, <1>5

\* What is asked for is read from the session's file.
LEMMA ReadStays ==
  ASSUME MoveInv, Read
  PROVE  /\ OpTyped(op') /\ PlacedMove' /\ CopiedMemory' /\ ReadIsKept'
         /\ op'.clean = FALSE /\ op'.pc \in {"plan", "gate"}
<1>1. MoveTyped /\ PlacedMove /\ CopiedMemory /\ IsFile(files.source) /\ files.source.turns \in Seq(Turns)
  BY DEF MoveInv, MoveTyped, FilesTyped, IsFile
<1>2. (ever.uploads \ gone \subseteq Uploaded)'
  BY <1>1, UploadsStay DEF MoveNext, Command
<1>3. RebuildMessages(files.source.turns) \in Seq(Messages)
  BY <1>1, RebuildIsList, TurnsAreSome
<1>4. PICK c \in Parsed :
        \/ /\ c.kind = "move" /\ files.dest = NoFile
           /\ op' = [Idle EXCEPT !.pc = "gate", !.cmd = c, !.lines = files.source, !.merge = c.merge,
                                 !.msgs = RebuildMessages(files.source.turns)]
        \/ /\ c.kind = "split"
           /\ \E n \in Cuts(c, files.source.turns) :
                op' = [Idle EXCEPT !.pc = "plan", !.cmd = [c EXCEPT !.cut = n], !.lines = files.source]
  BY DEF Read
<1>5. c = [kind |-> c.kind, current |-> c.current, merge |-> c.merge, cut |-> c.cut]
  BY <1>4, MoveAssumption DEF Parsed
<1>6. UNCHANGED files
  BY DEF Read
<1> DEFINE l == files.source
           ms == RebuildMessages(files.source.turns)
<1>7. IsFile(l) /\ ms \in Seq(Messages)
  BY <1>1, <1>3
<1> HIDE DEF l, ms
<1>8. CASE /\ c.kind = "move" /\ files.dest = NoFile
           /\ op' = [Idle EXCEPT !.pc = "gate", !.cmd = c, !.lines = l, !.merge = c.merge, !.msgs = ms]
  <2>1. /\ op'.pc = "gate" /\ op'.cmd = c /\ op'.saved = FALSE /\ op'.clean = FALSE
        /\ OpTyped(op')
    <3>1. op' = [pc |-> "gate", cmd |-> c, lines |-> l, msgs |-> ms, expected |-> <<>>, raw |-> <<>>, read |-> <<>>,
                 head |-> <<>>, saved |-> FALSE, merge |-> c.merge, clean |-> FALSE]
      BY <1>8 DEF Idle
    <3> QED
      BY <1>7, <3>1 DEF OpTyped
  <2>2. PlacedMove'
    BY <1>6, <1>8, <2>1 DEF PlacedMove, SplitSteps, SplitTry, Restoring, Unread, Heads
  <2>3. CopiedMemory' /\ ReadIsKept'
    BY <1>2, <1>8, <2>1 DEF CopiedMemory, ReadIsKept
  <2> QED
    BY <2>1, <2>2, <2>3
<1>9. CASE /\ c.kind = "split"
           /\ \E n \in Cuts(c, files.source.turns) :
                op' = [Idle EXCEPT !.pc = "plan", !.cmd = [c EXCEPT !.cut = n], !.lines = l]
  <2>1. PICK n \in Cuts(c, files.source.turns) :
                op' = [Idle EXCEPT !.pc = "plan", !.cmd = [c EXCEPT !.cut = n], !.lines = l]
    BY <1>9
  <2>2. [c EXCEPT !.cut = n].kind = "split" /\ [c EXCEPT !.cut = n].cut = n
    BY <1>5, <1>9
  <2> DEFINE d == [c EXCEPT !.cut = n]
  <2> HIDE DEF d
  <2>3. /\ op'.pc = "plan" /\ op'.cmd = d /\ op'.saved = FALSE /\ op'.clean = FALSE /\ op'.lines = l
        /\ op'.read = <<>> /\ OpTyped(op')
    <3>1. op' = [pc |-> "plan", cmd |-> d, lines |-> l, msgs |-> <<>>, expected |-> <<>>, raw |-> <<>>, read |-> <<>>,
                 head |-> <<>>, saved |-> FALSE, merge |-> FALSE, clean |-> FALSE]
      BY <2>1 DEF Idle, d
    <3> QED
      BY <1>7, <3>1 DEF OpTyped
  <2>4. n \in 1..Len(op'.lines.turns)
    BY <1>1, <2>3 DEF Cuts, Eligible, l
  <2>5. PlacedMove'
    BY <2>2, <2>3, <2>4 DEF PlacedMove, SplitSteps, SplitTry, Restoring, Unread, Heads, d
  <2>6. CopiedMemory' /\ ReadIsKept'
    <3>1. ToSet(op'.read) = {}
      BY <2>3 DEF ToSet
    <3> QED
      BY <1>2, <2>3, <3>1 DEF CopiedMemory, ReadIsKept
  <2> QED
    BY <2>3, <2>5, <2>6
<1> QED
  BY <1>4, <1>8, <1>9 DEF l, ms

LEMMA PlanStays ==
  ASSUME MoveInv, Plan
  PROVE  OpTyped(op') /\ PlacedMove' /\ CopiedMemory' /\ ReadIsKept' /\ op'.clean = op.clean
<1>1. MoveTyped /\ PlacedMove /\ CopiedMemory /\ OpTyped(op) /\ memory.from.said \in Seq(Messages) /\ MoveNext
  BY DEF MoveInv, MoveTyped, MemoryTyped, IsMemory, MoveNext, Command
<1>2. (ever.uploads \ gone \subseteq Uploaded)'
  BY <1>1, UploadsStay
<1>3. op.pc = "plan" /\ op.cmd.kind = "split" /\ UNCHANGED <<files, memory, backups>>
  BY DEF Plan, At, Only
<1>4. CASE Go("idle")
  <2>1. Steady
    BY <1>1, <1>4, GoesOn DEF Steady, SplitSteps, SplitTry, Restoring, Early, MoveTry, Unread, Heads
  <2> QED
    BY <1>1, <1>4, <2>1, GoesOn, SteadyStays
<1>5. CASE ~Go("idle")
  <2> DEFINE r == memory.from.said
             h == PlanHead(memory.from.said, RebuildMessages(Heading), RebuildMessages(Tailing))
             e == Align(RebuildMessages(Tailing), memory.from.said).out
  <2>1. op' = [op EXCEPT !.pc = "gate", !.read = r, !.head = h, !.expected = e]
    BY <1>5 DEF Plan
  <2>2. Heading \in Seq(SomeTurns) /\ Tailing \in Seq(SomeTurns)
    BY <1>1, <1>3, OpFields, HeadAndTail DEF Heading, Tailing, PlacedMove
  <2>3. RebuildMessages(Heading) \in Seq(Messages) /\ RebuildMessages(Tailing) \in Seq(Messages)
    BY <2>2, RebuildIsList
  <2>4. r \in Seq(Messages) /\ h \in Seq(Messages) /\ e \in Seq(Messages)
    BY <1>1, <2>3, PlanIsList, AlignIsList
  <2> HIDE DEF r, h, e
  <2>5. /\ OpTyped(op') /\ op'.pc = "gate" /\ op'.read = r /\ op'.cmd = op.cmd /\ op'.lines = op.lines
        /\ op'.saved = op.saved /\ op'.clean = op.clean
    BY <1>1, <2>1, <2>4 DEF OpTyped
  <2>6. ~op.saved
    BY <1>1, <1>3 DEF PlacedMove, Unread
  <2>7. PlacedMove'
    BY <1>1, <1>3, <2>5, <2>6 DEF PlacedMove, SplitSteps, SplitTry, Restoring, Unread, Heads
  <2>8. CopiedMemory' /\ ReadIsKept'
    BY <1>2, <1>3, <2>5, <2>6 DEF CopiedMemory, ReadIsKept, r
  <2> QED
    BY <2>5, <2>7, <2>8
<1> QED
  BY <1>4, <1>5

LEMMA ReadHeadStays ==
  ASSUME MoveInv, ReadHead
  PROVE  OpTyped(op') /\ PlacedMove' /\ CopiedMemory' /\ ReadIsKept' /\ op'.clean = op.clean
<1>1. MoveTyped /\ PlacedMove /\ CopiedMemory /\ ReadIsKept /\ OpTyped(op) /\ memory.from.said \in Seq(Messages) /\ MoveNext
  BY DEF MoveInv, MoveTyped, MemoryTyped, IsMemory, MoveNext, Command
<1>2. (ever.uploads \ gone \subseteq Uploaded)' /\ BackupsRow
  BY <1>1, UploadsStay, BackupsMove
<1>3. /\ op.pc = "readHead" /\ op.cmd.kind = "split" /\ UNCHANGED <<files, memory>>
      /\ backups' = [backups EXCEPT !.honcho = @ \union ToSet(memory.from.said)]
      /\ op' = [op EXCEPT !.pc = "deleteHead", !.raw = memory.from.said, !.saved = TRUE]
  BY DEF ReadHead, At, Only
<1>4. ToSet(memory.from.said) \subseteq backups'.honcho
  BY <1>1, <1>3 DEF MoveTyped
<1>5. /\ OpTyped(op') /\ op'.pc = "deleteHead" /\ op'.read = op.read /\ op'.cmd = op.cmd /\ op'.lines = op.lines
      /\ op'.saved = TRUE /\ op'.clean = op.clean /\ op'.raw = memory.from.said
  BY <1>1, <1>3 DEF OpTyped
<1>6. ~op.saved
  BY <1>1, <1>3 DEF PlacedMove, Unread
<1>7. PlacedMove'
  BY <1>1, <1>3, <1>5 DEF PlacedMove, Early, MoveTry, Unread
<1>8. CopiedMemory' /\ ReadIsKept'
  BY <1>1, <1>2, <1>3, <1>4, <1>5, <1>6 DEF CopiedMemory, ReadIsKept
<1> QED
  BY <1>5, <1>7, <1>8

LEMMA MoveReadsStay ==
  ASSUME MoveInv, AlignPayload \/ ReadTarget \/ ReadSource
  PROVE  OpTyped(op') /\ PlacedMove' /\ CopiedMemory' /\ ReadIsKept' /\ op'.clean = op.clean
<1>1. /\ MoveTyped /\ OpTyped(op) /\ MoveNext /\ memory.from.said \in Seq(Messages) /\ memory.to.said \in Seq(Messages)
      /\ UNCHANGED files /\ op.cmd.kind = "move"
  BY DEF MoveInv, MoveTyped, MemoryTyped, IsMemory, MoveNext, Command, AlignPayload, ReadTarget, ReadSource, At, Only
<1>2. op.msgs \in Seq(Messages)
  BY <1>1, OpFields
<1>3. CASE AlignPayload
  <2> DEFINE a == Align(op.msgs, memory.from.said).out
  <2>1. a \in Seq(Messages)
    BY <1>1, <1>2, AlignIsList
  <2>2. op' = [op EXCEPT !.pc = "target", !.msgs = a] /\ op.pc = "align"
    BY <1>3 DEF AlignPayload, At
  <2> HIDE DEF a
  <2>3. OpTyped(op') /\ op'.pc = "target" /\ op'.cmd = op.cmd /\ op'.saved = op.saved /\ op'.clean = op.clean
    BY <1>1, <2>1, <2>2 DEF OpTyped
  <2>4. Reads
    BY <1>1, <2>2, <2>3 DEF Reads, Early, MoveTry, OpTyped
  <2> QED
    BY <1>1, <2>3, <2>4, ReadsStay
<1>4. CASE ReadTarget /\ ~Failed
  <2> DEFINE m == Missing(op.msgs, memory.to.said)
             e == memory.to.said \o m
  <2>1. m \in Seq(Messages)
    BY <1>2, MissingIsList
  <2>2. e \in Seq(Messages)
    <3> HIDE DEF m
    <3> QED
      BY <1>1, <2>1
  <2>3. op' = [op EXCEPT !.pc = "add", !.raw = m, !.expected = e] /\ op.pc = "target"
    BY <1>4 DEF ReadTarget, At
  <2> HIDE DEF m, e
  <2>4. OpTyped(op') /\ op'.pc = "add" /\ op'.cmd = op.cmd /\ op'.saved = op.saved /\ op'.clean = op.clean
    BY <1>1, <2>1, <2>2, <2>3 DEF OpTyped
  <2>5. Reads
    BY <1>1, <2>3, <2>4 DEF Reads, Early, MoveTry, OpTyped
  <2> QED
    BY <1>1, <2>4, <2>5, ReadsStay
<1>5. CASE ReadTarget /\ Failed
  <2>1. Go("idle")
    BY <1>5 DEF Failed
  <2>2. Steady
    BY <1>1, <2>1, GoesOn DEF Steady, SplitSteps, SplitTry, Restoring, Early, MoveTry, Unread, Heads
  <2> QED
    BY <1>1, <2>1, <2>2, GoesOn, SteadyStays
<1>6. CASE ReadSource
  <2> DEFINE r == memory.from.said
             s == memory.from.exists
  <2>1. op' = [op EXCEPT !.pc = "revalidate", !.raw = r, !.saved = s] /\ op.pc = "final"
    BY <1>6 DEF ReadSource, At
  <2>2. r \in Seq(Messages) /\ s \in BOOLEAN
    BY <1>1 DEF MoveTyped, MemoryTyped, IsMemory
  <2> HIDE DEF r, s
  <2>3. OpTyped(op') /\ op'.pc = "revalidate" /\ op'.cmd = op.cmd /\ op'.clean = op.clean
    BY <1>1, <2>1, <2>2 DEF OpTyped
  <2>4. Reads
    BY <1>1, <2>1, <2>3 DEF Reads, Early, MoveTry, OpTyped
  <2> QED
    BY <1>1, <2>3, <2>4, ReadsStay
<1> QED
  BY <1>3, <1>4, <1>5, <1>6

LEMMA StepsAreSteady ==
  ASSUME MoveInv, MoveNext, ~Read, ~Plan, ~ReadHead, ~AlignPayload, ~ReadTarget, ~ReadSource
  PROVE  Steady
<1>1. MoveTyped /\ PlacedMove /\ CopiedMemory /\ OpTyped(op)
  BY DEF MoveInv, MoveTyped
<1>a. BackupsRow
  BY <1>1, BackupsMove
<1>b. files = [source |-> files.source, dest |-> files.dest, tail |-> files.tail]
  BY <1>1 DEF MoveTyped, FilesTyped
<1> USE DEF Steady, SplitSteps, SplitTry, Restoring, Early, MoveTry, Unread, Heads, At, Only
<1>2. CASE FinishTurn \/ Upload \/ Visit
  <2>1. op' = op /\ files'.dest = files.dest
    BY <1>2, <1>b DEF FinishTurn, Upload, Visit
  <2>2. SameCommand /\ OpTyped(op')
    BY <1>1, <2>1 DEF SameCommand
  <2>3. op'.pc = "delete" => op.cmd.kind = "move" /\ ToSet(op.raw) \subseteq backups'.honcho
    BY <1>1, <1>a, <2>1 DEF CopiedMemory, PlacedMove, BackupsRow
  <2> QED
    BY <1>1, <2>1, <2>2, <2>3 DEF PlacedMove
<1>3. CASE SafetyGate \/ ApproveSplit
  BY <1>1, <1>3, GoesOn DEF SafetyGate, ApproveSplit
<1>4. CASE ApproveMove
  <2>1. CASE Go("idle")
    BY <1>1, <1>4, <2>1, GoesOn DEF ApproveMove
  <2>2. CASE ~Go("idle")
    <3> DEFINE m == op.merge \/ memory.to.exists
    <3>1. op' = [op EXCEPT !.pc = "backup", !.merge = m] /\ op.pc = "approve" /\ op.cmd.kind = "move" /\ files' = files
      BY <1>4, <2>2 DEF ApproveMove
    <3> HIDE DEF m
    <3>2. OpTyped(op') /\ SameCommand /\ op'.pc = "backup"
      BY <1>1, <3>1 DEF OpTyped, SameCommand
    <3> QED
      BY <3>1, <3>2
  <2> QED
    BY <2>1, <2>2
<1>5. CASE Backup
  <2>1. op.cmd.kind = "move" \/ op.cmd.kind = "split"
    BY <1>1, <1>5 DEF Backup, PlacedMove
  <2>2. op.pc = "backup" /\ Go(IF op.cmd.kind = "move" THEN "align" ELSE "addTail") /\ files' = files
    BY <1>5 DEF Backup
  <2>3. CASE op.cmd.kind = "move"
    <3>1. Go("align")
      BY <2>2, <2>3
    <3> QED
      BY <1>1, <2>2, <2>3, <3>1, GoesOn
  <2>4. CASE op.cmd.kind = "split"
    <3>1. Go("addTail")
      BY <2>2, <2>4 DEF Go
    <3> QED
      BY <1>1, <2>2, <2>4, <3>1, GoesOn
  <2> QED
    BY <2>1, <2>3, <2>4
<1>6. CASE AddToTarget \/ VerifyTarget \/ Rewrite
  <2>1. /\ op.cmd.kind = "move" /\ op.pc \in {"add", "verify", "rewrite"}
        /\ (Go("verify") /\ op.pc = "add") \/ Go("rewrite") \/ Go("rename") \/ Go("idle")
    BY <1>6 DEF AddToTarget, VerifyTarget, Rewrite, AfterTarget, Failed
  <2>2. files'.dest = files.dest
    BY <1>6, <1>b DEF AddToTarget, VerifyTarget, Rewrite
  <2> QED
    BY <1>1, <2>1, <2>2, GoesOn
<1>7. CASE Rename \/ Switch \/ Validate
  <2>1. op.cmd.kind = "move" /\ (Go("switch") \/ Go("cleanup") \/ Go("idle") \/ Go("final")) /\ op.pc \notin {"idle", "plan"}
    BY <1>7 DEF Rename, Switch, Validate, CleanupPending
  <2> QED
    BY <1>1, <2>1, GoesOn
<1>8. CASE Revalidate
  <2>1. op.cmd.kind = "move" /\ op.pc = "revalidate"
    BY <1>8 DEF Revalidate
  <2>2. CASE Go("delete") /\ backups' = [backups EXCEPT !.honcho = @ \union Exported(op.raw)]
    <3>1. ToSet(op.raw) \subseteq backups'.honcho
      BY <1>1, <2>2 DEF MoveTyped, Exported
    <3> QED
      BY <1>1, <2>1, <2>2, <3>1, GoesOn
  <2>3. CASE Go("idle")
    BY <1>1, <2>1, <2>3, GoesOn
  <2> QED
    BY <1>8, <2>2, <2>3 DEF Revalidate, CleanupPending
<1>9. CASE DeleteSource \/ AddResidual \/ Recheck
  <2>1. op.cmd.kind = "move" /\ (Go("residual") \/ Go("recheck") \/ Go("idle")) /\ op.pc \notin {"idle", "plan"}
    BY <1>9 DEF DeleteSource, AddResidual, Recheck, CleanupPending
  <2> QED
    BY <1>1, <2>1, GoesOn
<1>10. CASE AddTail \/ CheckTail
  <2>1. op.cmd.kind = "split" /\ (Go("checkTail") \/ Go("readHead") \/ Restore) /\ op.pc \in {"addTail", "checkTail"}
    BY <1>10 DEF AddTail, CheckTail
  <2>2. CASE Restore
    BY <1>1, <2>1, <2>2, RollsBack
  <2>3. CASE Go("checkTail") \/ Go("readHead")
    BY <1>1, <2>1, <2>3, GoesOn
  <2> QED
    BY <2>1, <2>2, <2>3
<1>11. CASE DeleteHead \/ AddHead \/ CheckHead \/ WriteHead \/ WriteTail \/ SwitchPart
  <2>1. /\ op.cmd.kind = "split" /\ op.pc \notin {"idle", "plan"}
        /\ Go("addHead") \/ Go("checkHead") \/ Go("writeHead") \/ Go("writeTail") \/ Go("switch") \/ Go("idle") \/ Restore
    BY <1>11 DEF DeleteHead, AddHead, CheckHead, WriteHead, WriteTail, SwitchPart
  <2>2. CASE Restore
    BY <1>1, <2>1, <2>2, RollsBack
  <2>3. CASE Go("addHead") \/ Go("checkHead") \/ Go("writeHead") \/ Go("writeTail") \/ Go("switch") \/ Go("idle")
    BY <1>1, <2>1, <2>3, GoesOn
  <2> QED
    BY <2>1, <2>2, <2>3
<1>12. CASE RestoreFile \/ UnlinkTail \/ RestoreTail \/ RestoreHead \/ RefillHead
  <2>1. /\ op.pc \in Restoring
        /\ Go("unlinkTail") \/ Go("restoreTail") \/ (Go("restoreHead") /\ op.saved)
           \/ (Go("refillHead") /\ op.pc = "restoreHead") \/ Go("idle")
    BY <1>12 DEF RestoreFile, UnlinkTail, RestoreTail, RestoreHead, RefillHead, RolledBack
  <2>2. op.cmd.kind = "split" /\ (op.pc = "restoreHead" => op.saved)
    BY <1>1, <2>1 DEF PlacedMove
  <2> QED
    BY <1>1, <2>1, <2>2, GoesOn
<1>13. CASE CallFails
  <2>1. CASE Restore
    <3>1. (op.pc \in SplitTry /\ op.cmd.kind = "split") \/ op'.pc = "idle" \/ op.pc \in Restoring
      BY <1>1, <1>13, GoesOn DEF CallFails, Failed, CleanupPending
    <3> QED
      BY <1>1, <2>1, <3>1, RollsBack DEF PlacedMove
  <2>2. CASE Go("idle")
    BY <1>1, <2>2, GoesOn
  <2>3. CASE /\ op.pc \in Restoring
             /\ op' = [op EXCEPT !.clean = FALSE,
                            !.pc = CASE @ = "restoreFile" -> "unlinkTail"
                                     [] @ = "unlinkTail" -> "restoreTail"
                                     [] OTHER -> "idle"]
    <3>1. PICK p : op' = [op EXCEPT !.clean = FALSE, !.pc = p] /\ p \in {"unlinkTail", "restoreTail", "idle"}
      BY <1>1, <2>3 DEF OpTyped
    <3>2. OpTyped(op') /\ SameCommand /\ op'.pc = p
      BY <1>1, <3>1 DEF OpTyped, SameCommand
    <3> QED
      BY <1>1, <2>3, <3>1, <3>2 DEF PlacedMove
  <2> QED
    BY <1>13, <2>1, <2>2, <2>3 DEF CallFails, Failed, CleanupPending
<1>14. CASE Crash
  <2>1. Go("idle")
    BY <1>14 DEF Crash
  <2> QED
    BY <1>1, <2>1, GoesOn
<1> QED
  BY <1>2, <1>3, <1>4, <1>5, <1>6, <1>7, <1>8, <1>9, <1>10, <1>11, <1>12, <1>13, <1>14 DEF MoveNext, Command

\* A command that is not rolled back does not say so.
LEMMA ManifestMoves ==
  ASSUME MoveTyped, MoveNext
  PROVE  manifest' = manifest \/ manifest' # "failed_rolled_back" \/ op'.pc = "idle"
<1>1. OpTyped(op)
  BY DEF MoveTyped
<1>2. Go("idle") => op'.pc = "idle"
  BY <1>1, GoesOn
<1> USE <1>2 DEF Only, Failed, CleanupPending, RolledBack
<1>3. CASE Read \/ Plan \/ SafetyGate \/ ApproveMove \/ ApproveSplit \/ Backup \/ AlignPayload \/ ReadTarget \/ AddToTarget
           \/ VerifyTarget \/ Rewrite \/ Rename \/ Switch \/ Validate \/ ReadSource \/ Revalidate
  BY <1>3 DEF Read, Plan, SafetyGate, ApproveMove, ApproveSplit, Backup, AlignPayload, ReadTarget, AddToTarget,
              VerifyTarget, Rewrite, Rename, Switch, Validate, ReadSource, Revalidate
<1>4. CASE DeleteSource \/ AddResidual \/ Recheck \/ AddTail \/ CheckTail \/ ReadHead \/ DeleteHead \/ AddHead \/ CheckHead
           \/ WriteHead \/ WriteTail \/ SwitchPart
  BY <1>4 DEF DeleteSource, AddResidual, Recheck, AddTail, CheckTail, ReadHead, DeleteHead, AddHead, CheckHead,
              WriteHead, WriteTail, SwitchPart
<1>5. CASE RestoreFile \/ UnlinkTail \/ RestoreTail \/ RestoreHead \/ RefillHead \/ FinishTurn \/ Upload \/ Visit \/ Crash
  BY <1>5 DEF RestoreFile, UnlinkTail, RestoreTail, RestoreHead, RefillHead, FinishTurn, Upload, Visit, Crash
<1>6. CASE CallFails
  BY <1>6 DEF CallFails
<1> QED
  BY <1>3, <1>4, <1>5, <1>6 DEF MoveNext, Command

LEMMA NotRolledBackStays ==
  ASSUME MoveInv, MoveNext
  PROVE  NotRolledBack'
<1>1. MoveTyped /\ NotRolledBack
  BY DEF MoveInv
<1>2. Started' => op'.pc # "idle"
  BY DEF Started
<1> QED
  BY <1>1, <1>2, ManifestMoves, StartIsBackup DEF NotRolledBack

\* Before a rollback begins nothing is given back.
LEMMA NothingBackYet ==
  ASSUME MoveInv, MoveNext, op.pc \notin Restoring \union {"idle"}
  PROVE  RollbackSoFar' /\ RollbackRestores'
<1>1. MoveTyped /\ OpTyped(op) /\ op.clean = FALSE
  BY DEF MoveInv, MoveTyped, OpTyped, RollbackSoFar
<1>2. op'.clean = FALSE \/ op'.pc = "restoreFile"
  <2>1. CASE UNCHANGED op
    BY <1>1, <2>1
  <2>2. CASE Restore
    BY <1>1, <2>2, RollsBack
  <2>3. CASE Paced
    <3>1. PICK p : Go(p)
      BY <2>3 DEF Paced
    <3> QED
      BY <1>1, <3>1, GoesOn
  <2>4. CASE ApproveMove
    <3>1. CASE Go("idle")
      BY <1>1, <3>1, GoesOn
    <3>2. CASE ~Go("idle")
      <4> DEFINE m == op.merge \/ memory.to.exists
      <4>1. op' = [op EXCEPT !.pc = "backup", !.merge = m]
        BY <2>4, <3>2 DEF ApproveMove
      <4> HIDE DEF m
      <4> QED
        BY <1>1, <4>1 DEF OpTyped
    <3> QED
      BY <3>1, <3>2
  <2>5. CASE CallFails
    <3>1. Restore \/ Go("idle")
      BY <2>5 DEF CallFails, Failed, CleanupPending
    <3> QED
      BY <1>1, <3>1, GoesOn, RollsBack
  <2> QED
    BY <1>1, <2>1, <2>2, <2>3, <2>4, <2>5, OpChanges, ReadStays, PlanStays, ReadHeadStays, MoveReadsStay DEF OpSteps
<1> QED
  BY <1>2 DEF RollbackSoFar, RollbackRestores, Restoring

LEMMA IdleStays ==
  ASSUME MoveInv, MoveNext, op.pc = "idle"
  PROVE  RollbackSoFar' /\ RollbackRestores'
<1>1. MoveTyped /\ OpTyped(op) /\ PlacedMove /\ FilesRow /\ MemoryRow
  BY FilesMove, MemoryMoves DEF MoveInv, MoveTyped
<1>2. CASE Read
  BY <1>2, ReadStays DEF RollbackSoFar, RollbackRestores
<1>3. CASE FinishTurn \/ Upload \/ Visit
  <2>1. op' = op /\ manifest' = manifest
    BY <1>3 DEF FinishTurn, Upload, Visit
  <2>2. RollbackSoFar'
    BY <2>1 DEF RollbackSoFar, Restoring
  <2>3. Elements(files.source) \subseteq Elements(files'.source) /\ (files.tail = NoFile => files'.tail = NoFile)
    BY <1>1 DEF FilesRow, Started
  <2>4. ToSet(memory.from.said) \subseteq ToSet(memory'.from.said) /\ (memory'.tail.exists => memory.tail.exists)
    BY <1>1 DEF MemoryRow
  <2>5. Texts(memory.from.said) \subseteq Texts(memory'.from.said)
    BY <2>4 DEF Texts, ToSet
  <2> QED
    BY <2>1, <2>2, <2>3, <2>4, <2>5 DEF MoveInv, RollbackRestores
<1>4. Read \/ FinishTurn \/ Upload \/ Visit
  <2>1. ~CallFails /\ ~Crash
    BY DEF CallFails, Crash, MoveTry, CleanupTry, SplitTry, Restoring
  <2>2. ~(Plan \/ SafetyGate \/ ApproveMove \/ ApproveSplit \/ Backup \/ AlignPayload \/ ReadTarget \/ AddToTarget
          \/ VerifyTarget \/ Rewrite \/ Rename \/ Switch \/ Validate \/ ReadSource \/ Revalidate \/ DeleteSource)
    BY DEF Plan, SafetyGate, ApproveMove, ApproveSplit, Backup, AlignPayload, ReadTarget, AddToTarget,
           VerifyTarget, Rewrite, Rename, Switch, Validate, ReadSource, Revalidate, DeleteSource, At
  <2>3. ~(AddResidual \/ Recheck \/ AddTail \/ CheckTail \/ ReadHead \/ DeleteHead \/ AddHead \/ CheckHead \/ WriteHead
          \/ WriteTail \/ SwitchPart \/ RestoreFile \/ UnlinkTail \/ RestoreTail \/ RestoreHead \/ RefillHead)
    BY DEF AddResidual, Recheck, AddTail, CheckTail, ReadHead, DeleteHead, AddHead, CheckHead, WriteHead,
           WriteTail, SwitchPart, RestoreFile, UnlinkTail, RestoreTail, RestoreHead, RefillHead, At
  <2> QED
    BY <2>1, <2>2, <2>3 DEF MoveNext, Command
<1> QED
  BY <1>2, <1>3, <1>4

\* A rollback gives back one part after the other.
LEMMA RollbackStays ==
  ASSUME MoveInv, MoveNext, op.pc \in Restoring
  PROVE  RollbackSoFar' /\ RollbackRestores'
<1>1. /\ MoveTyped /\ OpTyped(op) /\ PlacedMove /\ RollbackSoFar /\ ReadIsKept /\ NotRolledBack
      /\ FilesRow /\ MemoryRow /\ Started /\ op.cmd.kind = "split"
  BY FilesMove, MemoryMoves DEF MoveInv, MoveTyped, PlacedMove, SplitSteps, Started, Restoring
<1>2. /\ files.tail = NoFile => files'.tail = NoFile
      /\ op.pc # "restoreFile" => files'.source = files.source
      /\ memory'.tail.exists => memory.tail.exists
  BY <1>1 DEF FilesRow, MemoryRow, Restoring
<1>3. CASE Upload \/ Visit
  <2>1. op' = op /\ files' = files
    BY <1>3 DEF Upload, Visit
  <2> QED
    BY <1>1, <1>2, <2>1 DEF RollbackSoFar, RollbackRestores, RestoredFile, Restoring
<1>4. CASE RestoreFile
  <2>1. Go("unlinkTail") /\ files'.source = op.lines
    BY <1>1, <1>4 DEF RestoreFile, MoveTyped, FilesTyped
  <2> QED
    BY <1>1, <2>1, GoesOn DEF RollbackSoFar, RollbackRestores, RestoredFile, SameCommand, Restoring
<1>5. CASE UnlinkTail
  <2>1. Go("restoreTail") /\ files'.tail = NoFile /\ op.pc = "unlinkTail"
    BY <1>1, <1>5 DEF UnlinkTail, MoveTyped, FilesTyped
  <2> QED
    BY <1>1, <1>2, <2>1, GoesOn DEF RollbackSoFar, RollbackRestores, RestoredFile, SameCommand, Restoring
<1>6. CASE RestoreTail
  <2>1. op.pc = "restoreTail" /\ memory' = [memory EXCEPT !.tail = NoMemory] /\ files' = files
    BY <1>6 DEF RestoreTail, Only
  <2>2. memory'.from = memory.from /\ ~memory'.tail.exists
    BY <1>1, <2>1 DEF MoveTyped, MemoryTyped, NoMemory
  <2>3. CASE Go("restoreHead")
    BY <1>1, <1>2, <2>1, <2>2, <2>3, GoesOn DEF RollbackSoFar, RollbackRestores, RestoredFile, SameCommand, Restoring
  <2>4. CASE Go("idle") /\ ~op.saved
    <3>1. Texts(op.read) \subseteq Texts(memory.from.said)
      BY <1>1, <2>4 DEF ReadIsKept, Texts, ToSet
    <3> QED
      BY <1>1, <2>1, <2>2, <2>4, <3>1, GoesOn DEF RollbackSoFar, RollbackRestores, RestoredFile, SameCommand, Restoring
  <2> QED
    BY <1>6, <2>3, <2>4 DEF RestoreTail, RolledBack
<1>7. CASE RestoreHead
  <2>1. op.pc = "restoreHead" /\ Go("refillHead")
    BY <1>7 DEF RestoreHead
  <2> QED
    BY <1>1, <1>2, <2>1, GoesOn DEF RollbackSoFar, RollbackRestores, RestoredFile, SameCommand, Restoring
<1>8. CASE RefillHead
  <2>1. op.pc = "refillHead" /\ Go("idle") /\ files' = files /\ Adds("from", op.raw) /\ op.raw \in Seq(Messages)
    BY <1>1, <1>8, OpFields DEF RefillHead, RolledBack, TheCopy, Only
  <2>2. ToSet(op.raw) \subseteq ToSet(memory'.from.said)
    BY <1>1, <2>1, AddsKeep
  <2>3. ToSet(op.read) \subseteq ToSet(memory'.from.said)
    BY <1>1, <2>1, <2>2 DEF ReadIsKept, PlacedMove, Heads
  <2>4. Texts(op.read) \subseteq Texts(memory'.from.said)
    BY <2>3 DEF Texts, ToSet
  <2> QED
    BY <1>1, <1>2, <2>1, <2>4, GoesOn DEF RollbackSoFar, RollbackRestores, RestoredFile, SameCommand, Restoring
<1>9. CASE CallFails
  <2>1. PICK p : op' = [op EXCEPT !.clean = FALSE, !.pc = p]
    BY <1>9 DEF CallFails, MoveTry, CleanupTry, SplitTry, Restoring
  <2>2. op'.clean = FALSE
    BY <1>1, <2>1 DEF OpTyped
  <2> QED
    BY <2>2 DEF RollbackSoFar, RollbackRestores
<1>10. CASE Crash
  <2>1. Go("idle") /\ manifest' = manifest
    BY <1>10 DEF Crash
  <2> QED
    BY <1>1, <2>1, GoesOn DEF RollbackSoFar, RollbackRestores, NotRolledBack, Restoring
<1>11. Upload \/ Visit \/ RestoreFile \/ UnlinkTail \/ RestoreTail \/ RestoreHead \/ RefillHead \/ CallFails \/ Crash
  <2>1. ~(Read \/ Plan \/ SafetyGate \/ ApproveMove \/ ApproveSplit \/ Backup \/ AlignPayload \/ ReadTarget \/ AddToTarget
          \/ VerifyTarget \/ Rewrite \/ Rename \/ Switch \/ Validate \/ ReadSource \/ Revalidate \/ DeleteSource)
    BY DEF Read, Plan, SafetyGate, ApproveMove, ApproveSplit, Backup, AlignPayload, ReadTarget, AddToTarget,
           VerifyTarget, Rewrite, Rename, Switch, Validate, ReadSource, Revalidate, DeleteSource, At, Restoring
  <2>2. ~(AddResidual \/ Recheck \/ AddTail \/ CheckTail \/ ReadHead \/ DeleteHead \/ AddHead \/ CheckHead \/ WriteHead
          \/ WriteTail \/ SwitchPart \/ FinishTurn)
    BY DEF AddResidual, Recheck, AddTail, CheckTail, ReadHead, DeleteHead, AddHead, CheckHead, WriteHead,
           WriteTail, SwitchPart, FinishTurn, At, Restoring
  <2> QED
    BY <2>1, <2>2 DEF MoveNext, Command
<1> QED
  BY <1>3, <1>4, <1>5, <1>6, <1>7, <1>8, <1>9, <1>10, <1>11

LEMMA InitMove == MoveInit => MoveInv
<1> SUFFICES ASSUME MoveInit PROVE MoveInv
  OBVIOUS
<1>1. PICK s \in Sessions :
        /\ files = [source |-> s.file, dest |-> NoFile, tail |-> NoFile]
        /\ memory = [from |-> s.from, to |-> s.to, tail |-> NoMemory]
        /\ op = Idle /\ manifest = "none" /\ backups = [pi |-> {}, honcho |-> {}]
        /\ agent = [working |-> Working, lag |-> {}] /\ visitors = Visitors /\ gone = {}
        /\ ever = [turns |-> Elements(s.file), uploads |-> ToSet(s.from.said) \union ToSet(s.to.said)]
  BY DEF MoveInit
<1>2. IsFile(s.file)
  <2>1. PICK f : f = s.file
    OBVIOUS
  <2>2. f \in [cwd : {"from"}, turns : Seq(Turns), aside : SUBSET Turns]
    BY <2>1, MoveAssumption
  <2>3. f = [cwd |-> f.cwd, turns |-> f.turns, aside |-> f.aside] /\ f.turns \in Seq(Turns)
    BY <2>2
  <2> QED
    BY <2>1, <2>3 DEF IsFile
<1>3. IsMemory(s.from) /\ IsMemory(s.to)
  BY MoveAssumption DEF IsMemory
<1>4. MoveTyped
  BY <1>1, <1>2, <1>3, NothingTyped, MoveAssumption DEF MoveTyped, FilesTyped, MemoryTyped
<1>5. op.pc = "idle" /\ op.cmd.kind = "none" /\ op.saved = FALSE /\ op.clean = FALSE /\ ~Started
  BY <1>1 DEF Idle, Started
<1>6. PlacedMove /\ ReadIsKept /\ RollbackSoFar /\ NotRolledBack /\ RollbackRestores
  BY <1>5 DEF PlacedMove, SplitSteps, SplitTry, Restoring, Early, MoveTry, Unread, Heads, ReadIsKept, RollbackSoFar,
              NotRolledBack, RollbackRestores
<1>7. CopiedMemory /\ CopiedTranscript
  BY <1>1, <1>5 DEF CopiedMemory, CopiedTranscript, Uploaded, CopiedFile
<1> QED
  BY <1>4, <1>6, <1>7 DEF MoveInv

LEMMA NextMove == MoveInv /\ [MoveNext]_moveVars => MoveInv'
<1>1. CASE MoveInv /\ MoveNext
  <2>1. OpTyped(op') /\ PlacedMove' /\ CopiedMemory' /\ ReadIsKept'
    BY <1>1, StepsAreSteady, SteadyStays, ReadStays, PlanStays, ReadHeadStays, MoveReadsStay DEF Steady
  <2>2. MoveTyped /\ PlacedMove /\ CopiedTranscript
    BY <1>1 DEF MoveInv
  <2>3. FilesRow /\ MemoryRow /\ BackupsRow
    BY <1>1, <2>2, FilesMove, MemoryMoves, BackupsMove
  <2>4. MoveTyped'
    BY <2>1, <2>3 DEF MoveTyped, FilesRow, MemoryRow, BackupsRow
  <2>5. CopiedTranscript' /\ NotRolledBack'
    BY <1>1, <2>2, TranscriptStays, NotRolledBackStays
  <2>6. RollbackSoFar' /\ RollbackRestores'
    BY <1>1, NothingBackYet, IdleStays, RollbackStays
  <2> QED
    BY <2>1, <2>4, <2>5, <2>6 DEF MoveInv
<1>2. CASE MoveInv /\ UNCHANGED moveVars
  <2> USE <1>2 DEF moveVars
  <2>1. MoveTyped' /\ PlacedMove' /\ CopiedMemory' /\ CopiedTranscript'
    BY DEF MoveInv, MoveTyped, PlacedMove, CopiedMemory, CopiedTranscript, Uploaded, CopiedFile, Started
  <2>2. ReadIsKept' /\ RollbackSoFar' /\ NotRolledBack' /\ RollbackRestores'
    BY DEF MoveInv, ReadIsKept, RollbackSoFar, RestoredFile, NotRolledBack, RollbackRestores, Started
  <2> QED
    BY <2>1, <2>2 DEF MoveInv
<1> QED
  BY <1>1, <1>2

LEMMA MoveShown == MoveInv => NothingIsLost
<1> SUFFICES ASSUME MoveInv PROVE NothingIsLost
  OBVIOUS
<1>1. MoveTyped /\ CopiedMemory /\ CopiedTranscript /\ RollbackRestores
  BY DEF MoveInv
<1>2. MemorySurvives
  <2>1. DOMAIN memory = {"from", "to", "tail"}
    BY <1>1 DEF MoveTyped, MemoryTyped
  <2>2. Uploaded \subseteq Remembered
    <3>1. \A k \in DOMAIN memory : ToSet(memory[k].said) \subseteq Remembered
      BY DEF Remembered
    <3>2. ToSet(memory.from.said) \subseteq Remembered /\ ToSet(memory.to.said) \subseteq Remembered
      BY <2>1, <3>1
    <3>3. backups.honcho \subseteq Remembered
      BY DEF Remembered
    <3> QED
      BY <3>2, <3>3 DEF Uploaded
  <2> QED
    BY <1>1, <2>2 DEF CopiedMemory, MemorySurvives
<1>3. TranscriptSurvives
  <2>1. files.source \in Range(files) /\ files.dest \in Range(files)
    <3>1. DOMAIN files = {"source", "dest", "tail"}
      BY <1>1 DEF MoveTyped, FilesTyped
    <3> QED
      BY <3>1 DEF Range
  <2> DEFINE kept == Range(files) \union backups.pi
  <2>2. files.source \in kept /\ files.dest \in kept /\ backups.pi \subseteq kept
    BY <2>1
  <2> HIDE DEF kept
  <2> DEFINE all == UNION {Elements(g) : g \in kept}
  <2>3. \A f \in kept : Elements(f) \subseteq all
    OBVIOUS
  <2> HIDE DEF all
  <2>4. UNION {Elements(f) : f \in backups.pi} \subseteq all
    BY <2>2, <2>3
  <2>5. CopiedFile \union Elements(files.source) \subseteq all
    BY <2>2, <2>3, <2>4 DEF CopiedFile
  <2> QED
    BY <1>1, <2>5 DEF CopiedTranscript, TranscriptSurvives, kept, all
<1> QED
  BY <1>1, <1>2, <1>3 DEF NothingIsLost

\* What the steps of a command have made sure of: what is to be said, what the memories say,
\* and what the files hold.
Verified == {"rewrite", "rename", "switch"} \union CleanupTry
Placed == {"switch"} \union CleanupTry
TailMade == {"readHead", "deleteHead", "addHead", "checkHead", "writeHead", "writeTail", "switch"}
HeadMade == {"writeHead", "writeTail", "switch"}
Moved == [op.lines EXCEPT !.cwd = "to"]
OpHonest ==
  /\ op.cmd.kind = "move" => Texts(op.msgs) = Texts(RebuildMessages(op.lines.turns))
  /\ op.pc \in {"add", "verify"} => Texts(op.msgs) \subseteq Texts(op.expected)
  /\ op.cmd.kind = "split" /\ op.pc \notin {"idle", "plan"} =>
       /\ Texts(RebuildMessages(Heading)) \subseteq Texts(op.head)
       /\ Texts(RebuildMessages(Tailing)) \subseteq Texts(op.expected)
MemoryHonest ==
  /\ op.cmd.kind = "move" /\ op.pc \in Verified => Texts(op.msgs) \subseteq Texts(memory.to.said)
  /\ op.cmd.kind = "split" /\ op.pc \in TailMade => Texts(op.expected) \subseteq Texts(memory.tail.said)
  /\ op.cmd.kind = "split" /\ op.pc \in HeadMade => Texts(op.head) \subseteq Texts(memory.from.said)
FilesHonest ==
  /\ op.cmd.kind = "move" /\ op.pc = "rename" => files.source = Moved
  /\ op.cmd.kind = "move" /\ op.pc \in Placed => files.source = NoFile /\ files.dest = Moved
  /\ op.cmd.kind = "split" /\ op.pc \in {"writeTail", "switch"} => files.source.turns = Heading
  /\ op.cmd.kind = "split" /\ op.pc = "switch" => files.tail.turns = Tailing
HonestInv == MoveInv /\ OpHonest /\ MemoryHonest /\ FilesHonest

\* What lists of messages say.
LEMMA TextsGrow == \A s, t : ToSet(s) \subseteq ToSet(t) => Texts(s) \subseteq Texts(t)
BY DEF Texts, ToSet

LEMMA TextsOfBoth ==
  ASSUME NEW s \in Seq(Messages), NEW t \in Seq(Messages)
  PROVE  Texts(s \o t) = Texts(s) \union Texts(t)
<1>1. \A u : Texts(u) = {m.text : m \in ToSet(u)}
  BY DEF Texts, ToSet
<1>2. ToSet(s \o t) = ToSet(s) \union ToSet(t)
  BY ElementsOfBoth
<1> HIDE DEF Texts
<1>3. Texts(s \o t) = {m.text : m \in ToSet(s) \union ToSet(t)}
  BY <1>1, <1>2
<1> QED
  BY <1>1, <1>3

LEMMA AlignSaysTheSame ==
  ASSUME NEW msgs \in Seq(Messages), NEW source \in Seq(Messages)
  PROVE  Texts(Align(msgs, source).out) = Texts(msgs)
<1> DEFINE Taken(i) == {j \in DOMAIN source : source[j].text = msgs[i].text /\ Nth(source, j) = Nth(msgs, i)}
           Pick(i) == IF Taken(i) = {} THEN msgs[i] ELSE source[CHOOSE j \in Taken(i) : TRUE]
           out == [i \in DOMAIN msgs |-> Pick(i)]
<1>1. \A i \in DOMAIN msgs : Pick(i).text = msgs[i].text
  <2>1. ASSUME NEW i \in DOMAIN msgs, Taken(i) # {}
        PROVE  (CHOOSE j \in Taken(i) : TRUE) \in Taken(i)
    BY <2>1
  <2> QED
    BY <2>1
<1>2. Align(msgs, source).out = out
  BY DEF Align
<1> HIDE DEF Pick
<1>3. DOMAIN out = DOMAIN msgs /\ \A i \in DOMAIN msgs : out[i].text = msgs[i].text
  BY <1>1
<1> HIDE DEF out
<1> QED
  BY <1>2, <1>3 DEF Texts

LEMMA MissingIsAdded ==
  ASSUME NEW msgs \in Seq(Messages), NEW target
  PROVE  Texts(msgs) \subseteq Texts(target) \union Texts(Missing(msgs, target))
<1> DEFINE S == {m \in ToSet(msgs) : m.text \notin Texts(target)}
           miss == Filtered(msgs, S)
<1>1. miss \in Seq(S \intersect Messages) /\ \A i \in 1..Len(msgs) : msgs[i] \in S => Holds(miss, msgs[i])
  BY FilterComputes
<1>2. miss = Missing(msgs, target) /\ DOMAIN msgs = 1..Len(msgs)
  BY DEF Missing
<1>3. ASSUME NEW i \in DOMAIN msgs, msgs[i].text \notin Texts(target)
      PROVE  msgs[i].text \in Texts(miss)
  <2>1. msgs[i] \in S
    BY <1>3 DEF ToSet
  <2>2. Holds(miss, msgs[i]) /\ DOMAIN miss = 1..Len(miss)
    BY <1>1, <1>2, <2>1
  <2> HIDE DEF miss
  <2> QED
    BY <2>2 DEF Holds, Texts
<1> HIDE DEF miss
<1>4. ASSUME NEW t \in Texts(msgs), t \notin Texts(target) PROVE t \in Texts(miss)
  <2>1. PICK i \in DOMAIN msgs : t = msgs[i].text
    BY DEF Texts
  <2> QED
    BY <1>3, <1>4, <2>1
<1> QED
  BY <1>2, <1>4

LEMMA HeadThenTail ==
  ASSUME NEW B, NEW s \in Seq(B), NEW n \in 1..Len(s)
  PROVE  HeadOf(s, n) \o TailOf(s, n) = s
<1>1. Len(s) \in Nat
  OBVIOUS
<1>2. (\A i \in 1..(n - 1) : s[i] \in B) /\ (\A i \in n..Len(s) : s[i] \in B) /\ n - 1 \in Int
  BY <1>1
<1> DEFINE h == HeadOf(s, n)
           t == TailOf(s, n)
<1>3. h \in Seq(B) /\ Len(h) = n - 1 /\ \A i \in 1..(n - 1) : h[i] = s[i]
  BY <1>1, <1>2, SubSeqProperties DEF HeadOf
<1>4. t \in Seq(B) /\ Len(t) = Len(s) - n + 1 /\ \A i \in 1..(Len(s) - n + 1) : t[i] = s[n + i - 1]
  BY <1>1, <1>2, SubSeqProperties DEF TailOf
<1> HIDE DEF h, t
<1>5. h \o t \in Seq(B) /\ Len(h \o t) = Len(s)
  BY <1>1, <1>3, <1>4
<1>6. ASSUME NEW i \in 1..Len(s) PROVE (h \o t)[i] = s[i]
  <2>1. CASE i =< n - 1
    BY <1>1, <1>3, <1>4, <2>1
  <2>2. CASE ~(i =< n - 1)
    <3>1. (h \o t)[i] = t[i - (n - 1)]
      BY <1>1, <1>3, <1>4, <2>2
    <3>2. i - (n - 1) \in 1..(Len(s) - n + 1) /\ n + (i - (n - 1)) - 1 = i
      BY <1>1, <2>2
    <3> QED
      BY <1>4, <3>1, <3>2
  <2> QED
    BY <2>1, <2>2
<1> QED
  BY <1>1, <1>5, <1>6, SeqEqual DEF h, t

LEMMA PlanCovers ==
  ASSUME NEW source \in Seq(Messages), NEW headMsgs \in Seq(Messages), NEW tailMsgs
  PROVE  Texts(headMsgs) \subseteq Texts(PlanHead(source, headMsgs, tailMsgs))
<1> DEFINE out == Align(headMsgs, source).out
<1>1. PICK kept \in Seq(Messages) : PlanHead(source, headMsgs, tailMsgs) = kept \o Missing(out, kept)
  BY PlanParts
<1>2. out \in Seq(Messages) /\ Texts(out) = Texts(headMsgs)
  BY AlignIsList, AlignSaysTheSame
<1> HIDE DEF out
<1>3. Missing(out, kept) \in Seq(Messages) /\ Texts(out) \subseteq Texts(kept) \union Texts(Missing(out, kept))
  BY <1>2, MissingIsList, MissingIsAdded
<1>4. Texts(kept \o Missing(out, kept)) = Texts(kept) \union Texts(Missing(out, kept))
  BY <1>3, TextsOfBoth
<1> QED
  BY <1>1, <1>2, <1>3, <1>4

\* What a command has to say does not change after it was planned.
LEMMA SteadyHonest ==
  ASSUME OpHonest, Steady
  PROVE  OpHonest'
BY DEF OpHonest, Steady, SameCommand, Heading, Tailing

LEMMA OpStaysHonest ==
  ASSUME HonestInv, MoveNext
  PROVE  OpHonest'
<1>1. /\ MoveInv /\ OpHonest /\ MoveTyped /\ PlacedMove /\ OpTyped(op) /\ op.lines.turns \in Seq(Turns)
      /\ memory.from.said \in Seq(Messages) /\ memory.to.said \in Seq(Messages) /\ op.msgs \in Seq(Messages)
      /\ op.lines.turns \in Seq(SomeTurns) /\ files.source.turns \in Seq(SomeTurns)
  BY OpFields, TurnsAreSome DEF HonestInv, MoveInv, MoveTyped, MemoryTyped, IsMemory, FilesTyped, IsFile
<1>2. CASE ~Read /\ ~Plan /\ ~ReadHead /\ ~AlignPayload /\ ~ReadTarget /\ ~ReadSource
  BY <1>1, <1>2, StepsAreSteady, SteadyHonest
<1>3. CASE Read
  <2>1. PICK c \in Parsed :
          \/ /\ c.kind = "move" /\ files.dest = NoFile
             /\ op' = [Idle EXCEPT !.pc = "gate", !.cmd = c, !.lines = files.source, !.merge = c.merge,
                                   !.msgs = RebuildMessages(files.source.turns)]
          \/ /\ c.kind = "split"
             /\ \E n \in Cuts(c, files.source.turns) :
                  op' = [Idle EXCEPT !.pc = "plan", !.cmd = [c EXCEPT !.cut = n], !.lines = files.source]
    BY <1>3 DEF Read
  <2> DEFINE l == files.source
             ms == RebuildMessages(files.source.turns)
  <2>2. ms = RebuildMessages(l.turns)
    OBVIOUS
  <2>3. c = [kind |-> c.kind, current |-> c.current, merge |-> c.merge, cut |-> c.cut]
    BY <2>1, MoveAssumption DEF Parsed
  <2> HIDE DEF l, ms
  <2>4. CASE /\ c.kind = "move"
             /\ op' = [Idle EXCEPT !.pc = "gate", !.cmd = c, !.lines = l, !.merge = c.merge, !.msgs = ms]
    <3>1. op'.pc = "gate" /\ op'.cmd = c /\ op'.lines = l /\ op'.msgs = ms
      BY <2>4 DEF Idle
    <3> QED
      BY <2>2, <2>4, <3>1 DEF OpHonest
  <2>5. CASE /\ c.kind = "split"
             /\ \E n \in Cuts(c, files.source.turns) :
                  op' = [Idle EXCEPT !.pc = "plan", !.cmd = [c EXCEPT !.cut = n], !.lines = l]
    <3>1. PICK n : op' = [Idle EXCEPT !.pc = "plan", !.cmd = [c EXCEPT !.cut = n], !.lines = l]
      BY <2>5
    <3> DEFINE d == [c EXCEPT !.cut = n]
    <3>2. d.kind = "split"
      BY <2>3, <2>5
    <3> HIDE DEF d
    <3>3. op'.pc = "plan" /\ op'.cmd = d
      BY <3>1 DEF Idle, d
    <3> QED
      BY <3>2, <3>3 DEF OpHonest
  <2> QED
    BY <2>1, <2>4, <2>5 DEF l, ms
<1>4. CASE Plan
  <2>1. op.pc = "plan" /\ op.cmd.kind = "split"
    BY <1>4 DEF Plan, At
  <2>2. CASE Go("idle")
    BY <1>1, <2>1, <2>2, GoesOn DEF OpHonest, SameCommand
  <2>3. CASE ~Go("idle")
    <3> DEFINE r == memory.from.said
               h == PlanHead(memory.from.said, RebuildMessages(Heading), RebuildMessages(Tailing))
               e == Align(RebuildMessages(Tailing), memory.from.said).out
    <3>1. op' = [op EXCEPT !.pc = "gate", !.read = r, !.head = h, !.expected = e]
      BY <1>4, <2>3 DEF Plan
    <3>2. Heading \in Seq(SomeTurns) /\ Tailing \in Seq(SomeTurns)
      BY <1>1, <2>1, HeadAndTail DEF Heading, Tailing, PlacedMove
    <3>3. RebuildMessages(Heading) \in Seq(Messages) /\ RebuildMessages(Tailing) \in Seq(Messages)
      BY <3>2, RebuildIsList
    <3>4. Texts(RebuildMessages(Heading)) \subseteq Texts(h) /\ Texts(RebuildMessages(Tailing)) = Texts(e)
      BY <1>1, <3>3, PlanCovers, AlignSaysTheSame
    <3> HIDE DEF r, h, e
    <3>5. op'.pc = "gate" /\ op'.cmd = op.cmd /\ op'.lines = op.lines /\ op'.head = h /\ op'.expected = e
      BY <1>1, <3>1 DEF OpTyped
    <3>6. Heading' = Heading /\ Tailing' = Tailing
      BY <3>5 DEF Heading, Tailing
    <3> QED
      BY <2>1, <3>4, <3>5, <3>6 DEF OpHonest
  <2> QED
    BY <2>2, <2>3
<1>5. CASE AlignPayload
  <2> DEFINE a == Align(op.msgs, memory.from.said).out
  <2>1. Texts(a) = Texts(op.msgs)
    BY <1>1, AlignSaysTheSame
  <2>2. op' = [op EXCEPT !.pc = "target", !.msgs = a] /\ op.cmd.kind = "move"
    BY <1>5 DEF AlignPayload, At
  <2> HIDE DEF a
  <2>3. op'.pc = "target" /\ op'.cmd = op.cmd /\ op'.lines = op.lines /\ op'.msgs = a
    BY <1>1, <2>2 DEF OpTyped
  <2> QED
    BY <1>1, <2>1, <2>2, <2>3 DEF OpHonest
<1>6. CASE ReadTarget
  <2>1. CASE Go("idle")
    BY <1>1, <1>6, <2>1, GoesOn DEF OpHonest, SameCommand, ReadTarget, At
  <2>2. CASE ~Go("idle")
    <3> DEFINE m == Missing(op.msgs, memory.to.said)
               e == memory.to.said \o m
    <3>1. Texts(op.msgs) \subseteq Texts(e)
      <4>1. m \in Seq(Messages) /\ Texts(op.msgs) \subseteq Texts(memory.to.said) \union Texts(m)
        BY <1>1, MissingIsList, MissingIsAdded
      <4> HIDE DEF m
      <4> QED
        BY <1>1, <4>1, TextsOfBoth
    <3>2. op' = [op EXCEPT !.pc = "add", !.raw = m, !.expected = e] /\ op.cmd.kind = "move"
      BY <1>6, <2>2 DEF ReadTarget, Failed, At
    <3> HIDE DEF m, e
    <3>3. op'.pc = "add" /\ op'.cmd = op.cmd /\ op'.lines = op.lines /\ op'.msgs = op.msgs /\ op'.expected = e
      BY <1>1, <3>2 DEF OpTyped
    <3> QED
      BY <1>1, <3>1, <3>2, <3>3 DEF OpHonest
  <2> QED
    BY <2>1, <2>2
<1>7. CASE ReadSource
  <2> DEFINE r == memory.from.said
             s == memory.from.exists
  <2>1. op' = [op EXCEPT !.pc = "revalidate", !.raw = r, !.saved = s] /\ op.cmd.kind = "move"
    BY <1>7 DEF ReadSource, At
  <2> HIDE DEF r, s
  <2>2. op'.pc = "revalidate" /\ op'.cmd = op.cmd /\ op'.lines = op.lines /\ op'.msgs = op.msgs
    BY <1>1, <2>1 DEF OpTyped
  <2> QED
    BY <1>1, <2>1, <2>2 DEF OpHonest
<1>8. CASE ReadHead
  <2> DEFINE r == memory.from.said
  <2>1. op' = [op EXCEPT !.pc = "deleteHead", !.raw = r, !.saved = TRUE] /\ op.cmd.kind = "split" /\ op.pc = "readHead"
    BY <1>8 DEF ReadHead, At
  <2> HIDE DEF r
  <2>2. /\ op'.pc = "deleteHead" /\ op'.cmd = op.cmd /\ op'.lines = op.lines /\ op'.head = op.head
        /\ op'.expected = op.expected
    BY <1>1, <2>1 DEF OpTyped
  <2>3. Heading' = Heading /\ Tailing' = Tailing
    BY <2>2 DEF Heading, Tailing
  <2> QED
    BY <1>1, <2>1, <2>2, <2>3 DEF OpHonest
<1> QED
  BY <1>2, <1>3, <1>4, <1>5, <1>6, <1>7, <1>8

\* What the steps of a command make sure of: one that follows from what a step compared or
\* wrote, or was so already and is left alone.
Traced ==
  /\ op.cmd.kind = "move" /\ op'.pc \in Verified =>
       op.pc \in Verified \/ (op.pc = "verify" /\ memory'.to.said = op.expected)
  /\ op.cmd.kind = "split" /\ op'.pc \in TailMade => op.pc \in TailMade \/ memory'.tail.said = op.expected
  /\ op.cmd.kind = "split" /\ op'.pc \in HeadMade => op.pc \in HeadMade \/ memory'.from.said = op.head
  /\ op.cmd.kind = "move" /\ op'.pc = "rename" => (op.pc = "rename" /\ files' = files) \/ files'.source = Moved
  /\ op.cmd.kind = "move" /\ op'.pc \in Placed =>
       \/ op.pc \in Placed /\ files' = files
       \/ op.pc = "rename" /\ files'.source = NoFile /\ files'.dest = files.source
  /\ op.cmd.kind = "split" /\ op'.pc \in {"writeTail", "switch"} =>
       \/ op.pc \in {"writeTail", "switch"} /\ files'.source = files.source
       \/ files'.source.turns = Heading
  /\ op.cmd.kind = "split" /\ op'.pc = "switch" => (op.pc = "switch" /\ files' = files) \/ files'.tail.turns = Tailing

LEMMA StepsAreTraced ==
  ASSUME MoveInv, MoveNext, ~Read, ~Plan, ~AlignPayload, ~ReadTarget
  PROVE  Traced
<1>1. MoveTyped /\ PlacedMove /\ OpTyped(op)
  BY DEF MoveInv, MoveTyped
<1>2. files = [source |-> files.source, dest |-> files.dest, tail |-> files.tail]
  BY <1>1 DEF MoveTyped, FilesTyped
<1> USE DEF Traced, Verified, Placed, TailMade, HeadMade, CleanupTry, At, Only
<1>3. CASE FinishTurn
  BY <1>3 DEF FinishTurn
<1>4. CASE Upload \/ Visit
  BY <1>4 DEF Upload, Visit
<1>5. CASE op'.pc \in {"idle", "approve", "backup", "align", "addTail", "verify", "checkTail"} \union Restoring
  BY <1>5 DEF Restoring
<1>6. CASE SafetyGate \/ ApproveSplit \/ AddToTarget \/ AddTail \/ Crash
  <2>1. Go("idle") \/ Go("approve") \/ Go("backup") \/ Go("verify") \/ Go("checkTail")
    BY <1>6 DEF SafetyGate, ApproveSplit, AddToTarget, AddTail, Crash
  <2> QED
    BY <1>1, <1>5, <2>1, GoesOn
<1>7. CASE ApproveMove
  <2>1. CASE Go("idle")
    BY <1>1, <1>5, <2>1, GoesOn
  <2>2. CASE ~Go("idle")
    <3> DEFINE m == op.merge \/ memory.to.exists
    <3>1. op' = [op EXCEPT !.pc = "backup", !.merge = m]
      BY <1>7, <2>2 DEF ApproveMove
    <3> HIDE DEF m
    <3>2. op'.pc = "backup"
      BY <1>1, <3>1 DEF OpTyped
    <3> QED
      BY <1>5, <3>2
  <2> QED
    BY <2>1, <2>2
<1>8. CASE Backup
  <2>1. op' = [op EXCEPT !.pc = IF op.cmd.kind = "move" THEN "align" ELSE "addTail"]
    BY <1>8 DEF Backup, Go
  <2>2. Go("align") \/ Go("addTail")
    BY <2>1 DEF Go
  <2> QED
    BY <1>1, <1>5, <2>2, GoesOn
<1>9. CASE VerifyTarget
  <2>1. CASE Go("idle")
    BY <1>1, <1>5, <2>1, GoesOn
  <2>2. CASE ~Go("idle")
    <3>1. op.pc = "verify" /\ Go("rewrite") /\ memory' = memory /\ memory.to.said = op.expected /\ op.cmd.kind = "move"
      BY <1>9, <2>2 DEF VerifyTarget, AfterTarget, Failed, Matches
    <3> QED
      BY <1>1, <3>1, GoesOn
  <2> QED
    BY <2>1, <2>2
<1>10. CASE Rewrite
  <2>1. op.pc = "rewrite" /\ op.cmd.kind = "move" /\ Go("rename") /\ files' = [files EXCEPT !.source = Moved]
    BY <1>10 DEF Rewrite, Moved
  <2>2. files'.source = Moved
    BY <1>2, <2>1
  <2> QED
    BY <1>1, <2>1, <2>2, GoesOn
<1>11. CASE Rename
  <2>1. /\ op.pc = "rename" /\ op.cmd.kind = "move" /\ (Go("switch") \/ Go("cleanup"))
        /\ files' = [files EXCEPT !.source = NoFile, !.dest = files.source]
    BY <1>11 DEF Rename
  <2>2. files'.source = NoFile /\ files'.dest = files.source
    BY <1>2, <2>1
  <2> QED
    BY <1>1, <2>1, <2>2, GoesOn
<1>12. CASE Switch \/ Validate \/ Revalidate \/ DeleteSource \/ AddResidual \/ Recheck
  <2>1. /\ op.pc \in Placed /\ op.cmd.kind = "move" /\ files' = files
        /\ Go("idle") \/ Go("cleanup") \/ Go("final") \/ Go("delete") \/ Go("residual") \/ Go("recheck")
    BY <1>12 DEF Switch, Validate, Revalidate, DeleteSource, AddResidual, Recheck, CleanupPending
  <2> QED
    BY <1>1, <2>1, GoesOn
<1>13. CASE ReadSource
  <2> DEFINE r == memory.from.said
             s == memory.from.exists
  <2>1. op' = [op EXCEPT !.pc = "revalidate", !.raw = r, !.saved = s] /\ op.cmd.kind = "move" /\ op.pc = "final" /\ files' = files
    BY <1>13 DEF ReadSource
  <2> HIDE DEF r, s
  <2>2. op'.pc = "revalidate"
    BY <1>1, <2>1 DEF OpTyped
  <2> QED
    BY <2>1, <2>2
<1>14. CASE CheckTail \/ CheckHead \/ SwitchPart
  <2>1. CASE Restore
    BY <1>1, <1>5, <2>1, RollsBack DEF Restoring
  <2>2. CASE Go("idle")
    BY <1>1, <1>5, <2>2, GoesOn
  <2>3. CASE ~Restore /\ ~Go("idle")
    <3>1. /\ op.cmd.kind = "split" /\ memory' = memory
          /\ \/ Go("readHead") /\ memory.tail.said = op.expected
             \/ Go("writeHead") /\ memory.from.said = op.head /\ op.pc = "checkHead"
      BY <1>14, <2>3 DEF CheckTail, CheckHead, SwitchPart, Matches
    <3> QED
      BY <1>1, <3>1, GoesOn
  <2> QED
    BY <2>1, <2>2, <2>3
<1>15. CASE ReadHead
  <2> DEFINE r == memory.from.said
  <2>1. op' = [op EXCEPT !.pc = "deleteHead", !.raw = r, !.saved = TRUE] /\ op.cmd.kind = "split" /\ op.pc = "readHead"
    BY <1>15 DEF ReadHead
  <2> HIDE DEF r
  <2>2. op'.pc = "deleteHead"
    BY <1>1, <2>1 DEF OpTyped
  <2> QED
    BY <2>1, <2>2
<1>16. CASE DeleteHead \/ AddHead
  <2>1. op.cmd.kind = "split" /\ op.pc \in {"deleteHead", "addHead"} /\ (Go("addHead") \/ Go("checkHead"))
    BY <1>16 DEF DeleteHead, AddHead
  <2> QED
    BY <1>1, <2>1, GoesOn
<1>17. CASE WriteHead
  <2>1. /\ op.cmd.kind = "split" /\ op.pc = "writeHead" /\ Go("writeTail")
        /\ files' = [files EXCEPT !.source = [cwd |-> op.lines.cwd, turns |-> Heading, aside |-> {}]]
    BY <1>17 DEF WriteHead
  <2>2. files'.source.turns = Heading
    BY <1>2, <2>1
  <2> QED
    BY <1>1, <2>1, <2>2, GoesOn
<1>18. CASE WriteTail
  <2>1. /\ op.cmd.kind = "split" /\ op.pc = "writeTail" /\ Go("switch")
        /\ files' = [files EXCEPT !.tail = [cwd |-> op.lines.cwd, turns |-> Tailing, aside |-> {}]]
    BY <1>18 DEF WriteTail
  <2>2. files'.tail.turns = Tailing /\ files'.source = files.source
    BY <1>2, <2>1
  <2> QED
    BY <1>1, <2>1, <2>2, GoesOn
<1>19. CASE RestoreFile \/ UnlinkTail \/ RestoreTail \/ RestoreHead \/ RefillHead
  <2>1. Go("unlinkTail") \/ Go("restoreTail") \/ Go("restoreHead") \/ Go("refillHead") \/ Go("idle")
    BY <1>19 DEF RestoreFile, UnlinkTail, RestoreTail, RestoreHead, RefillHead, RolledBack
  <2> QED
    BY <1>1, <1>5, <2>1, GoesOn DEF Restoring
<1>20. CASE CallFails
  <2>1. CASE Restore
    BY <1>1, <1>5, <2>1, RollsBack DEF Restoring
  <2>2. CASE Go("idle")
    BY <1>1, <1>5, <2>2, GoesOn
  <2>3. CASE op' = [op EXCEPT !.clean = FALSE,
                            !.pc = CASE @ = "restoreFile" -> "unlinkTail"
                                     [] @ = "unlinkTail" -> "restoreTail"
                                     [] OTHER -> "idle"]
    <3>1. PICK p : op' = [op EXCEPT !.clean = FALSE, !.pc = p] /\ p \in {"unlinkTail", "restoreTail", "idle"}
      BY <1>1, <2>3 DEF OpTyped
    <3>2. op'.pc = p
      BY <1>1, <3>1 DEF OpTyped
    <3> QED
      BY <1>5, <3>1, <3>2 DEF Restoring
  <2> QED
    BY <1>20, <2>1, <2>2, <2>3 DEF CallFails, Failed, CleanupPending
<1> QED
  BY <1>3, <1>4, <1>6, <1>7, <1>8, <1>9, <1>10, <1>11, <1>12, <1>13, <1>14, <1>15, <1>16, <1>17, <1>18, <1>19, <1>20
     DEF MoveNext, Command

\* What a command was given and has planned.
SamePlan ==
  /\ op'.cmd = op.cmd /\ op'.lines = op.lines /\ op'.msgs = op.msgs /\ op'.expected = op.expected
  /\ op'.head = op.head

LEMMA PlansStay ==
  ASSUME MoveInv, MoveNext, ~Read, ~Plan, ~AlignPayload, ~ReadTarget
  PROVE  SamePlan
<1>1. OpTyped(op)
  BY DEF MoveInv, MoveTyped
<1>2. CASE ReadSource
  <2> DEFINE r == memory.from.said
             s == memory.from.exists
  <2>1. op' = [op EXCEPT !.pc = "revalidate", !.raw = r, !.saved = s]
    BY <1>2 DEF ReadSource
  <2> HIDE DEF r, s
  <2> QED
    BY <1>1, <2>1 DEF OpTyped, SamePlan
<1>3. CASE ReadHead
  <2> DEFINE r == memory.from.said
  <2>1. op' = [op EXCEPT !.pc = "deleteHead", !.raw = r, !.saved = TRUE]
    BY <1>3 DEF ReadHead
  <2> HIDE DEF r
  <2> QED
    BY <1>1, <2>1 DEF OpTyped, SamePlan
<1> QED
  BY <1>2, <1>3, StepsAreSteady DEF Steady, SameCommand, SamePlan

\* The steps that plan leave nothing to hold yet.
LEMMA PlanningStays ==
  ASSUME MoveInv, Read \/ Plan \/ AlignPayload \/ ReadTarget
  PROVE  MemoryHonest' /\ FilesHonest'
<1>1. OpTyped(op)
  BY DEF MoveInv, MoveTyped
<1>2. op'.pc \in {"gate", "plan", "idle", "target", "add"}
  <2>1. CASE Go("idle")
    BY <1>1, <2>1, GoesOn
  <2>2. CASE Read
    <3> DEFINE ms == RebuildMessages(files.source.turns)
    <3>1. PICK c \in Parsed :
            \/ op' = [Idle EXCEPT !.pc = "gate", !.cmd = c, !.lines = files.source, !.merge = c.merge, !.msgs = ms]
            \/ \E n \in Cuts(c, files.source.turns) :
                 op' = [Idle EXCEPT !.pc = "plan", !.cmd = [c EXCEPT !.cut = n], !.lines = files.source]
      BY <2>2 DEF Read
    <3> HIDE DEF ms
    <3>2. CASE op' = [Idle EXCEPT !.pc = "gate", !.cmd = c, !.lines = files.source, !.merge = c.merge, !.msgs = ms]
      BY <3>2 DEF Idle
    <3>3. CASE \E n \in Cuts(c, files.source.turns) :
                 op' = [Idle EXCEPT !.pc = "plan", !.cmd = [c EXCEPT !.cut = n], !.lines = files.source]
      <4>1. PICK n : op' = [Idle EXCEPT !.pc = "plan", !.cmd = [c EXCEPT !.cut = n], !.lines = files.source]
        BY <3>3
      <4> DEFINE d == [c EXCEPT !.cut = n]
      <4> HIDE DEF d
      <4> QED
        BY <4>1 DEF Idle, d
    <3> QED
      BY <3>1, <3>2, <3>3
  <2>3. CASE (Plan \/ AlignPayload \/ ReadTarget) /\ ~Go("idle")
    <3>1. PICK r, h, e, a, m :
            \/ op' = [op EXCEPT !.pc = "gate", !.read = r, !.head = h, !.expected = e]
            \/ op' = [op EXCEPT !.pc = "target", !.msgs = a]
            \/ op' = [op EXCEPT !.pc = "add", !.raw = m, !.expected = e]
      <4>1. CASE Plan
        <5>1. op' = [op EXCEPT !.pc = "gate", !.read = memory.from.said,
                               !.head = PlanHead(memory.from.said, RebuildMessages(Heading), RebuildMessages(Tailing)),
                               !.expected = Align(RebuildMessages(Tailing), memory.from.said).out]
          BY <2>3, <4>1 DEF Plan
        <5> QED
          BY <5>1, Zenon
      <4>2. CASE AlignPayload
        BY <4>2, Zenon DEF AlignPayload
      <4>3. CASE ReadTarget
        <5>1. op' = [op EXCEPT !.pc = "add", !.raw = Missing(op.msgs, memory.to.said),
                               !.expected = memory.to.said \o Missing(op.msgs, memory.to.said)]
          BY <2>3, <4>3 DEF ReadTarget, Failed
        <5> QED
          BY <5>1, Zenon
      <4> QED
        BY <2>3, <4>1, <4>2, <4>3
    <3> QED
      BY <1>1, <3>1 DEF OpTyped
  <2> QED
    BY <2>1, <2>2, <2>3
<1> QED
  BY <1>2 DEF MemoryHonest, FilesHonest, Verified, Placed, TailMade, HeadMade, CleanupTry

LEMMA MemoryStaysHonest ==
  ASSUME HonestInv, MoveNext, SamePlan, Traced
  PROVE  MemoryHonest'
<1>1. MoveInv /\ MoveTyped /\ OpHonest /\ MemoryHonest /\ PlacedMove
  BY DEF HonestInv, MoveInv
<1>2. /\ ToSet(memory.to.said) \subseteq ToSet(memory'.to.said)
      /\ memory'.tail = memory.tail \/ op.pc \in {"addTail", "restoreTail"}
      /\ op.pc \notin {"delete", "deleteHead", "restoreHead"} => ToSet(memory.from.said) \subseteq ToSet(memory'.from.said)
  BY <1>1, MemoryMoves DEF MemoryRow
<1>3. /\ Texts(memory.to.said) \subseteq Texts(memory'.to.said)
      /\ op.pc \in TailMade => memory'.tail = memory.tail
      /\ op.pc \in HeadMade => Texts(memory.from.said) \subseteq Texts(memory'.from.said)
  BY <1>2, TextsGrow DEF TailMade, HeadMade
<1>4. /\ op'.cmd = op.cmd /\ Texts(op'.msgs) = Texts(op.msgs) /\ Texts(op'.expected) = Texts(op.expected)
      /\ Texts(op'.head) = Texts(op.head)
  BY DEF SamePlan
<1>5. op.cmd.kind = "move" /\ op'.pc \in Verified => Texts(op.msgs) \subseteq Texts(memory'.to.said)
  BY <1>1, <1>3 DEF Traced, OpHonest, MemoryHonest
<1>6. op.cmd.kind = "split" /\ op'.pc \in TailMade => Texts(op.expected) \subseteq Texts(memory'.tail.said)
  BY <1>1, <1>3 DEF Traced, MemoryHonest
<1>7. op.cmd.kind = "split" /\ op'.pc \in HeadMade => Texts(op.head) \subseteq Texts(memory'.from.said)
  BY <1>1, <1>3 DEF Traced, MemoryHonest
<1> QED
  BY <1>4, <1>5, <1>6, <1>7 DEF MemoryHonest, Verified, TailMade, HeadMade

LEMMA FilesStayHonest ==
  ASSUME HonestInv, SamePlan, Traced
  PROVE  FilesHonest'
<1>1. FilesHonest
  BY DEF HonestInv
<1>2. op'.cmd = op.cmd /\ Moved' = Moved /\ Heading' = Heading /\ Tailing' = Tailing
  BY DEF SamePlan, Moved, Heading, Tailing
<1> QED
  BY <1>1, <1>2 DEF FilesHonest, Traced, Placed

LEMMA InitHonest == MoveInit => HonestInv
<1> SUFFICES ASSUME MoveInit PROVE HonestInv
  OBVIOUS
<1>1. op.pc = "idle" /\ op.cmd.kind = "none"
  BY DEF MoveInit, Idle
<1> QED
  BY <1>1, InitMove DEF HonestInv, OpHonest, MemoryHonest, FilesHonest, Verified, Placed, CleanupTry, TailMade, HeadMade

LEMMA NextHonest == HonestInv /\ [MoveNext]_moveVars => HonestInv'
<1>1. CASE HonestInv /\ MoveNext
  <2>1. MoveInv /\ MoveInv' /\ OpHonest'
    BY <1>1, NextMove, OpStaysHonest DEF HonestInv
  <2>2. CASE Read \/ Plan \/ AlignPayload \/ ReadTarget
    BY <2>1, <2>2, PlanningStays DEF HonestInv
  <2>3. CASE ~(Read \/ Plan \/ AlignPayload \/ ReadTarget)
    <3>1. SamePlan /\ Traced
      BY <1>1, <2>1, <2>3, PlansStay, StepsAreTraced
    <3> QED
      BY <1>1, <2>1, <3>1, MemoryStaysHonest, FilesStayHonest DEF HonestInv
  <2> QED
    BY <2>2, <2>3
<1>2. CASE HonestInv /\ UNCHANGED moveVars
  <2>1. MoveInv'
    BY <1>2, NextMove DEF HonestInv
  <2> QED
    BY <1>2, <2>1 DEF HonestInv, moveVars, OpHonest, MemoryHonest, FilesHonest, Moved, Heading, Tailing
<1> QED
  BY <1>1, <1>2

\* Only the last steps of a command complete it.
LEMMA WhatCompletes ==
  ASSUME MoveNext, Completes
  PROVE  /\ files' = files /\ Go("idle")
         /\ \/ op.cmd.kind = "move" /\ op.pc \in {"revalidate", "delete", "recheck"}
            \/ op.cmd.kind = "split" /\ op.pc = "switch" /\ memory' = memory
<1> USE DEF Completes, Only, Failed, CleanupPending, RolledBack, At
<1>1. CASE Read \/ Plan \/ SafetyGate \/ ApproveMove \/ ApproveSplit \/ Backup \/ AlignPayload \/ ReadTarget \/ AddToTarget
           \/ VerifyTarget \/ Rewrite \/ Rename \/ Switch \/ Validate \/ ReadSource
  BY <1>1 DEF Read, Plan, SafetyGate, ApproveMove, ApproveSplit, Backup, AlignPayload, ReadTarget, AddToTarget,
              VerifyTarget, Rewrite, Rename, Switch, Validate, ReadSource
<1>2. CASE Revalidate \/ DeleteSource \/ Recheck \/ SwitchPart
  BY <1>2 DEF Revalidate, DeleteSource, Recheck, SwitchPart
<1>3. CASE AddResidual \/ AddTail \/ CheckTail \/ ReadHead \/ DeleteHead \/ AddHead \/ CheckHead \/ WriteHead \/ WriteTail
  BY <1>3 DEF AddResidual, AddTail, CheckTail, ReadHead, DeleteHead, AddHead, CheckHead, WriteHead, WriteTail
<1>4. CASE RestoreFile \/ UnlinkTail \/ RestoreTail \/ RestoreHead \/ RefillHead \/ FinishTurn \/ Upload \/ Visit \/ Crash
  BY <1>4 DEF RestoreFile, UnlinkTail, RestoreTail, RestoreHead, RefillHead, FinishTurn, Upload, Visit, Crash
<1>5. CASE CallFails
  BY <1>5 DEF CallFails
<1> QED
  BY <1>1, <1>2, <1>3, <1>4, <1>5 DEF MoveNext, Command

LEMMA SourceFollows ==
  ASSUME HonestInv, MoveNext, op.cmd.kind = "move", memory.from.exists, ~memory'.from.exists
  PROVE  /\ files.source = NoFile /\ files.dest.turns = op.lines.turns
         /\ Texts(RebuildMessages(op.lines.turns)) \subseteq Texts(memory.to.said)
<1>1. MoveTyped /\ PlacedMove /\ OpTyped(op) /\ OpHonest /\ MemoryHonest /\ FilesHonest
  BY DEF HonestInv, MoveInv, MoveTyped
<1>2. op.pc = "delete"
  BY <1>1, MemoryMoves DEF MemoryRow, PlacedMove, SplitSteps, SplitTry, Restoring
<1>3. op.pc \in Verified /\ op.pc \in Placed
  BY <1>2 DEF Verified, Placed, CleanupTry
<1>4. Moved.turns = op.lines.turns
  BY <1>1 DEF Moved, OpTyped, IsFile
<1>5. files.source = NoFile /\ files.dest = Moved
  BY <1>1, <1>3 DEF FilesHonest
<1>6. Texts(op.msgs) = Texts(RebuildMessages(op.lines.turns)) /\ Texts(op.msgs) \subseteq Texts(memory.to.said)
  BY <1>1, <1>3 DEF OpHonest, MemoryHonest
<1> QED
  BY <1>4, <1>5, <1>6

LEMMA MoveIsWhole ==
  ASSUME HonestInv, MoveNext, Completes, op.cmd.kind = "move"
  PROVE  MovedWhole'
<1>1. MoveTyped /\ OpTyped(op) /\ MemoryHonest /\ FilesHonest
  BY DEF HonestInv, MoveInv, MoveTyped
<1>2. op.pc \in Verified /\ op.pc \in Placed /\ files' = files /\ Go("idle")
  BY WhatCompletes DEF Verified, Placed, CleanupTry
<1>3. op'.lines = op.lines /\ op'.msgs = op.msgs
  BY <1>1, <1>2, GoesOn DEF SameCommand
<1>4. files'.source = NoFile /\ files'.dest = [op'.lines EXCEPT !.cwd = "to"]
  BY <1>1, <1>2, <1>3 DEF FilesHonest, Moved
<1>5. Texts(op.msgs) \subseteq Texts(memory.to.said) /\ Texts(memory.to.said) \subseteq Texts(memory'.to.said)
  BY <1>1, <1>2, MemoryMoves, TextsGrow DEF MemoryHonest, MemoryRow
<1>6. Texts(op'.msgs) \subseteq Texts(memory'.to.said)
  BY <1>3, <1>5
<1> QED
  BY <1>4, <1>6 DEF MovedWhole, NoFile, Texts

LEMMA SplitIsWhole ==
  ASSUME HonestInv, MoveNext, Completes, op.cmd.kind = "split"
  PROVE  SplitWhole'
<1>1. MoveTyped /\ PlacedMove /\ OpTyped(op) /\ op.lines.turns \in Seq(Turns) /\ OpHonest /\ MemoryHonest /\ FilesHonest
  BY OpFields DEF HonestInv, MoveInv, MoveTyped
<1>2. op.pc = "switch" /\ memory' = memory /\ files' = files /\ Go("idle")
  BY WhatCompletes
<1>3. op'.lines = op.lines
  BY <1>1, <1>2, GoesOn DEF SameCommand
<1>4. files.source.turns = Heading /\ files.tail.turns = Tailing
  BY <1>1, <1>2 DEF FilesHonest
<1>5. Heading \o Tailing = op.lines.turns
  BY <1>1, HeadThenTail DEF PlacedMove, Heading, Tailing
<1>6. /\ Texts(RebuildMessages(Heading)) \subseteq Texts(memory.from.said)
      /\ Texts(RebuildMessages(Tailing)) \subseteq Texts(memory.tail.said)
  BY <1>1, <1>2 DEF OpHonest, MemoryHonest, TailMade, HeadMade
<1>7. SplitWhole
  BY <1>4, <1>5, <1>6 DEF SplitWhole
<1> QED
  BY <1>2, <1>3, <1>7 DEF SplitWhole

LEMMA SourceFollowsStep ==
  HonestInv /\ [MoveNext]_moveVars =>
    [op.cmd.kind = "move" /\ memory.from.exists /\ ~memory'.from.exists =>
       /\ files.source = NoFile /\ files.dest.turns = op.lines.turns
       /\ Texts(RebuildMessages(op.lines.turns)) \subseteq Texts(memory.to.said)]_moveVars
BY SourceFollows

LEMMA CompletesStep ==
  HonestInv /\ [MoveNext]_moveVars =>
    [Completes => IF op.cmd.kind = "move" THEN MovedWhole' ELSE SplitWhole']_moveVars
<1> SUFFICES ASSUME HonestInv, MoveNext, Completes
             PROVE  IF op.cmd.kind = "move" THEN MovedWhole' ELSE SplitWhole'
  OBVIOUS
<1> QED
  BY MoveIsWhole, SplitIsWhole, WhatCompletes

-----------------------------------------------------------------------------
(* The configuration and its editor *)

ConfigSpec == ConfigInit /\ [][ConfigNext]_configVars

\* What a list of changes makes of a config, change by change.
IsList(s) == \E X : s \in Seq(X)
Makings(h, c, s) ==
  /\ h = [k \in 0..Len(s) |-> h[k]] /\ h[0] = c
  /\ \A k \in 1..Len(s) : h[k] = Makes(h[k - 1], s[k])

LEMMA MakingsExist ==
  ASSUME NEW c, NEW s, IsList(s)
  PROVE  \E h : Makings(h, c, s)
<1> DEFINE N == Len(s)
           Upto(k, g) == /\ g = [j \in 0..k |-> g[j]] /\ g[0] = c
                         /\ \A j \in 1..k : g[j] = Makes(g[j - 1], s[j])
           Defined == {k \in 0..N : \E g : Upto(k, g)}
<1>1. N \in Nat
  BY DEF IsList
<1>2. 0 \in Defined
  <2>1. Upto(0, [k \in 0..0 |-> c])
    OBVIOUS
  <2> HIDE DEF Upto
  <2>2. \E g : Upto(0, g)
    BY <2>1
  <2> QED
    BY <1>1, <2>2
<1>3. ASSUME NEW k \in 0..N, k \in Defined, k < N
      PROVE  k + 1 \in Defined
  <2>1. PICK g : Upto(k, g)
    BY <1>3
  <2> DEFINE m == Makes(g[k], s[k + 1])
             e == [j \in 0..(k + 1) |-> IF j = k + 1 THEN m ELSE g[j]]
  <2>2. k \in Nat /\ k + 1 \in 0..N
    BY <1>1, <1>3
  <2>3. e = [j \in 0..(k + 1) |-> e[j]] /\ e[0] = c
    BY <2>1, <2>2
  <2>4. ASSUME NEW j \in 1..(k + 1)
        PROVE  e[j] = Makes(e[j - 1], s[j])
    <3> HIDE DEF m
    <3>1. e[j - 1] = g[j - 1]
      BY <2>2
    <3>2. CASE j = k + 1
      <4>1. j - 1 = k /\ e[j] = m
        BY <2>2, <3>2
      <4> QED
        BY <3>1, <3>2, <4>1 DEF m
    <3>3. CASE j # k + 1
      <4>1. j \in 1..k /\ e[j] = g[j]
        BY <2>2, <3>3
      <4> QED
        BY <2>1, <3>1, <4>1
    <3> QED
      BY <3>2, <3>3
  <2>5. Upto(k + 1, e)
    BY <2>3, <2>4
  <2> QED
    BY <2>2, <2>5
<1>4. N \in Defined
  <2> HIDE DEF Defined
  <2>1. 0..N \subseteq Defined
    BY <1>1, <1>2, <1>3, Counting
  <2> QED
    BY <1>1, <2>1
<1> QED
  BY <1>4 DEF Makings

LEMMA MakingsAgree ==
  ASSUME NEW c, NEW s, NEW t, IsList(s), IsList(t), Len(s) =< Len(t), \A k \in 1..Len(s) : s[k] = t[k],
         NEW h, Makings(h, c, s), NEW g, Makings(g, c, t)
  PROVE  h[Len(s)] = g[Len(s)]
<1>1. Len(s) \in Nat /\ Len(t) \in Nat
  BY DEF IsList
<1> DEFINE T == {k \in 0..Len(s) : h[k] = g[k]}
<1>2. 0 \in T
  BY <1>1 DEF Makings
<1>3. ASSUME NEW k \in 0..Len(s), k \in T, k < Len(s)
      PROVE  k + 1 \in T
  <2>1. k + 1 \in 1..Len(s) /\ k + 1 \in 1..Len(t) /\ (k + 1) - 1 = k
    BY <1>1, <1>3
  <2>2. h[k + 1] = Makes(h[(k + 1) - 1], s[k + 1]) /\ g[k + 1] = Makes(g[(k + 1) - 1], t[k + 1])
    BY <2>1 DEF Makings
  <2>3. s[k + 1] = t[k + 1] /\ h[k] = g[k]
    BY <1>3, <2>1
  <2>4. h[k + 1] = g[k + 1]
    BY <2>1, <2>2, <2>3
  <2> QED
    BY <2>1, <2>4
<1> HIDE DEF T
<1>4. 0..Len(s) \subseteq T
  BY <1>1, <1>2, <1>3, Counting
<1> QED
  BY <1>1, <1>4 DEF T

LEMMA MadeOfList ==
  ASSUME NEW c, NEW s, IsList(s)
  PROVE  \E h : Makings(h, c, s) /\ MadeOf(c, s) = h[Len(s)]
<1> DEFINE Body(f) == [n \in 0..Len(s) |-> IF n = 0 THEN c ELSE Makes(f[n - 1], s[n])]
           made == CHOOSE f : f = Body(f)
<1>1. Len(s) \in Nat
  BY DEF IsList
<1>2. PICK h : Makings(h, c, s)
  BY MakingsExist
<1>3. h = Body(h)
  BY <1>1, <1>2 DEF Makings
<1>4. made = Body(made)
  BY <1>3
<1>5. MadeOf(c, s) = made[Len(s)]
  BY DEF MadeOf
<1> HIDE DEF made
<1>6. Makings(made, c, s)
  BY <1>1, <1>4 DEF Makings
<1> QED
  BY <1>5, <1>6

\* Nothing makes nothing of it, and one more change is made of what the others made.
LEMMA MadeOfNothing == \A c : MadeOf(c, <<>>) = c
<1> TAKE c
<1>1. IsList(<<>>) /\ Len(<<>>) = 0
  BY DEF IsList
<1>2. PICK h : Makings(h, c, <<>>) /\ MadeOf(c, <<>>) = h[Len(<<>>)]
  BY <1>1, MadeOfList
<1> QED
  BY <1>1, <1>2 DEF Makings

LEMMA ListsGrow ==
  ASSUME NEW s, IsList(s), NEW a
  PROVE  /\ IsList(Append(s, a)) /\ Len(s) \in Nat /\ Len(Append(s, a)) = Len(s) + 1
         /\ \A k \in 1..Len(s) : Append(s, a)[k] = s[k]
         /\ Append(s, a)[Len(s) + 1] = a
<1>1. PICK X : s \in Seq(X)
  BY DEF IsList
<1>2. PICK Y : Y = X \union {a}
  OBVIOUS
<1>3. s \in Seq(Y) /\ a \in Y
  <2>1. \A k \in 1..Len(s) : s[k] \in Y
    BY <1>1, <1>2
  <2> QED
    BY <1>1, <1>2, <2>1
<1>4. Append(s, a) \in Seq(Y)
  BY <1>3
<1> QED
  BY <1>3, <1>4 DEF IsList

LEMMA MadeOfOneMore ==
  ASSUME NEW c, NEW s, IsList(s), NEW a
  PROVE  MadeOf(c, Append(s, a)) = Makes(MadeOf(c, s), a)
<1> DEFINE t == Append(s, a)
<1>1. /\ IsList(t) /\ Len(s) \in Nat /\ Len(t) = Len(s) + 1
      /\ (\A k \in 1..Len(s) : t[k] = s[k]) /\ t[Len(s) + 1] = a
  BY ListsGrow
<1> HIDE DEF t
<1>2. PICK h : Makings(h, c, s) /\ MadeOf(c, s) = h[Len(s)]
  BY MadeOfList
<1>3. PICK g : Makings(g, c, t) /\ MadeOf(c, t) = g[Len(t)]
  BY <1>1, MadeOfList
<1>4. h[Len(s)] = g[Len(s)]
  <2>1. Len(s) =< Len(t) /\ \A k \in 1..Len(s) : s[k] = t[k]
    BY <1>1
  <2> QED
    BY <1>1, <1>2, <1>3, <2>1, MakingsAgree
<1>5. g[Len(s) + 1] = Makes(g[(Len(s) + 1) - 1], t[Len(s) + 1]) /\ (Len(s) + 1) - 1 = Len(s)
  BY <1>1, <1>3 DEF Makings
<1> QED
  BY <1>1, <1>2, <1>3, <1>4, <1>5 DEF t

\* Changes of the command only are made by a rollback as they were by the edits.
OnlyCommands(s) == \A k \in 1..Len(s) : s[k].type = "command"
LEMMA CommandsAreMade ==
  ASSUME NEW c, NEW s, IsList(s), OnlyCommands(s)
  PROVE  Applied(c, s) = MadeOf(c, s)
<1> DEFINE Body(f) == [n \in 0..Len(s) |-> IF n = 0 THEN c ELSE Apply(f[n - 1], s[n])]
           applied == CHOOSE f : f = Body(f)
<1>1. Len(s) \in Nat
  BY DEF IsList
<1>2. \A k \in 1..Len(s) : \A x : Makes(x, s[k]) = Apply(x, s[k])
  BY DEF Makes, OnlyCommands
<1>3. PICK h : Makings(h, c, s) /\ MadeOf(c, s) = h[Len(s)]
  BY MadeOfList
<1>4. h = Body(h)
  BY <1>1, <1>2, <1>3 DEF Makings
<1>5. applied = Body(applied)
  BY <1>4
<1>6. Applied(c, s) = applied[Len(s)]
  BY DEF Applied
<1> HIDE DEF applied
<1>7. Makings(applied, c, s)
  BY <1>1, <1>2, <1>5 DEF Makings
<1>8. applied[Len(s)] = h[Len(s)]
  <2>1. Len(s) =< Len(s)
    BY <1>1
  <2> QED
    BY <1>1, <1>3, <1>7, <2>1, MakingsAgree
<1> QED
  BY <1>3, <1>6, <1>8

\* What a config is made of, and that whatever is done to one leaves it one.
IsEntries(f) == f = [x \in DOMAIN f |-> f[x]]
IsConfig(c) ==
  /\ c = [source |-> c.source, command |-> c.command, roles |-> c.roles, pipelines |-> c.pipelines]
  /\ IsEntries(c.roles) /\ IsEntries(c.pipelines)

LEMMA EntriesStay ==
  /\ \A f, g : IsEntries(Over(f, g)) /\ DOMAIN Over(f, g) = DOMAIN f \union DOMAIN g
  /\ \A f, S : IsEntries(On(f, S))
  /\ \A f, x : IsEntries(Without(f, x))
  /\ \A f, x, v : IsEntries(With(f, x, v))
  /\ \A f, x, y, v : IsEntries(Renamed(f, x, y, v))
  /\ IsEntries(<<>>)
<1>1. \A f, g : IsEntries(Over(f, g)) /\ DOMAIN Over(f, g) = DOMAIN f \union DOMAIN g
  BY DEF IsEntries, Over
<1>2. \A f, S : IsEntries(On(f, S))
  BY DEF IsEntries, On
<1>3. \A f, x : IsEntries(Without(f, x))
  BY <1>2 DEF Without
<1>4. \A f, x, v : IsEntries(With(f, x, v))
  BY DEF IsEntries, With
<1>5. \A f, x, y, v : IsEntries(Renamed(f, x, y, v))
  BY <1>3 DEF Renamed
<1>6. IsEntries(<<>>)
  BY DEF IsEntries
<1> QED
  BY <1>1, <1>2, <1>3, <1>4, <1>5, <1>6

LEMMA ConfigParts ==
  ASSUME NEW c, IsConfig(c), NEW x
  PROVE  /\ IsConfig([c EXCEPT !.source = x]) /\ IsConfig([c EXCEPT !.command = x])
         /\ [c EXCEPT !.source = x].roles = c.roles /\ [c EXCEPT !.source = x].pipelines = c.pipelines
         /\ [c EXCEPT !.command = x].roles = c.roles /\ [c EXCEPT !.command = x].pipelines = c.pipelines
         /\ IsEntries(x) => IsConfig([c EXCEPT !.roles = x]) /\ IsConfig([c EXCEPT !.pipelines = x])
BY DEF IsConfig

LEMMA DefaultIsConfig ==
  /\ IsConfig(DEFAULT_CONFIG)
  /\ DOMAIN DEFAULT_CONFIG.roles = {"worker"} /\ DOMAIN DEFAULT_CONFIG.pipelines = {"loop"}
BY DEF IsConfig, IsEntries, DEFAULT_CONFIG

LEMMA MergedIsConfig ==
  ASSUME NEW c, IsConfig(c)
  PROVE  /\ IsConfig(Merged(c)) /\ Merged(c).source = c.source /\ Merged(c).command = c.command
         /\ Merged(c).roles = Over(c.roles, DEFAULT_CONFIG.roles)
         /\ Merged(c).pipelines = Over(c.pipelines, DEFAULT_CONFIG.pipelines)
<1> DEFINE r == Over(c.roles, DEFAULT_CONFIG.roles)
           p == Over(c.pipelines, DEFAULT_CONFIG.pipelines)
<1>1. IsEntries(r) /\ IsEntries(p)
  BY EntriesStay
<1>2. Merged(c) = [c EXCEPT !.roles = r, !.pipelines = p]
  BY DEF Merged
<1> HIDE DEF r, p
<1>3. Merged(c) = [source |-> c.source, command |-> c.command, roles |-> r, pipelines |-> p]
  BY <1>2 DEF IsConfig
<1>4. IsConfig(Merged(c)) /\ Merged(c).roles = r /\ Merged(c).pipelines = p
      /\ Merged(c).source = c.source /\ Merged(c).command = c.command
  <2>1. PICK m : m = [source |-> c.source, command |-> c.command, roles |-> r, pipelines |-> p]
    OBVIOUS
  <2>2. IsConfig(m) /\ m.roles = r /\ m.pipelines = p /\ m.source = c.source /\ m.command = c.command
    BY <1>1, <2>1 DEF IsConfig
  <2> QED
    BY <1>3, <2>1, <2>2
<1> QED
  BY <1>4 DEF r, p

LEMMA RootIsConfig ==
  ASSUME NEW c, IsConfig(c)
  PROVE  /\ Root(c) = [source |-> c.source, command |-> c.command, roles |-> <<>>, pipelines |-> <<>>]
         /\ IsConfig(Root(c))
<1>1. Root(c) = [source |-> c.source, command |-> c.command, roles |-> <<>>, pipelines |-> <<>>]
  <2>1. PICK e, f : e = <<>> /\ f = <<>>
    OBVIOUS
  <2>2. PICK m : m = [c EXCEPT !.roles = e, !.pipelines = f]
    OBVIOUS
  <2>3. m = [source |-> c.source, command |-> c.command, roles |-> e, pipelines |-> f]
    BY <2>2 DEF IsConfig
  <2> QED
    BY <2>1, <2>2, <2>3, Zenon DEF Root
<1>2. PICK m : m = [source |-> c.source, command |-> c.command, roles |-> <<>>, pipelines |-> <<>>]
  OBVIOUS
<1>3. IsConfig(m)
  BY <1>2, EntriesStay DEF IsConfig
<1> QED
  BY <1>1, <1>2, <1>3

LEMMA SourceIsConfig ==
  ASSUME NEW c, IsConfig(c), NEW v
  PROVE  /\ IsConfig(WithSource(c, v))
         /\ WithSource(c, v).roles = c.roles /\ WithSource(c, v).pipelines = c.pipelines
<1>1. CASE v = "doc-vader"
  <2>1. WithSource(c, v) = [c EXCEPT !.source = v, !.command = v]
    BY <1>1 DEF WithSource
  <2>2. WithSource(c, v) = [source |-> v, command |-> v, roles |-> c.roles, pipelines |-> c.pipelines]
    BY <2>1 DEF IsConfig
  <2>3. PICK m : m = [source |-> v, command |-> v, roles |-> c.roles, pipelines |-> c.pipelines]
    OBVIOUS
  <2>4. IsConfig(m) /\ m.roles = c.roles /\ m.pipelines = c.pipelines
    BY <2>3 DEF IsConfig
  <2> QED
    BY <2>2, <2>3, <2>4
<1>2. CASE v # "doc-vader"
  BY <1>2, ConfigParts DEF WithSource
<1> QED
  BY <1>1, <1>2

\* A change makes a config of a config, and leaves roles and pipelines alone unless it is
\* about them.
LEMMA ApplyIsConfig ==
  ASSUME NEW c, IsConfig(c), NEW a
  PROVE  /\ IsConfig(Apply(c, a))
         /\ a.type \in {"source", "command"} => Apply(c, a).roles = c.roles /\ Apply(c, a).pipelines = c.pipelines
<1>1. CASE a.type = "source"
  <2>1. Apply(c, a) = WithSource(c, a.value)
    BY <1>1 DEF Apply
  <2> QED
    BY <2>1, SourceIsConfig
<1>2. CASE a.type = "command"
  <2>1. Apply(c, a) = [c EXCEPT !.command = a.value]
    BY <1>2 DEF Apply
  <2>2. \A v : IsConfig([c EXCEPT !.command = v]) /\ [c EXCEPT !.command = v].roles = c.roles
                 /\ [c EXCEPT !.command = v].pipelines = c.pipelines
    BY ConfigParts
  <2> QED
    BY <2>1, <2>2, Zenon
<1>3. CASE a.type \in {"sandbox", "add-agent", "delete-agent"}
  <2>1. \E r : IsEntries(r) /\ Apply(c, a) = [c EXCEPT !.roles = r]
    <3>1. CASE a.type = "sandbox"
      <4>1. Apply(c, a) = [c EXCEPT !.roles = With(c.roles, a.name, a.value)]
        BY <3>1 DEF Apply
      <4> QED
        BY <4>1, EntriesStay
    <3>2. CASE a.type = "add-agent"
      <4>1. Apply(c, a) = [c EXCEPT !.roles = With(c.roles, a.name, "inherit")]
        BY <3>2 DEF Apply
      <4> QED
        BY <4>1, EntriesStay
    <3>3. CASE a.type = "delete-agent"
      <4>1. Apply(c, a) = [c EXCEPT !.roles = Without(c.roles, a.name)]
        BY <3>3 DEF Apply
      <4> QED
        BY <4>1, EntriesStay
    <3> QED
      BY <1>3, <3>1, <3>2, <3>3
  <2>2. \A r : IsEntries(r) => IsConfig([c EXCEPT !.roles = r])
    BY ConfigParts
  <2>3. IsConfig(Apply(c, a))
    BY <2>1, <2>2, Zenon
  <2> QED
    BY <1>3, <2>3
<1>4. CASE a.type \in {"role", "add-pipeline", "delete-pipeline", "rename-pipeline"}
  <2>1. \E p : IsEntries(p) /\ Apply(c, a) = [c EXCEPT !.pipelines = p]
    <3>1. CASE a.type = "role"
      <4>1. Apply(c, a) = [c EXCEPT !.pipelines = With(c.pipelines, a.name, a.value)]
        BY <3>1 DEF Apply
      <4> QED
        BY <4>1, EntriesStay
    <3>2. CASE a.type = "add-pipeline"
      <4>1. Apply(c, a) = [c EXCEPT !.pipelines = With(c.pipelines, a.name, "worker")]
        BY <3>2 DEF Apply
      <4> QED
        BY <4>1, EntriesStay
    <3>3. CASE a.type = "delete-pipeline"
      <4>1. Apply(c, a) = [c EXCEPT !.pipelines = Without(c.pipelines, a.name)]
        BY <3>3 DEF Apply
      <4> QED
        BY <4>1, EntriesStay
    <3>4. CASE a.type = "rename-pipeline"
      <4>1. Apply(c, a) = [c EXCEPT !.pipelines = Renamed(c.pipelines, a.name, a.value, "none")]
        BY <3>4 DEF Apply
      <4> QED
        BY <4>1, EntriesStay
    <3> QED
      BY <1>4, <3>1, <3>2, <3>3, <3>4
  <2>2. \A p : IsEntries(p) => IsConfig([c EXCEPT !.pipelines = p])
    BY ConfigParts
  <2>3. IsConfig(Apply(c, a))
    BY <2>1, <2>2, Zenon
  <2> QED
    BY <1>4, <2>3
<1>5. CASE a.type = "rename-agent"
  <2> DEFINE r == Renamed(c.roles, a.name, a.value, "inherit")
             p == [q \in DOMAIN c.pipelines |-> IF c.pipelines[q] = a.name THEN a.value ELSE c.pipelines[q]]
  <2>1. Apply(c, a) = [c EXCEPT !.roles = r, !.pipelines = p]
    BY <1>5 DEF Apply
  <2>2. IsEntries(r) /\ IsEntries(p)
    <3>1. IsEntries(p)
      BY DEF IsEntries
    <3> QED
      BY <3>1, EntriesStay
  <2> HIDE DEF r, p
  <2>3. Apply(c, a) = [source |-> c.source, command |-> c.command, roles |-> r, pipelines |-> p]
    BY <2>1 DEF IsConfig
  <2>4. PICK m : m = [source |-> c.source, command |-> c.command, roles |-> r, pipelines |-> p]
    OBVIOUS
  <2>5. IsConfig(m)
    BY <2>2, <2>4 DEF IsConfig
  <2> QED
    BY <1>5, <2>3, <2>4, <2>5
<1>6. CASE a.type \notin {"source", "command", "sandbox", "role", "add-agent", "delete-agent", "rename-agent",
                          "add-pipeline", "delete-pipeline", "rename-pipeline"}
  <2>1. Apply(c, a) = c
    BY <1>6 DEF Apply
  <2> QED
    BY <2>1
<1> QED
  BY <1>1, <1>2, <1>3, <1>4, <1>5, <1>6

LEMMA CommandsLeaveSections ==
  ASSUME NEW c, IsConfig(c), NEW s, IsList(s), OnlyCommands(s)
  PROVE  IsConfig(MadeOf(c, s)) /\ MadeOf(c, s).roles = c.roles /\ MadeOf(c, s).pipelines = c.pipelines
<1>1. Len(s) \in Nat
  BY DEF IsList
<1>2. PICK h : Makings(h, c, s) /\ MadeOf(c, s) = h[Len(s)]
  BY MadeOfList
<1> DEFINE T == {k \in 0..Len(s) : IsConfig(h[k]) /\ h[k].roles = c.roles /\ h[k].pipelines = c.pipelines}
<1>3. 0 \in T
  BY <1>1, <1>2 DEF Makings
<1>4. ASSUME NEW k \in 0..Len(s), k \in T, k < Len(s)
      PROVE  k + 1 \in T
  <2>1. k + 1 \in 1..Len(s) /\ (k + 1) - 1 = k
    BY <1>1, <1>4
  <2>2. h[k + 1] = Makes(h[k], s[k + 1]) /\ s[k + 1].type = "command"
    <3>1. h[k + 1] = Makes(h[(k + 1) - 1], s[k + 1])
      BY <1>2, <2>1 DEF Makings
    <3> QED
      BY <2>1, <3>1 DEF OnlyCommands
  <2>3. h[k + 1] = Apply(h[k], s[k + 1])
    BY <2>2 DEF Makes
  <2>4. IsConfig(h[k]) /\ h[k].roles = c.roles /\ h[k].pipelines = c.pipelines
    BY <1>4
  <2>5. IsConfig(h[k + 1]) /\ h[k + 1].roles = c.roles /\ h[k + 1].pipelines = c.pipelines
    <3>1. PICK d, a : d = h[k] /\ a = s[k + 1]
      OBVIOUS
    <3>2. IsConfig(Apply(d, a)) /\ Apply(d, a).roles = d.roles /\ Apply(d, a).pipelines = d.pipelines
      BY <2>2, <2>4, <3>1, ApplyIsConfig
    <3> QED
      BY <2>3, <2>4, <3>1, <3>2
  <2> QED
    BY <2>1, <2>5
<1> HIDE DEF T
<1>5. 0..Len(s) \subseteq T
  BY <1>1, <1>3, <1>4, Counting
<1> QED
  BY <1>1, <1>2, <1>5 DEF T

\* A file without sections has no roles and no pipelines of its own; read, it has those of
\* the pack.
FileOk(f) ==
  /\ f = [valid |-> f.valid, expanded |-> f.expanded, config |-> f.config]
  /\ f.valid \in BOOLEAN /\ f.expanded \in BOOLEAN /\ IsConfig(f.config)
  /\ ~f.expanded => DOMAIN f.config.roles = {} /\ DOMAIN f.config.pipelines = {}
Bare(c) == DOMAIN c.roles = {"worker"} /\ c.pipelines = DEFAULT_CONFIG.pipelines
\* A draft is what its changes make of what was loaded, with the same roles and pipelines
\* unless they are about them.
EditorOk(e) ==
  /\ e = [at |-> e.at, loaded |-> e.loaded, draft |-> e.draft, pending |-> e.pending, noImage |-> e.noImage]
  /\ IsConfig(e.loaded) /\ IsConfig(e.draft) /\ IsList(e.pending)
  /\ e.draft = MadeOf(e.loaded, e.pending)
  /\ ~TouchesSections(e.pending) => e.draft.roles = e.loaded.roles /\ e.draft.pipelines = e.loaded.pipelines
\* An editor over a file that has no sections, and had none when it was opened, loaded those
\* of the pack.
ConfigInv ==
  /\ FileOk(configFile) /\ EditorOk(editor) /\ collapsed \in BOOLEAN
  /\ ~collapsed /\ ~configFile.expanded => Bare(editor.loaded)

LEMMA OverNothing ==
  ASSUME NEW f, DOMAIN f = {}, NEW g, IsEntries(g)
  PROVE  Over(f, g) = g
BY DEF Over, IsEntries

LEMMA YamlIsFile ==
  ASSUME NEW c, IsConfig(c)
  PROVE  /\ FileOk(Yaml(c)) /\ Yaml(c).valid /\ Yaml(c).expanded
         /\ Yaml(c).config.source = c.source /\ Yaml(c).config.command = c.command
         /\ Yaml(c).config.pipelines = c.pipelines /\ DOMAIN Yaml(c).config.roles = DOMAIN c.roles
<1> DEFINE r == [x \in DOMAIN c.roles |-> "inherit"]
<1>1. IsEntries(r) /\ DOMAIN r = DOMAIN c.roles
  BY DEF IsEntries
<1>2. Yaml(c) = [valid |-> TRUE, expanded |-> TRUE, config |-> [c EXCEPT !.roles = r]]
  BY DEF Yaml
<1> HIDE DEF r
<1>3. PICK d : d = [c EXCEPT !.roles = r]
  OBVIOUS
<1>4. d = [source |-> c.source, command |-> c.command, roles |-> r, pipelines |-> c.pipelines]
  BY <1>3 DEF IsConfig
<1>5. IsConfig(d)
  BY <1>1, <1>4 DEF IsConfig
<1>6. PICK f : f = [valid |-> TRUE, expanded |-> TRUE, config |-> d]
  OBVIOUS
<1>7. FileOk(f)
  BY <1>5, <1>6 DEF FileOk
<1>8. Yaml(c) = f
  BY <1>2, <1>3, <1>6
<1> QED
  BY <1>1, <1>4, <1>6, <1>7, <1>8

LEMMA TextIsFile ==
  ASSUME NEW c, IsConfig(c)
  PROVE  /\ FileOk(DefaultText(c)) /\ DefaultText(c).valid /\ ~DefaultText(c).expanded
         /\ DefaultText(c).config = Root(c)
<1>1. PICK d : d = Root(c)
  OBVIOUS
<1>2. IsConfig(d) /\ DOMAIN d.roles = {} /\ DOMAIN d.pipelines = {}
  BY <1>1, RootIsConfig
<1>3. PICK f : f = [valid |-> TRUE, expanded |-> FALSE, config |-> d]
  OBVIOUS
<1>4. FileOk(f)
  BY <1>2, <1>3 DEF FileOk
<1>5. DefaultText(c) = f
  BY <1>1, <1>3 DEF DefaultText
<1> QED
  BY <1>1, <1>3, <1>4, <1>5

LEMMA LoadedIsConfig ==
  ASSUME NEW f, FileOk(f)
  PROVE  IsConfig(Loaded(f)) /\ (~f.expanded => Bare(Loaded(f)))
<1>1. CASE f.valid
  <2>1. Loaded(f) = Merged(f.config) /\ IsConfig(f.config)
    BY <1>1 DEF Loaded, FileOk
  <2>2. /\ IsConfig(Merged(f.config))
        /\ Merged(f.config).roles = Over(f.config.roles, DEFAULT_CONFIG.roles)
        /\ Merged(f.config).pipelines = Over(f.config.pipelines, DEFAULT_CONFIG.pipelines)
    BY <2>1, MergedIsConfig
  <2>3. ASSUME ~f.expanded
        PROVE  Bare(Loaded(f))
    <3>1. Over(f.config.pipelines, DEFAULT_CONFIG.pipelines) = DEFAULT_CONFIG.pipelines
      BY <2>3, OverNothing, DefaultIsConfig DEF FileOk, IsConfig
    <3>2. DOMAIN Over(f.config.roles, DEFAULT_CONFIG.roles) = {"worker"}
      <4>1. DOMAIN f.config.roles = {} /\ DOMAIN DEFAULT_CONFIG.roles = {"worker"}
        BY <2>3, DefaultIsConfig DEF FileOk
      <4> QED
        BY <4>1 DEF Over
    <3> QED
      BY <2>1, <2>2, <3>1, <3>2 DEF Bare
  <2> QED
    BY <2>1, <2>2, <2>3
<1>2. CASE ~f.valid
  BY <1>2, DefaultIsConfig DEF Loaded, Bare
<1> QED
  BY <1>1, <1>2 DEF FileOk

LEMMA NothingOpen ==
  /\ EditorOk(NoEditor) /\ Bare(NoEditor.loaded)
<1>1. IsList(<<>>)
  BY DEF IsList
<1>2. PICK d, p, m : d = DEFAULT_CONFIG /\ p = <<>> /\ m = "closed"
  OBVIOUS
<1>3. PICK e : e = [at |-> m, loaded |-> d, draft |-> d, pending |-> p, noImage |-> FALSE]
  OBVIOUS
<1>4. EditorOk(e)
  BY <1>1, <1>2, <1>3, DefaultIsConfig, MadeOfNothing DEF EditorOk
<1>5. NoEditor = e
  BY <1>2, <1>3 DEF NoEditor
<1>6. Bare(d)
  BY <1>2, DefaultIsConfig DEF Bare
<1> QED
  BY <1>3, <1>4, <1>5, <1>6

LEMMA OpenedOk ==
  ASSUME NEW c, IsConfig(c), NEW at, NEW b
  PROVE  EditorOk([at |-> at, loaded |-> c, draft |-> c, pending |-> <<>>, noImage |-> b])
<1>1. IsList(<<>>) /\ MadeOf(c, <<>>) = c
  BY MadeOfNothing DEF IsList
<1>2. PICK p : p = <<>>
  OBVIOUS
<1>3. PICK e : e = [at |-> at, loaded |-> c, draft |-> c, pending |-> p, noImage |-> b]
  OBVIOUS
<1>4. EditorOk(e)
  BY <1>1, <1>2, <1>3 DEF EditorOk
<1> QED
  BY <1>2, <1>3, <1>4

LEMMA OfferedTypes ==
  ASSUME NEW c, NEW a \in Offered(c)
  PROVE  a.type # "replace-config"
<1>1. PICK t, n, v : a = Change(t, n, v) /\ t # "replace-config"
  <2> DEFINE Ok(x) == \E t, n, v : x = Change(t, n, v) /\ t # "replace-config"
  <2>1. \A t, n, v : t # "replace-config" => Ok(Change(t, n, v))
    OBVIOUS
  <2>2. /\ "source" # "replace-config" /\ "command" # "replace-config" /\ "sandbox" # "replace-config"
        /\ "role" # "replace-config" /\ "add-agent" # "replace-config" /\ "delete-agent" # "replace-config"
        /\ "rename-agent" # "replace-config" /\ "add-pipeline" # "replace-config"
        /\ "delete-pipeline" # "replace-config" /\ "rename-pipeline" # "replace-config"
    OBVIOUS
  <2> HIDE DEF Ok
  <2> DEFINE R == {Change(t, "none", v) : t \in {"source", "command"}, v \in Values}
             B == {Change("sandbox", r, v) : r \in DOMAIN c.roles, v \in {"inherit", "own"}}
             N == {Change("role", p, r) : p \in DOMAIN c.pipelines, r \in DOMAIN c.roles}
             P == {Change("add-agent", r, "none") : r \in RoleNames}
             Q == {Change("delete-agent", r, "none") : r \in DOMAIN c.roles}
             U == {Change("rename-agent", r, s) : r \in DOMAIN c.roles, s \in RoleNames}
             V == {Change("add-pipeline", p, "none") : p \in PipelineNames}
             W == {Change("delete-pipeline", p, "none") : p \in DOMAIN c.pipelines}
             X == {Change("rename-pipeline", p, q) : p \in DOMAIN c.pipelines, q \in PipelineNames}
  <2>3. \A x \in R : Ok(x)
    <3> SUFFICES ASSUME NEW x \in R
                 PROVE  Ok(x)
      OBVIOUS
    <3>1. \E t \in {"source", "command"}, v \in Values : x = Change(t, "none", v)
      OBVIOUS
    <3> QED
      BY <2>1, <2>2, <3>1
  <2>4. \A x \in B : Ok(x)
    <3> SUFFICES ASSUME NEW x \in B
                 PROVE  Ok(x)
      OBVIOUS
    <3>1. \E r \in DOMAIN c.roles, v \in {"inherit", "own"} : x = Change("sandbox", r, v)
      OBVIOUS
    <3> QED
      BY <2>1, <2>2, <3>1
  <2>5. \A x \in N : Ok(x)
    <3> SUFFICES ASSUME NEW x \in N
                 PROVE  Ok(x)
      OBVIOUS
    <3>1. \E p \in DOMAIN c.pipelines, r \in DOMAIN c.roles : x = Change("role", p, r)
      OBVIOUS
    <3> QED
      BY <2>1, <2>2, <3>1
  <2>6. \A x \in U : Ok(x)
    <3> SUFFICES ASSUME NEW x \in U
                 PROVE  Ok(x)
      OBVIOUS
    <3>1. \E r \in DOMAIN c.roles, s \in RoleNames : x = Change("rename-agent", r, s)
      OBVIOUS
    <3> QED
      BY <2>1, <2>2, <3>1
  <2>7. \A x \in X : Ok(x)
    <3> SUFFICES ASSUME NEW x \in X
                 PROVE  Ok(x)
      OBVIOUS
    <3>1. \E p \in DOMAIN c.pipelines, q \in PipelineNames : x = Change("rename-pipeline", p, q)
      OBVIOUS
    <3> QED
      BY <2>1, <2>2, <3>1
  <2>8. /\ \A x \in P : Ok(x)
        /\ \A x \in Q : Ok(x)
        /\ \A x \in V : Ok(x)
        /\ \A x \in W : Ok(x)
    BY <2>1, <2>2
  <2>9. a \in R \union B \union N \union P \union Q \union U \union V \union W \union X
    <3>1. Offered(c) = R \union B \union N \union P \union Q \union U \union V \union W \union X
      BY DEF Offered
    <3> HIDE DEF R, B, N, P, Q, U, V, W, X
    <3> QED
      BY <3>1
  <2> HIDE DEF R, B, N, P, Q, U, V, W, X
  <2>10. Ok(a)
    BY <2>3, <2>4, <2>5, <2>6, <2>7, <2>8, <2>9
  <2> QED
    BY <2>10 DEF Ok
<1> QED
  BY <1>1 DEF Change

LEMMA EditedOk ==
  ASSUME EditorOk(editor), NEW a \in Offered(editor.draft)
  PROVE  EditorOk([editor EXCEPT !.draft = Apply(@, a), !.pending = Append(@, a)])
<1> DEFINE d == Apply(editor.draft, a)
           p == Append(editor.pending, a)
<1>1. /\ IsConfig(editor.loaded) /\ IsConfig(editor.draft) /\ IsList(editor.pending)
      /\ editor.draft = MadeOf(editor.loaded, editor.pending)
  BY DEF EditorOk
<1>2. IsConfig(d) /\ (a.type \in {"source", "command"} => d.roles = editor.draft.roles /\ d.pipelines = editor.draft.pipelines)
  BY <1>1, ApplyIsConfig
<1>3. d = MadeOf(editor.loaded, p)
  BY <1>1, OfferedTypes, MadeOfOneMore DEF Makes
<1>4. /\ IsList(p) /\ Len(editor.pending) \in Nat /\ Len(p) = Len(editor.pending) + 1
      /\ \A k \in 1..Len(editor.pending) : p[k] = editor.pending[k]
      /\ p[Len(editor.pending) + 1] = a
  BY <1>1, ListsGrow
<1> HIDE DEF d, p
<1>5. ASSUME ~TouchesSections(p)
      PROVE  d.roles = editor.loaded.roles /\ d.pipelines = editor.loaded.pipelines
  <2>1. \A k \in 1..Len(p) : p[k].type \in {"source", "command"}
    BY <1>4, <1>5 DEF TouchesSections, IsList
  <2>2. a.type \in {"source", "command"} /\ \A k \in 1..Len(editor.pending) : editor.pending[k].type \in {"source", "command"}
    BY <1>4, <2>1
  <2>3. ~TouchesSections(editor.pending)
    BY <1>1, <2>2 DEF TouchesSections, IsList
  <2> QED
    BY <1>2, <2>2, <2>3 DEF EditorOk
<1>6. PICK e : e = [editor EXCEPT !.draft = d, !.pending = p]
  OBVIOUS
<1>7. e = [at |-> editor.at, loaded |-> editor.loaded, draft |-> d, pending |-> p, noImage |-> editor.noImage]
  BY <1>6 DEF EditorOk
<1>8. EditorOk(e)
  BY <1>1, <1>2, <1>3, <1>4, <1>5, <1>7 DEF EditorOk
<1> QED
  BY <1>6, <1>8 DEF d, p

LEMMA MovedOk ==
  ASSUME EditorOk(editor), NEW at
  PROVE  EditorOk([editor EXCEPT !.at = at])
<1>1. PICK e : e = [editor EXCEPT !.at = at]
  OBVIOUS
<1>2. e = [at |-> at, loaded |-> editor.loaded, draft |-> editor.draft, pending |-> editor.pending, noImage |-> editor.noImage]
  BY <1>1 DEF EditorOk
<1>3. EditorOk(e)
  BY <1>2 DEF EditorOk
<1> QED
  BY <1>1, <1>3

LEMMA ReplacedOk ==
  ASSUME EditorOk(editor), NEW c, IsConfig(c)
  PROVE  EditorOk([editor EXCEPT !.draft = c, !.pending = <<[type |-> "replace-config", config |-> c]>>])
<1>1. PICK r : r = [type |-> "replace-config", config |-> c]
  OBVIOUS
<1>2. PICK p : p = <<r>>
  OBVIOUS
<1>3. IsList(p)
  <2>1. p \in Seq({r})
    BY <1>2
  <2> QED
    BY <2>1 DEF IsList
<1>4. MadeOf(editor.loaded, p) = c
  <2>1. IsList(<<>>) /\ p = Append(<<>>, r)
    BY <1>2 DEF IsList
  <2>2. MadeOf(editor.loaded, p) = Makes(MadeOf(editor.loaded, <<>>), r)
    BY <2>1, MadeOfOneMore
  <2> QED
    BY <1>1, <2>2 DEF Makes
<1>5. TouchesSections(p)
  BY <1>1, <1>2 DEF TouchesSections
<1>6. PICK e : e = [editor EXCEPT !.draft = c, !.pending = p]
  OBVIOUS
<1>7. e = [at |-> editor.at, loaded |-> editor.loaded, draft |-> c, pending |-> p, noImage |-> editor.noImage]
  BY <1>6 DEF EditorOk
<1>8. EditorOk(e)
  BY <1>3, <1>4, <1>5, <1>7 DEF EditorOk
<1> QED
  BY <1>1, <1>2, <1>6, <1>8

\* Rolled back are changes of the command only, so what is left is applied as it was made.
LEMMA RolledBackOk ==
  ASSUME EditorOk(editor), RollbackOffered, NEW i \in DOMAIN editor.pending, NEW at
  PROVE  EditorOk([editor EXCEPT !.pending = RemoveAt(editor.pending, i),
                                 !.draft = Applied(editor.loaded, RemoveAt(editor.pending, i)), !.at = at])
<1> DEFINE s == editor.pending
           rest == RemoveAt(s, i)
<1>1. IsConfig(editor.loaded) /\ IsList(s)
  BY DEF EditorOk
<1>2. PICK X : s \in Seq(X)
  BY <1>1 DEF IsList
<1>3. \A k \in 1..Len(s) : s[k].type = "command"
  BY <1>2 DEF RollbackOffered, NeedsRebuild, RequiresRebuild
<1>4. PICK Y : Y = {a \in X : a.type = "command"}
  OBVIOUS
<1>5. s \in Seq(Y) /\ i \in 1..Len(s)
  <2>1. \A k \in 1..Len(s) : s[k] \in Y
    BY <1>2, <1>3, <1>4
  <2> QED
    BY <1>2, <2>1
<1>6. rest \in Seq(Y)
  <2> HIDE DEF s
  <2>1. SubSeq(s, 1, i - 1) \in Seq(Y) /\ SubSeq(s, i + 1, Len(s)) \in Seq(Y)
    BY <1>5
  <2> QED
    BY <2>1 DEF RemoveAt
<1>7. IsList(rest) /\ OnlyCommands(rest)
  <2> HIDE DEF rest
  <2>1. \A k \in 1..Len(rest) : rest[k] \in Y
    BY <1>6
  <2> QED
    BY <1>4, <1>6, <2>1 DEF IsList, OnlyCommands
<1> DEFINE d == Applied(editor.loaded, rest)
<1>8. /\ d = MadeOf(editor.loaded, rest) /\ IsConfig(d)
      /\ d.roles = editor.loaded.roles /\ d.pipelines = editor.loaded.pipelines
  BY <1>1, <1>7, CommandsAreMade, CommandsLeaveSections
<1> HIDE DEF d, rest
<1>9. PICK e : e = [editor EXCEPT !.pending = rest, !.draft = d, !.at = at]
  OBVIOUS
<1>10. e = [at |-> at, loaded |-> editor.loaded, draft |-> d, pending |-> rest, noImage |-> editor.noImage]
  BY <1>9 DEF EditorOk
<1>11. EditorOk(e)
  BY <1>1, <1>7, <1>8, <1>10 DEF EditorOk
<1> QED
  BY <1>9, <1>11 DEF d, rest

LEMMA ImportedIsConfig == IsConfig(Imported)
<1> DEFINE r == [x \in RoleNames |-> "own"]
<1>1. IsEntries(r)
  BY DEF IsEntries
<1>2. PICK d : d = DEFAULT_CONFIG
  OBVIOUS
<1> HIDE DEF r
<1>3. PICK c : c = [d EXCEPT !.source = "doc-vader", !.roles = r]
  OBVIOUS
<1>4. IsConfig(d)
  BY <1>2, DefaultIsConfig
<1>5. c = [source |-> "doc-vader", command |-> d.command, roles |-> r, pipelines |-> d.pipelines]
  BY <1>3, <1>4 DEF IsConfig
<1>6. IsConfig(c)
  BY <1>1, <1>4, <1>5 DEF IsConfig
<1>7. Imported = Merged(c)
  BY <1>2, <1>3 DEF Imported, r
<1> QED
  BY <1>6, <1>7, MergedIsConfig

\* What is written keeps the file a file.
LEMMA FilePartsOk ==
  ASSUME NEW f, FileOk(f), NEW c, IsConfig(c),
         f.expanded \/ (DOMAIN c.roles = {} /\ DOMAIN c.pipelines = {})
  PROVE  FileOk([f EXCEPT !.config = c]) /\ [f EXCEPT !.config = c].expanded = f.expanded
<1>1. PICK g : g = [f EXCEPT !.config = c]
  OBVIOUS
<1>2. g = [valid |-> f.valid, expanded |-> f.expanded, config |-> c]
  BY <1>1 DEF FileOk
<1>3. FileOk(g) /\ g.expanded = f.expanded
  BY <1>2 DEF FileOk
<1> QED
  BY <1>1, <1>3

LEMMA BrokenFileOk ==
  ASSUME NEW f, FileOk(f)
  PROVE  FileOk([f EXCEPT !.valid = FALSE]) /\ [f EXCEPT !.valid = FALSE].expanded = f.expanded
<1>1. PICK g : g = [f EXCEPT !.valid = FALSE]
  OBVIOUS
<1>2. g = [valid |-> FALSE, expanded |-> f.expanded, config |-> f.config]
  BY <1>1 DEF FileOk
<1>3. FileOk(g) /\ g.expanded = f.expanded
  BY <1>2 DEF FileOk
<1> QED
  BY <1>1, <1>3

\* The commands write a file, with its sections still there or gone for everyone to see.
Written(f) ==
  /\ configFile' = f /\ editor' = editor
  /\ collapsed' = (collapsed \/ (configFile.expanded /\ ~f.expanded))

LEMMA WrittenOk ==
  ASSUME ConfigInv, NEW f, FileOk(f), Written(f)
  PROVE  ConfigInv'
<1>1. FileOk(configFile')
  BY DEF Written
<1>2. EditorOk(editor')
  BY DEF Written, ConfigInv
<1>3. collapsed' \in BOOLEAN
  BY DEF Written, ConfigInv
<1>4. ~collapsed' /\ ~configFile'.expanded => Bare(editor'.loaded)
  BY DEF Written, ConfigInv
<1> QED
  BY <1>1, <1>2, <1>3, <1>4 DEF ConfigInv

LEMMA RootSettingOk ==
  ASSUME NEW f, FileOk(f), NEW v
  PROVE  FileOk([f EXCEPT !.config.source = v]) /\ FileOk([f EXCEPT !.config.command = v])
<1>1. PICK c : c = f.config
  OBVIOUS
<1>2. IsConfig(c)
  BY <1>1 DEF FileOk
<1>3. PICK d : d = [c EXCEPT !.source = v]
  OBVIOUS
<1>4. PICK e : e = [c EXCEPT !.command = v]
  OBVIOUS
<1>5. /\ IsConfig(d) /\ d.roles = c.roles /\ d.pipelines = c.pipelines
      /\ IsConfig(e) /\ e.roles = c.roles /\ e.pipelines = c.pipelines
  BY <1>2, <1>3, <1>4, ConfigParts
<1>6. [f EXCEPT !.config.source = v] = [f EXCEPT !.config = d]
  BY <1>1, <1>3
<1>7. [f EXCEPT !.config.command = v] = [f EXCEPT !.config = e]
  BY <1>1, <1>4
<1>8. f.expanded \/ (DOMAIN c.roles = {} /\ DOMAIN c.pipelines = {})
  BY <1>1 DEF FileOk
<1>9. FileOk([f EXCEPT !.config = d]) /\ FileOk([f EXCEPT !.config = e])
  BY <1>5, <1>8, FilePartsOk
<1> QED
  BY <1>6, <1>7, <1>9

LEMMA SetRootOk ==
  ASSUME ConfigInv, SetRoot
  PROVE  ConfigInv'
<1>1. FileOk(configFile) /\ IsConfig(configFile.config)
  BY DEF ConfigInv, FileOk
<1>2. PICK f : Writes(f) /\ FileOk(f)
  <2>1. PICK v \in Values :
          \/ Writes([configFile EXCEPT !.config.source = v])
          \/ Writes(IF configFile.expanded THEN Yaml(WithSource(configFile.config, v)) ELSE DefaultText(WithSource(configFile.config, v)))
          \/ Writes([configFile EXCEPT !.config.command = v])
    BY DEF SetRoot
  <2>2. FileOk([configFile EXCEPT !.config.source = v]) /\ FileOk([configFile EXCEPT !.config.command = v])
    BY <1>1, RootSettingOk
  <2>3. IsConfig(WithSource(configFile.config, v))
    BY <1>1, SourceIsConfig
  <2>4. FileOk(Yaml(WithSource(configFile.config, v))) /\ FileOk(DefaultText(WithSource(configFile.config, v)))
    BY <2>3, YamlIsFile, TextIsFile
  <2>5. FileOk(IF configFile.expanded THEN Yaml(WithSource(configFile.config, v)) ELSE DefaultText(WithSource(configFile.config, v)))
    BY <2>4
  <2> QED
    BY <2>1, <2>2, <2>5
<1>3. Written(f)
  BY <1>2 DEF Writes, Written
<1> QED
  BY <1>2, <1>3, WrittenOk

LEMMA SetRoleOk ==
  ASSUME ConfigInv, SetRole
  PROVE  ConfigInv'
<1>1. FileOk(configFile)
  BY DEF ConfigInv
<1>2. PICK r \in DOMAIN configFile.config.roles : Writes([configFile EXCEPT !.config.roles[r] = "own"])
  BY DEF SetRole
<1>3. PICK c : c = configFile.config
  OBVIOUS
<1>4. IsConfig(c) /\ configFile.expanded
  BY <1>1, <1>3 DEF FileOk, SetRole
<1>5. PICK m : m = [c.roles EXCEPT ![r] = "own"]
  OBVIOUS
<1>6. IsEntries(m)
  BY <1>4, <1>5 DEF IsEntries
<1>7. PICK d : d = [c EXCEPT !.roles = m]
  OBVIOUS
<1>8. IsConfig(d)
  BY <1>4, <1>6, <1>7, ConfigParts
<1>9. [configFile EXCEPT !.config.roles[r] = "own"] = [configFile EXCEPT !.config = d]
  BY <1>3, <1>5, <1>7
<1>10. FileOk([configFile EXCEPT !.config = d])
  BY <1>1, <1>4, <1>8, FilePartsOk
<1>11. PICK f : f = [configFile EXCEPT !.config.roles[r] = "own"]
  OBVIOUS
<1>12. FileOk(f) /\ Written(f)
  BY <1>2, <1>9, <1>10, <1>11 DEF Writes, Written
<1> QED
  BY <1>12, WrittenOk

LEMMA SetNodeOk ==
  ASSUME ConfigInv, SetNode
  PROVE  ConfigInv'
<1>1. IsConfig(configFile.config)
  BY DEF ConfigInv, FileOk
<1>2. PICK p, r : Writes(Yaml(Apply(Merged(configFile.config), Change("role", p, r))))
  BY DEF SetNode
<1>3. IsConfig(Apply(Merged(configFile.config), Change("role", p, r)))
  BY <1>1, MergedIsConfig, ApplyIsConfig
<1>4. FileOk(Yaml(Apply(Merged(configFile.config), Change("role", p, r))))
  BY <1>3, YamlIsFile
<1>5. PICK f : f = Yaml(Apply(Merged(configFile.config), Change("role", p, r)))
  OBVIOUS
<1>6. FileOk(f) /\ Written(f)
  BY <1>2, <1>4, <1>5 DEF Writes, Written
<1> QED
  BY <1>6, WrittenOk

LEMMA ResetOk ==
  ASSUME ConfigInv, Reset
  PROVE  ConfigInv'
<1>1. FileOk(DefaultText(DEFAULT_CONFIG))
  BY DefaultIsConfig, TextIsFile
<1>2. PICK f : f = DefaultText(DEFAULT_CONFIG)
  OBVIOUS
<1>3. FileOk(f) /\ Written(f)
  BY <1>1, <1>2 DEF Reset, Writes, Written
<1> QED
  BY <1>3, WrittenOk

LEMMA EditByHandOk ==
  ASSUME ConfigInv, EditByHand
  PROVE  ConfigInv'
<1>1. FileOk(configFile)
  BY DEF ConfigInv
<1>2. PICK c : c = Imported
  OBVIOUS
<1>3. PICK g : g = [valid |-> TRUE, expanded |-> TRUE, config |-> c]
  OBVIOUS
<1>4. FileOk(g)
  BY <1>2, <1>3, ImportedIsConfig DEF FileOk
<1>5. PICK h : h = [configFile EXCEPT !.valid = FALSE]
  OBVIOUS
<1>6. FileOk(h)
  BY <1>1, <1>5, BrokenFileOk
<1>7. Writes(h) \/ Writes(g)
  BY <1>2, <1>3, <1>5 DEF EditByHand
<1>8. CASE Writes(h)
  <2>1. Written(h)
    BY <1>8 DEF Writes, Written
  <2> QED
    BY <1>6, <2>1, WrittenOk
<1>9. CASE Writes(g)
  <2>1. Written(g)
    BY <1>9 DEF Writes, Written
  <2> QED
    BY <1>4, <2>1, WrittenOk
<1> QED
  BY <1>7, <1>8, <1>9

\* In the editor the file stays as it is, but for the save.
LEMMA EditorStepOk ==
  ASSUME ConfigInv, FileSame, EditorOk(editor'), editor'.loaded = editor.loaded \/ editor' = NoEditor
  PROVE  ConfigInv'
<1>1. configFile' = configFile /\ collapsed' = collapsed
  BY DEF FileSame
<1>2. ~collapsed' /\ ~configFile'.expanded => Bare(editor'.loaded)
  <2>1. Bare(NoEditor.loaded)
    BY NothingOpen
  <2> QED
    BY <1>1, <2>1 DEF ConfigInv
<1> QED
  BY <1>1, <1>2 DEF ConfigInv

LEMMA OpenOk ==
  ASSUME ConfigInv, Open
  PROVE  ConfigInv'
<1>1. FileOk(configFile) /\ configFile' = configFile /\ collapsed' = FALSE
  BY DEF ConfigInv, Open
<1>2. PICK c : c = Loaded(configFile)
  OBVIOUS
<1>3. PICK missing \in BOOLEAN :
        editor' = [at |-> "menu", loaded |-> c, draft |-> c, pending |-> <<>>, noImage |-> missing]
  BY <1>2 DEF Open
<1>4. IsConfig(c) /\ (~configFile.expanded => Bare(c))
  BY <1>1, <1>2, LoadedIsConfig
<1>5. EditorOk(editor')
  BY <1>3, <1>4, OpenedOk
<1>6. editor'.loaded = c
  BY <1>3
<1> QED
  BY <1>1, <1>4, <1>5, <1>6 DEF ConfigInv

LEMMA EditOk ==
  ASSUME ConfigInv, Edit
  PROVE  ConfigInv'
<1>1. EditorOk(editor) /\ FileSame
  BY DEF ConfigInv, Edit
<1>2. PICK a \in Offered(editor.draft) : editor' = [editor EXCEPT !.draft = Apply(@, a), !.pending = Append(@, a)]
  BY DEF Edit
<1>3. EditorOk(editor')
  BY <1>1, <1>2, EditedOk
<1>4. editor'.loaded = editor.loaded
  BY <1>1, <1>2 DEF EditorOk
<1> QED
  BY <1>1, <1>3, <1>4, EditorStepOk

LEMMA ReplaceOk ==
  ASSUME ConfigInv, Replace
  PROVE  ConfigInv'
<1>1. EditorOk(editor) /\ FileSame
  BY DEF ConfigInv, Replace
<1>2. PICK c \in {DEFAULT_CONFIG, Imported, Merged(Yaml(editor.draft).config)} :
        editor' = [editor EXCEPT !.draft = c, !.pending = <<[type |-> "replace-config", config |-> c]>>]
  BY DEF Replace
<1>3. IsConfig(c)
  <2>1. IsConfig(editor.draft)
    BY <1>1 DEF EditorOk
  <2>2. IsConfig(Yaml(editor.draft).config)
    BY <2>1, YamlIsFile DEF FileOk
  <2>3. IsConfig(Merged(Yaml(editor.draft).config))
    BY <2>2, MergedIsConfig
  <2> QED
    BY <1>2, <2>3, DefaultIsConfig, ImportedIsConfig
<1>4. EditorOk(editor')
  BY <1>1, <1>2, <1>3, ReplacedOk
<1>5. editor'.loaded = editor.loaded
  BY <1>1, <1>2 DEF EditorOk
<1> QED
  BY <1>1, <1>4, <1>5, EditorStepOk

LEMMA RollbackOk ==
  ASSUME ConfigInv, Rollback
  PROVE  ConfigInv'
<1>1. EditorOk(editor) /\ FileSame /\ RollbackOffered
  BY DEF ConfigInv, Rollback
<1>2. PICK i \in DOMAIN editor.pending :
        editor' = [editor EXCEPT !.pending = RemoveAt(editor.pending, i),
                                 !.draft = Applied(editor.loaded, RemoveAt(editor.pending, i)),
                                 !.at = IF RemoveAt(editor.pending, i) = <<>> THEN "menu" ELSE "confirm"]
  BY DEF Rollback
<1>3. EditorOk(editor')
  BY <1>1, <1>2, RolledBackOk
<1>4. editor'.loaded = editor.loaded
  BY <1>1, <1>2 DEF EditorOk
<1> QED
  BY <1>1, <1>3, <1>4, EditorStepOk

\* Going to the question and back, and closing.
LEMMA LeavingOk ==
  ASSUME ConfigInv, FileSame, NEW at, editor' = [editor EXCEPT !.at = at] \/ Closed
  PROVE  ConfigInv'
<1>1. EditorOk(editor)
  BY DEF ConfigInv
<1>2. CASE editor' = [editor EXCEPT !.at = at]
  <2>1. EditorOk(editor')
    BY <1>1, <1>2, MovedOk
  <2>2. editor'.loaded = editor.loaded
    BY <1>1, <1>2 DEF EditorOk
  <2> QED
    BY <2>1, <2>2, EditorStepOk
<1>3. CASE Closed
  <2>1. editor' = NoEditor
    BY <1>3 DEF Closed
  <2> QED
    BY <2>1, NothingOpen, EditorStepOk
<1> QED
  BY <1>2, <1>3

LEMMA SaveOk ==
  ASSUME ConfigInv, Save
  PROVE  ConfigInv'
<1>1. EditorOk(editor) /\ IsConfig(editor.draft) /\ collapsed \in BOOLEAN
  BY DEF ConfigInv, EditorOk
<1>2. editor' = NoEditor /\ collapsed' = collapsed /\ configFile' = Persisted(editor.draft, configFile, editor.pending)
  BY DEF Save, Closed
<1>3. FileOk(configFile')
  BY <1>1, <1>2, YamlIsFile, TextIsFile DEF Persisted
<1> QED
  BY <1>1, <1>2, <1>3, NothingOpen DEF ConfigInv

LEMMA InitConfig ==
  ASSUME ConfigInit
  PROVE  ConfigInv
<1>1. FileOk(configFile)
  <2>1. FileOk(DefaultText(DEFAULT_CONFIG)) /\ FileOk(Yaml(DEFAULT_CONFIG))
    BY DefaultIsConfig, TextIsFile, YamlIsFile
  <2> QED
    BY <2>1 DEF ConfigInit
<1> QED
  BY <1>1, NothingOpen DEF ConfigInit, ConfigInv

LEMMA NextConfig ==
  ASSUME ConfigInv, [ConfigNext]_configVars
  PROVE  ConfigInv'
<1>1. CASE Open
  BY <1>1, OpenOk
<1>2. CASE Edit
  BY <1>2, EditOk
<1>3. CASE Replace
  BY <1>3, ReplaceOk
<1>4. CASE Exit \/ Escape \/ Leave \/ Return \/ Discard \/ ExitUnsaved
  <2>1. FileSame /\ \E at : editor' = [editor EXCEPT !.at = at] \/ Closed
    BY <1>4 DEF Exit, Escape, Leave, Return, Discard, ExitUnsaved
  <2> QED
    BY <2>1, LeavingOk
<1>5. CASE Rollback
  BY <1>5, RollbackOk
<1>6. CASE Save
  BY <1>6, SaveOk
<1>7. CASE SetRoot
  BY <1>7, SetRootOk
<1>8. CASE SetRole
  BY <1>8, SetRoleOk
<1>9. CASE SetNode
  BY <1>9, SetNodeOk
<1>10. CASE Reset
  BY <1>10, ResetOk
<1>11. CASE EditByHand
  BY <1>11, EditByHandOk
<1>12. CASE UNCHANGED configVars
  BY <1>12 DEF configVars, ConfigInv
<1> QED
  BY <1>1, <1>2, <1>3, <1>4, <1>5, <1>6, <1>7, <1>8, <1>9, <1>10, <1>11, <1>12 DEF ConfigNext

\* What is read of a written file: all settings, and on top the sections of the pack.
LEMMA ReadBack ==
  ASSUME NEW f, FileOk(f), f.valid
  PROVE  /\ Root(Loaded(f)) = Root(f.config)
         /\ Loaded(f).roles = Over(f.config.roles, DEFAULT_CONFIG.roles)
         /\ Loaded(f).pipelines = Over(f.config.pipelines, DEFAULT_CONFIG.pipelines)
<1>1. PICK c : c = f.config
  OBVIOUS
<1>2. IsConfig(c)
  BY <1>1 DEF FileOk
<1>3. PICK m : m = Merged(c)
  OBVIOUS
<1>4. /\ IsConfig(m) /\ m.source = c.source /\ m.command = c.command
      /\ m.roles = Over(c.roles, DEFAULT_CONFIG.roles) /\ m.pipelines = Over(c.pipelines, DEFAULT_CONFIG.pipelines)
  BY <1>2, <1>3, MergedIsConfig
<1>5. Root(m) = Root(c)
  BY <1>2, <1>4, RootIsConfig
<1>6. Loaded(f) = m
  BY <1>1, <1>3 DEF Loaded
<1> QED
  BY <1>1, <1>4, <1>5, <1>6

LEMMA OverKeeps ==
  ASSUME NEW f, IsEntries(f), NEW g
  PROVE  On(Over(f, g), DOMAIN f) = f
<1>1. DOMAIN Over(f, g) \intersect DOMAIN f = DOMAIN f
  BY DEF Over
<1>2. \A x \in DOMAIN f : Over(f, g)[x] = f[x]
  BY DEF Over
<1>3. On(Over(f, g), DOMAIN f) = [x \in DOMAIN f |-> Over(f, g)[x]]
  BY <1>1 DEF On
<1> QED
  BY <1>2, <1>3 DEF IsEntries

ReadsBack(read, shown) ==
  /\ Root(read) = Root(shown)
  /\ On(read.pipelines, DOMAIN shown.pipelines) = shown.pipelines
  /\ DOMAIN read.pipelines = DOMAIN shown.pipelines \union DOMAIN DEFAULT_CONFIG.pipelines
  /\ DOMAIN read.roles = DOMAIN shown.roles \union DOMAIN DEFAULT_CONFIG.roles

LEMMA YamlKeeps ==
  ASSUME NEW c, IsConfig(c)
  PROVE  ReadsBack(Loaded(Yaml(c)), c)
<1>1. PICK f : f = Yaml(c)
  OBVIOUS
<1>2. /\ FileOk(f) /\ f.valid /\ f.config.source = c.source /\ f.config.command = c.command
      /\ f.config.pipelines = c.pipelines /\ DOMAIN f.config.roles = DOMAIN c.roles
  BY <1>1, YamlIsFile
<1>3. /\ Root(Loaded(f)) = Root(f.config)
      /\ Loaded(f).roles = Over(f.config.roles, DEFAULT_CONFIG.roles)
      /\ Loaded(f).pipelines = Over(c.pipelines, DEFAULT_CONFIG.pipelines)
  BY <1>2, ReadBack
<1>4. Root(f.config) = Root(c)
  <2>1. PICK d : d = f.config
    OBVIOUS
  <2>2. IsConfig(d) /\ d.source = c.source /\ d.command = c.command
    BY <1>2, <2>1 DEF FileOk
  <2> QED
    BY <2>1, <2>2, RootIsConfig
<1>5. On(Over(c.pipelines, DEFAULT_CONFIG.pipelines), DOMAIN c.pipelines) = c.pipelines
  BY OverKeeps DEF IsConfig
<1>6. PICK r : r = Loaded(f)
  OBVIOUS
<1>7. DOMAIN r.roles = DOMAIN c.roles \union DOMAIN DEFAULT_CONFIG.roles
  BY <1>2, <1>3, <1>6, EntriesStay
<1>8. /\ r.pipelines = Over(c.pipelines, DEFAULT_CONFIG.pipelines)
      /\ DOMAIN r.pipelines = DOMAIN c.pipelines \union DOMAIN DEFAULT_CONFIG.pipelines
  BY <1>3, <1>6, EntriesStay
<1>9. ReadsBack(r, c)
  <2>1. On(r.pipelines, DOMAIN c.pipelines) = c.pipelines
    BY <1>5, <1>8
  <2> QED
    BY <1>3, <1>4, <1>6, <1>7, <1>8, <2>1 DEF ReadsBack
<1> QED
  BY <1>1, <1>6, <1>9

\* Without sections are written only drafts with the sections of the pack.
LEMMA TextKeeps ==
  ASSUME NEW c, IsConfig(c), Bare(c)
  PROVE  ReadsBack(Loaded(DefaultText(c)), c)
<1>1. PICK f : f = DefaultText(c)
  OBVIOUS
<1>2. FileOk(f) /\ f.valid /\ ~f.expanded /\ f.config = Root(c)
  BY <1>1, TextIsFile
<1>3. Root(Loaded(f)) = Root(f.config) /\ Bare(Loaded(f))
  BY <1>2, ReadBack, LoadedIsConfig
<1>4. Root(Root(c)) = Root(c)
  <2>1. PICK d : d = Root(c)
    OBVIOUS
  <2>2. IsConfig(d) /\ d = [source |-> c.source, command |-> c.command, roles |-> <<>>, pipelines |-> <<>>]
    BY <2>1, RootIsConfig
  <2>3. d.source = c.source /\ d.command = c.command
    BY <2>2
  <2>4. Root(d) = [source |-> c.source, command |-> c.command, roles |-> <<>>, pipelines |-> <<>>]
    BY <2>2, <2>3, RootIsConfig
  <2> QED
    BY <2>1, <2>2, <2>4
<1>5. PICK r : r = Loaded(f)
  OBVIOUS
<1>6. r.pipelines = c.pipelines /\ DOMAIN r.roles = {"worker"} /\ DOMAIN c.roles = {"worker"}
      /\ c.pipelines = DEFAULT_CONFIG.pipelines
  BY <1>3, <1>5 DEF Bare
<1>7. On(r.pipelines, DOMAIN c.pipelines) = c.pipelines
  <2>1. IsEntries(c.pipelines)
    BY DEF IsConfig
  <2>2. On(c.pipelines, DOMAIN c.pipelines) = [x \in DOMAIN c.pipelines |-> c.pipelines[x]]
    BY DEF On
  <2> QED
    BY <1>6, <2>1, <2>2 DEF IsEntries
<1>8. Root(r) = Root(c)
  BY <1>2, <1>3, <1>4, <1>5
<1> QED
  BY <1>1, <1>5, <1>6, <1>7, <1>8, DefaultIsConfig DEF ReadsBack

LEMMA SaveKeeps ==
  ASSUME ConfigInv, Save, ~collapsed
  PROVE  ReadsBack(Loaded(configFile'), editor.draft)
<1>1. configFile' = Persisted(editor.draft, configFile, editor.pending)
  BY DEF Save
<1>2. IsConfig(editor.draft)
  BY DEF ConfigInv, EditorOk
<1>3. CASE configFile.expanded \/ TouchesSections(editor.pending)
  <2>1. configFile' = Yaml(editor.draft)
    BY <1>1, <1>3 DEF Persisted
  <2> QED
    BY <1>2, <2>1, YamlKeeps
<1>4. CASE ~(configFile.expanded \/ TouchesSections(editor.pending))
  <2>1. configFile' = DefaultText(editor.draft)
    BY <1>1, <1>4 DEF Persisted
  <2>2. Bare(editor.draft)
    BY <1>4 DEF ConfigInv, EditorOk, Bare
  <2> QED
    BY <1>2, <2>1, <2>2, TextKeeps
<1> QED
  BY <1>3, <1>4

\* The step of SavedIsShown.
SavedStep ==
  Save /\ configFile' # configFile /\ ~collapsed =>
    LET read == Loaded(configFile')
        shown == editor.draft
    IN /\ Root(read) = Root(shown)
       /\ On(read.pipelines, DOMAIN shown.pipelines) = shown.pipelines
       /\ DOMAIN read.pipelines = DOMAIN shown.pipelines \union DOMAIN DEFAULT_CONFIG.pipelines
       /\ DOMAIN read.roles = DOMAIN shown.roles \union DOMAIN DEFAULT_CONFIG.roles

LEMMA SaveShown == ConfigInv => [SavedStep]_configVars
BY SaveKeeps DEF SavedStep, ReadsBack

LEMMA DraftShown == ConfigInv => DraftIsItsChanges
BY DEF ConfigInv, EditorOk, DraftIsItsChanges

-----------------------------------------------------------------------------
(* The theorems                                                            *)

\* What all the extensions do together is to each of them its own behaviour.
LEMMA LoadedMove == Spec => MoveSpec
<1>1. Init => MoveInit
  BY DEF Init
<1>2. [Next]_vars => [MoveNext]_moveVars
  BY DEF Next, vars
<1> QED
  BY <1>1, <1>2, PTL DEF Spec, MoveSpec

LEMMA LoadedHandoff == Spec => HandoffSpec
<1>1. Init => HandoffInit
  BY DEF Init
<1>2. [Next]_vars => [HandoffNext]_handoffVars
  BY DEF Next, vars
<1> QED
  BY <1>1, <1>2, PTL DEF Spec, HandoffSpec

LEMMA LoadedRecords == Spec => RecordSpec
<1>1. Init => RecordInit
  BY DEF Init
<1>2. [Next]_vars => [RecordNext]_recordVars
  BY DEF Next, vars
<1> QED
  BY <1>1, <1>2, PTL DEF Spec, RecordSpec

LEMMA LoadedAutoname == Spec => AutonameSpec
<1>1. Init => AutonameInit
  BY DEF Init
<1>2. [Next]_vars => [AutonameNext]_autonameVars
  BY DEF Next, vars
<1> QED
  BY <1>1, <1>2, PTL DEF Spec, AutonameSpec

LEMMA LoadedRewind == Spec => RewindSpec
<1>1. Init => RewindInit
  BY DEF Init
<1>2. [Next]_vars => [RewindNext]_rewindVars
  BY DEF Next, vars
<1> QED
  BY <1>1, <1>2, PTL DEF Spec, RewindSpec

LEMMA LoadedConfig == Spec => ConfigSpec
<1>1. Init => ConfigInit
  BY DEF Init
<1>2. [Next]_vars => [ConfigNext]_configVars
  BY DEF Next, vars
<1> QED
  BY <1>1, <1>2, PTL DEF Spec, ConfigSpec

\* Whatever a move or a split of a session does, fails at or is interrupted in, and whoever
\* uploads meanwhile: every message and every turn is still in a memory, in a file or in a
\* copy, but for what a delete took unread; and a rollback in which nothing failed gives
\* back what there was (executeMoveCommand, executeSplitCommand, restoreMonosession of
\* session-move/index.ts).
THEOREM NothingLost == Spec => []NothingIsLost
BY InitMove, NextMove, MoveShown, LoadedMove, PTL DEF MoveSpec

\* A move lets the old memory go only once the file is in its new place and the new memory
\* says all of it; and a command that calls itself complete has the file, or the two
\* parts of it, where they belong and all that they say remembered under their keys
\* (executeMoveCommand, executeSplitCommand of session-move/index.ts).
THEOREM MoveFollows == Spec => SourceFollowsTheFile /\ CompleteIsWhole
BY InitHonest, NextHonest, SourceFollowsStep, CompletesStep, LoadedMove, PTL
   DEF MoveSpec, SourceFollowsTheFile, CompleteIsWhole

\* /handoff tells the user of a Pi that it opened, opens a second one only when an answer
\* was lost, and keeps to an override, for any order of launchers that has cmux in it and
\* whatever each terminal does (launch and the launchers of handoff/index.ts).
THEOREM HandoffHonest == Spec => []HandoffIsHonest
BY InitHandoff, NextHandoff, HandoffShown, LoadedHandoff, PTL DEF HandoffSpec

\* The record of a run agrees with its process whenever no command is between the two,
\* for any number of runs, of commands at once and of failing controllers
\* (run-management.mjs, work-runs.mjs), but for runs that two took or that ended meanwhile.
THEOREM RecordFollows == Spec => []RecordFollowsTheRun
BY InitRecords, NextRecords, RecordsShown, LoadedRecords, PTL DEF RecordSpec

\* A turn never takes a title away that the user gave before the turn asked for another,
\* however often the extension is switched and the session named (pi-autoname/index.ts).
THEOREM ManualStays == Spec => ManualTitleStays
<1>1. ASSUME TitlesInv, [AutonameNext]_autonameVars
      PROVE  [title = manual.title /\ title > 0 /\ title' # title /\ "turn" \in waiting /\ waiting' = waiting \ {"turn"}
                => "turn" \in manual.when]_autonameVars
  BY <1>1, TitleStaysShown
<1> QED
  BY <1>1, InitTitles, NextTitles, LoadedAutoname, PTL DEF AutonameSpec, ManualTitleStays

\* Whatever entries, edits, restarts, failing Git commands and handlers at once there are: a
\* rewind restores the files that the entry had when it was chosen, from checkpoints that
\* hold the workspace, and loses later edits only by choice (pi-rewind/index.ts).
THEOREM RewindHonest == Spec => RewindIsHonest
BY InitRewind, NextRewind, RewindShown, RewindTyped, LoadedRewind, PTL
   DEF RewindSpec, RewindIsHonest, LossWasChosen, RestoresWhatWasAsked, CheckpointIsTheFiles

\* Whatever changes are made and taken back, whatever the file said and whoever edits it while
\* the editor is open: the draft is what its listed changes make of it, and what is read back
\* after a save is what the editor showed, for any roles and pipelines and any number of
\* changes (showBacklogConfigTui, applyActionToModel and configToPersistedYaml).
THEOREM EditorHonest == Spec => EditorIsHonest
BY InitConfig, NextConfig, DraftShown, SaveShown, LoadedConfig, PTL DEF ConfigSpec, EditorIsHonest, SavedIsShown, SavedStep
=============================================================================
