----------------------------- MODULE RunRecords -----------------------------
(***************************************************************************)
(* run-management.mjs and work-runs.mjs of agent-workflows: the records of *)
(* runs, and the commands that select, cancel and resume them while the    *)
(* runs themselves go on and write what became of them.                    *)
(*                                                                         *)
(* The process behind a run is external; a controller stops or restarts    *)
(* it.  A record is what the commands look at: its status, how old it is,  *)
(* whether it has a session that can be resumed, and the Work Source it    *)
(* was made for.                                                           *)
(***************************************************************************)
EXTENDS Naturals, Sequences, FiniteSets, SequencesExt

CONSTANTS Runs, Callers, MaxClock, MaxRecordCalls, RecordFaults
ASSUME RunRecordsAssumption == MaxClock \in Nat /\ MaxRecordCalls \in Nat /\ RecordFaults \in Nat

VARIABLES
  records,       \* by run: [status, updated, session, source]
  process,       \* by run: "running", "stopped" by a controller, "ended", "gone" with its host
  controlled,    \* the runs this process holds a controller for
  workSource,    \* the Work Source registration selected now
  recordCall,    \* by caller: the command it is in
  clock, recordCalls, recordFaults,
  contested      \* history: the runs that ended, or that a second command took, in the midst of a command
recordVars == <<records, process, controlled, workSource, recordCall, clock, recordCalls, recordFaults, contested>>

Sources == {"old", "new"}
ResumeStatuses == {"cancelled", "failed"}
NoCall == [pc |-> "idle", todo |-> <<>>, copy |-> {}]

RecordInit ==
  /\ records \in [Runs -> [status : {"running", "failed"}, updated : {0}, session : BOOLEAN, source : {"old"}]]
  /\ process \in [Runs -> {"running", "gone"}]
  /\ \A r \in Runs : records[r].status = "failed" => process[r] = "gone"
  /\ controlled \in {{r \in Runs : process[r] = "running"}, Runs, {}}
  /\ workSource = "old" /\ recordCall = [c \in Callers |-> NoCall] /\ clock = 0 /\ recordCalls = 0 /\ recordFaults = 0 /\ contested = {}

InCall(c, pc) == recordCall[c].pc = pc
Called == recordCalls < MaxRecordCalls /\ recordCalls' = recordCalls + 1
Calls(c, call) == recordCall' = [recordCall EXCEPT ![c] = call]
WorldSame == UNCHANGED <<controlled, workSource, clock>>
\* The run a command has stopped or restarted and not yet recorded.
Recording(c, r) == recordCall[c].pc \in {"cancelled", "resumed"} /\ Head(recordCall[c].todo) = r
Contests(r) == contested' = IF \E c \in Callers : Recording(c, r) THEN contested \union {r} ELSE contested
Put(r, rec) == records' = [records EXCEPT ![r] = rec]

-----------------------------------------------------------------------------
(* Selection *)

Newest(S) == {r \in S : \A o \in S : records[o].updated <= records[r].updated}
\* The order of every listing; a tie is broken by the id.
InOrder(S) ==
  CHOOSE q \in SetToSeqs(S) : \A i, j \in 1..Len(q) : i < j => records[q[j]].updated <= records[q[i]].updated
Active == {r \in Runs : records[r].status = "running"}

\* What a command may select; nothing when it answers with an error.  A run that is named
\* by its id is taken by resume whatever its status; it is refused later.
Cancelable == {<<r>> : r \in Active} \union IF Active = {} THEN {} ELSE {InOrder(Active)}
HasSession(r) == records[r].session
Unfinished == {r \in Runs : HasSession(r) /\ records[r].status # "completed"}
Resumable == {<<r>> : r \in Runs} \union IF Cardinality(Unfinished) = 1 THEN {<<r>> : r \in Unfinished} ELSE {}
WorkResumable(r) == HasSession(r) /\ records[r].status \in ResumeStatuses
WorkUnfinished == {r \in Runs : WorkResumable(r)}
WorkSelectable ==
  {<<r>> : r \in Runs} \union IF Cardinality(Newest(WorkUnfinished)) = 1 THEN {<<r>> : r \in Newest(WorkUnfinished)} ELSE {}

-----------------------------------------------------------------------------
(* The runs, and the world *)

\* runWorkProcess, the pipeline or the role writes what became of it.
RunEnds(r) ==
  /\ process[r] = "running" /\ process' = [process EXCEPT ![r] = "ended"] /\ Contests(r)
  /\ \E s \in {"completed", "failed"} : Put(r, [records[r] EXCEPT !.status = s, !.updated = clock])
  /\ WorldSame /\ UNCHANGED <<recordCall, recordCalls, recordFaults>>
Tick ==
  /\ clock < MaxClock /\ clock' = clock + 1
  /\ UNCHANGED <<records, process, controlled, workSource, recordCall, recordCalls, recordFaults, contested>>
SelectSource ==
  /\ workSource = "old" /\ workSource' = "new"
  /\ UNCHANGED <<records, process, controlled, recordCall, clock, recordCalls, recordFaults, contested>>

-----------------------------------------------------------------------------
(* The commands *)

\* cancel: every controller is looked up before the first is used.
Cancel(c) ==
  /\ InCall(c, "idle") /\ Called
  /\ \E q \in Cancelable : ToSet(q) \subseteq controlled /\ Calls(c, [NoCall EXCEPT !.pc = "cancel", !.todo = q])
  /\ WorldSame /\ UNCHANGED <<records, process, recordFaults, contested>>

\* resume: the run needs a session and a controller, its status is not looked at.
Resume(c) ==
  /\ InCall(c, "idle") /\ Called
  /\ \E q \in Resumable : /\ HasSession(Head(q)) /\ Head(q) \in controlled
                          /\ Calls(c, [NoCall EXCEPT !.pc = "resume", !.todo = q])
  /\ WorldSame /\ UNCHANGED <<records, process, recordFaults, contested>>

\* resumeWorkRun keeps the record it selected, and looks at the Work Source afterwards.
Drifted(rec) == rec.source # workSource
ResumeWork(c) ==
  /\ InCall(c, "idle") /\ Called
  /\ \E q \in WorkSelectable :
       /\ WorkResumable(Head(q)) /\ ~Drifted(records[Head(q)])
       /\ Calls(c, [pc |-> "resume", todo |-> q, copy |-> {records[Head(q)]}])
  /\ WorldSame /\ UNCHANGED <<records, process, recordFaults, contested>>

\* await controller.cancel(), controller.resume() or the resume capability: an error ends the
\* command, and a run that ended meanwhile is not stopped any more.
Ignored(c, pc) == [recordCall[c] EXCEPT !.pc = pc]                          \* mutant
AfterThrow(c, pc) == NoCall
Await(c) ==
  /\ recordCall[c].todo # <<>> /\ recordCall[c].pc \in {"cancel", "resume"}
  /\ LET r == Head(recordCall[c].todo)
         stops == InCall(c, "cancel")
         next == IF stops THEN "cancelled" ELSE "resumed"
     IN \/ /\ process' = [process EXCEPT ![r] = IF ~stops THEN "running" ELSE IF @ = "running" THEN "stopped" ELSE @]
           /\ Calls(c, [recordCall[c] EXCEPT !.pc = next]) /\ Contests(r) /\ UNCHANGED recordFaults
        \/ /\ recordFaults < RecordFaults /\ recordFaults' = recordFaults + 1
           /\ Calls(c, AfterThrow(c, next)) /\ UNCHANGED <<process, contested>>
  /\ WorldSame /\ UNCHANGED <<records, recordCalls>>

\* updateRun patches the record as it is now, writeWorkRunRecord writes the copy.
Base(c, r) == IF recordCall[c].copy = {} THEN {records[r]} ELSE recordCall[c].copy
\* The command then goes on with its next run.
Record(c) ==
  /\ recordCall[c].pc \in {"cancelled", "resumed"}
  /\ LET r == Head(recordCall[c].todo)
         rest == Tail(recordCall[c].todo)
     IN /\ \E rec \in Base(c, r) :
             Put(r, [rec EXCEPT !.status = IF InCall(c, "resumed") THEN "running" ELSE "cancelled", !.updated = clock])
        /\ Calls(c, IF rest = <<>> THEN NoCall ELSE [recordCall[c] EXCEPT !.pc = "cancel", !.todo = rest])
  /\ WorldSame /\ UNCHANGED <<process, recordCalls, recordFaults, contested>>

RecordNext ==
  \/ Tick \/ SelectSource
  \/ \E r \in Runs : RunEnds(r)
  \/ \E c \in Callers : Cancel(c) \/ Resume(c) \/ ResumeWork(c) \/ Await(c) \/ Record(c)

-----------------------------------------------------------------------------
(* Properties *)

\* What the record says of a run is so, also when a controller fails between the runs of one
\* command: one that was cancelled does not run, one that runs again was restarted.  But not for
\* a run that ended, or that a second command took, before its command wrote the record: a run
\* that ends before its resumption is recorded stays "running" for ever.
RecordFollowsTheRun ==
  \A r \in Runs \ contested : (\A c \in Callers : ~Recording(c, r)) =>
    /\ records[r].status = "running" => process[r] \in {"running", "gone"}
    /\ process[r] = "running" => records[r].status = "running"
=============================================================================
