----------------------------- MODULE Extensions -----------------------------
(***************************************************************************)
(* What a user commands in a Pi session, beside the workflows themselves:  *)
(* moving the session, rewinding it, naming it, handing it off, and the    *)
(* run records and the configuration of agent-workflows.  Each is loaded   *)
(* by its own line of Pi's settings and keeps its own state and files, so  *)
(* a behaviour follows the one that is loaded.                             *)
(***************************************************************************)
EXTENDS SessionMove, PiRewind, PiAutoname, PiHandoff, RunRecords, ConfigEditor

VARIABLE loaded
vars == <<loaded, moveVars, rewindVars, autonameVars, handoffVars, recordVars, configVars>>

\* One that is not loaded stays in one of its initial states.
Loads(name) == loaded = name
One(S) == CHOOSE x \in S : TRUE
Init ==
  /\ loaded \in {"session-move", "pi-rewind", "pi-autoname", "handoff", "run-records", "config"}
  /\ MoveInit /\ (~Loads("session-move") => files.source = One(Sessions).file /\ memory.from = One(Sessions).from /\ memory.to = One(Sessions).to)
  /\ RewindInit /\ (~Loads("pi-rewind") => setup = [auto |-> FALSE, hasUI |-> FALSE])
  /\ AutonameInit /\ (~Loads("pi-autoname") => mode = "once" /\ ~naming.auto)
  /\ ConfigInit /\ (~Loads("config") => ~configFile.expanded)
  /\ HandoffInit /\ (~Loads("handoff") => env = [present |-> {}, template |-> FALSE, override |-> "manual"])
  /\ RecordInit /\ (~Loads("run-records") => controlled = {} /\ \A r \in Runs : process[r] = "running" /\ ~records[r].session)
Next ==
  \/ Loads("session-move") /\ MoveNext /\ UNCHANGED <<loaded, rewindVars, autonameVars, handoffVars, recordVars, configVars>>
  \/ Loads("pi-rewind") /\ RewindNext /\ UNCHANGED <<loaded, moveVars, autonameVars, handoffVars, recordVars, configVars>>
  \/ Loads("pi-autoname") /\ AutonameNext /\ UNCHANGED <<loaded, moveVars, rewindVars, handoffVars, recordVars, configVars>>
  \/ Loads("handoff") /\ HandoffNext /\ UNCHANGED <<loaded, moveVars, rewindVars, autonameVars, recordVars, configVars>>
  \/ Loads("run-records") /\ RecordNext /\ UNCHANGED <<loaded, moveVars, rewindVars, autonameVars, handoffVars, configVars>>
  \/ Loads("config") /\ ConfigNext /\ UNCHANGED <<loaded, moveVars, rewindVars, autonameVars, handoffVars, recordVars>>
Spec == Init /\ [][Next]_vars

\* Whatever a move or split of a session does, fails at or is interrupted in,
\* what was remembered and what was said stay somewhere (session-move).
NothingIsLost == MemorySurvives /\ TranscriptSurvives /\ RollbackRestores

\* A rewind restores what was asked for, from a checkpoint that holds the files,
\* and loses later edits only when the user chose to (pi-rewind).
RewindIsHonest == []RewindTypeOK /\ LossWasChosen /\ RestoresWhatWasAsked /\ CheckpointIsTheFiles
=============================================================================
