------------------------------ MODULE PiRewind ------------------------------
(***************************************************************************)
(* pi-rewind/index.ts: checkpoints of the workspace in a shadow repository *)
(* and their restoration when the user goes to another entry of the        *)
(* session.  The handlers of Pi's events run one after the other, the      *)
(* handler of /rewind at any time, each one Git command after another,     *)
(* while the agent and the user's editor change the files.                 *)
(*                                                                         *)
(* The files are a number, a new one with each edit of tracked files; a    *)
(* commit is the files it holds.  Entry 0 is the empty session.            *)
(***************************************************************************)
EXTENDS Naturals, Sequences, SequencesExt

CONSTANTS MaxEntries, MaxEdits, MaxOps, RewindFaults
ASSUME RewindAssumption == MaxEntries \in Nat /\ MaxEdits \in Nat /\ MaxOps \in Nat /\ RewindFaults \in Nat

VARIABLES
  setup,         \* [auto, hasUI]: automatic checkpoints, someone to ask
  session,       \* [parent, leaf, turn]: the session's tree, whether a turn runs
  workspace, edits,  \* the workspace, edits so far
  repo,          \* [commits, head, index] of the shadow repository
  rt,            \* [checkpoints, pending]: the cached runtime
  disk,          \* the checkpoints in the state file
  ops,           \* the running handler of Pi's events and of the command
  spent          \* [ops, faults] so far
rewindVars == <<setup, session, workspace, edits, repo, rt, disk, ops, spent>>

Handlers == {"pi", "command"}
Entries == 0..MaxEntries
None == [e \in Entries |-> 0]
NoPending == [target |-> 0, commit |-> 0, seen |-> 0, chosen |-> "none"]

\* answered, first, added and alone are history: the answer to the last question, the commit
\* that target had to begin with, the files that were added, and no other handler ran.
Resting == [pc |-> "rest", kind |-> "none", entry |-> 0, target |-> 0, commit |-> 0, seen |-> 0, chosen |-> "none",
            answered |-> "none", first |-> 0, added |-> 0, alone |-> TRUE]
Free(h) == ops[h].pc = "rest"
Checkpointing(kind, entry) == [Resting EXCEPT !.pc = "add", !.kind = kind, !.entry = entry]

RewindInit ==
  /\ setup \in [auto : BOOLEAN, hasUI : BOOLEAN]
  /\ session = [parent |-> <<>>, leaf |-> 0, turn |-> FALSE]
  /\ workspace = 1 /\ edits = 1 /\ repo = [commits |-> <<>>, head |-> 0, index |-> 0]
  /\ rt = [checkpoints |-> None, pending |-> NoPending] /\ disk = None /\ spent = [ops |-> 0, faults |-> 0]
  /\ ops = [h \in Handlers |-> IF h = "pi" /\ setup.auto THEN Checkpointing("event", 0) ELSE Resting]

\* The handler h begins op; a handler that runs already is not alone any more.
Begin(h, op) ==
  /\ Free(h) /\ spent.ops < MaxOps
  /\ ops' = [g \in Handlers |-> [(IF g = h THEN op ELSE ops[g])
               EXCEPT !.alone = (g = h \/ @) /\ \E i \in Handlers \ {h} : Free(i)]]
  /\ spent' = [spent EXCEPT !.ops = @ + 1]
Becomes(h, op) == ops' = [ops EXCEPT ![h] = op]
Step(h, pc) == Becomes(h, [ops[h] EXCEPT !.pc = pc])
Rest(h) == Becomes(h, [Resting EXCEPT !.alone = TRUE])
Same == UNCHANGED <<setup, edits, spent>>

-----------------------------------------------------------------------------
(* Pi, the agent and the user (external) *)

\* before_agent_start and agent_end; the turn's entries and edits lie between them.
TurnBounds ==
  /\ Free("pi") /\ session' = [session EXCEPT !.turn = ~@]
  /\ IF setup.auto THEN Begin("pi", Checkpointing("event", session.leaf)) ELSE UNCHANGED <<ops, spent>>
  /\ UNCHANGED <<setup, workspace, edits, repo, rt, disk>>
AppendEntry ==
  /\ session.turn /\ Free("pi") /\ Len(session.parent) < MaxEntries
  /\ session' = [session EXCEPT !.parent = Append(@, session.leaf), !.leaf = Len(session.parent) + 1]
  /\ UNCHANGED <<setup, workspace, edits, repo, rt, disk, ops, spent>>
\* The agent during its turn, or somebody else at any time.
EditFiles ==
  /\ edits < MaxEdits /\ edits' = edits + 1 /\ workspace' = edits'
  /\ UNCHANGED <<setup, session, repo, rt, disk, ops, spent>>

-----------------------------------------------------------------------------
(* The handlers *)

Asking(kind, target) ==
  LET commit == rt.checkpoints[target]
  IN [Resting EXCEPT !.pc = IF commit > 0 THEN "status" ELSE IF kind = "tree" THEN "navigate" ELSE "rest",
                     !.kind = kind, !.target = target, !.commit = commit, !.first = commit]
\* Pi is idle for a navigation and for a fork; the command comes at any time.
AskTree ==
  /\ ~session.turn /\ \E target \in 1..Len(session.parent) : Begin("pi", Asking("tree", target))
  /\ UNCHANGED <<setup, session, workspace, edits, repo, rt, disk>>
AskFork ==
  /\ ~session.turn /\ \E target \in 1..Len(session.parent) : Begin("pi", Asking("fork", target))
  /\ UNCHANGED <<setup, session, workspace, edits, repo, rt, disk>>
AskCommand ==
  /\ \E target \in 1..Len(session.parent) : Begin("command", Asking("restore", target))
  /\ UNCHANGED <<setup, session, workspace, edits, repo, rt, disk>>
RewindCheckpoint ==
  /\ Begin("command", Checkpointing("checkpoint", session.leaf))
  /\ UNCHANGED <<setup, session, workspace, edits, repo, rt, disk>>

\* checkpoint: git add --all, git diff --cached, git commit, git rev-parse, the state file.
Add(h) ==
  /\ ops[h].pc = "add" /\ repo' = [repo EXCEPT !.index = workspace]
  /\ Becomes(h, [ops[h] EXCEPT !.pc = "diff", !.added = workspace])
  /\ Same /\ UNCHANGED <<session, workspace, rt, disk>>
Committed == IF repo.head = 0 THEN 0 ELSE repo.commits[repo.head]
Diff(h) ==
  /\ ops[h].pc = "diff" /\ Step(h, IF repo.index = Committed THEN "map" ELSE "commit")
  /\ Same /\ UNCHANGED <<session, workspace, repo, rt, disk>>
WithIndex == [repo EXCEPT !.commits = Append(@, repo.index), !.head = Len(repo.commits) + 1]
CommitIndex(h) ==
  /\ ops[h].pc = "commit" /\ repo' = WithIndex /\ Step(h, "map")
  /\ Same /\ UNCHANGED <<session, workspace, rt, disk>>
\* After a checkpoint that a restore asked for comes the question whether to restore.
Saved(h) == IF ops[h].kind \in {"tree", "fork", "restore"} THEN "confirm" ELSE "rest"
Map(h) ==
  /\ ops[h].pc = "map"
  /\ rt' = [rt EXCEPT !.checkpoints[ops[h].entry] = IF ops[h].entry > 0 /\ repo.head > 0 THEN repo.head ELSE @]
  /\ Step(h, "save")
  /\ Same /\ UNCHANGED <<session, workspace, repo, disk>>
SaveState(h) ==
  /\ ops[h].pc = "save" /\ disk' = rt.checkpoints
  /\ IF ops[h].answered = "yes" \/ Saved(h) = "rest" THEN Rest(h) ELSE Step(h, Saved(h))
  /\ Same /\ UNCHANGED <<session, workspace, repo, rt>>

\* prepareRestore: isDirty, chooseDirtyAction, the question whether to restore.
Status(h) ==
  /\ ops[h].pc = "status"
  /\ LET dirty == workspace # Committed \/ repo.index # Committed
         op == [ops[h] EXCEPT !.seen = workspace]
     IN IF ~dirty THEN Becomes(h, [op EXCEPT !.pc = "confirm", !.chosen = "clean"])
        ELSE IF setup.hasUI THEN Becomes(h, [op EXCEPT !.pc = "choose"]) ELSE Rest(h)
  /\ Same /\ UNCHANGED <<session, workspace, repo, rt, disk>>
Unchecked == "confirm"                                                        \* mutant
BeforeQuestion == "add"
Choose(h) ==
  /\ ops[h].pc = "choose"
  /\ \/ Becomes(h, [ops[h] EXCEPT !.pc = BeforeQuestion, !.entry = session.leaf, !.chosen = "checkpoint"])
     \/ Becomes(h, [ops[h] EXCEPT !.pc = "confirm", !.chosen = "discard"])
     \/ Rest(h)
  /\ Same /\ UNCHANGED <<session, workspace, repo, rt, disk>>
\* The commit is the one that the entry had before the dialogs.
Wanted(op) == op.commit
Confirm(h) ==
  /\ ops[h].pc = "confirm"
  /\ LET op == ops[h]
         yes == [op EXCEPT !.answered = "yes"]
         no == [op EXCEPT !.answered = "no", !.pc = "navigate"]
     IN \/ /\ setup.hasUI /\ op.kind = "tree" /\ Becomes(h, [yes EXCEPT !.pc = "navigate"])
           /\ rt' = [rt EXCEPT !.pending = [target |-> op.target, commit |-> Wanted(op),
                                            seen |-> op.seen, chosen |-> op.chosen]]
        \/ /\ setup.hasUI /\ op.kind # "tree"
           /\ Becomes(h, [yes EXCEPT !.pc = "reset", !.commit = Wanted(op)]) /\ UNCHANGED rt
        \/ /\ IF op.kind = "tree" THEN Becomes(h, no) ELSE Rest(h)
           /\ UNCHANGED rt
  /\ Same /\ UNCHANGED <<session, workspace, repo, disk>>

\* Pi navigates, to the entry or (for what the user said) to before it, and the handler of
\* session_tree restores; or a summary was aborted or another extension cancelled, and
\* session_tree never comes.
Navigate(h) ==
  /\ ops[h].pc = "navigate"
  /\ \/ Rest(h) /\ UNCHANGED <<session, rt>>
     \/ \E leaf \in {ops[h].target, session.parent[ops[h].target]} :
          LET pending == rt.pending
          IN /\ session' = [session EXCEPT !.leaf = leaf] /\ rt' = [rt EXCEPT !.pending = NoPending]
             /\ IF pending.commit > 0 /\ leaf = pending.target
                THEN Becomes(h, [ops[h] EXCEPT !.pc = "reset", !.commit = pending.commit,
                                          !.seen = pending.seen, !.chosen = pending.chosen])
                ELSE Rest(h)
  /\ Same /\ UNCHANGED <<workspace, repo, disk>>

\* restore: git reset --hard, then the state file.
ResetFiles(h) ==
  /\ ops[h].pc = "reset" /\ workspace' = repo.commits[ops[h].commit]
  /\ repo' = [repo EXCEPT !.head = ops[h].commit, !.index = workspace']
  /\ Becomes(h, [ops[h] EXCEPT !.pc = "save", !.answered = "yes"])
  /\ Same /\ UNCHANGED <<session, rt, disk>>

\* A Git command fails or the state file cannot be written: the handler throws.
Fails(h) ==
  /\ spent.faults < RewindFaults /\ ops[h].pc \in {"add", "commit", "map", "save", "reset"} /\ Rest(h)
  /\ spent' = [spent EXCEPT !.faults = @ + 1]
  /\ UNCHANGED <<setup, session, workspace, edits, repo, rt, disk>>
\* Pi stops and starts again: loadState takes a torn state file for none.
Restart ==
  /\ spent.faults < RewindFaults /\ spent' = [spent EXCEPT !.faults = @ + 1]
  /\ disk' \in IF \E h \in Handlers : ops[h].pc = "save" THEN {disk, None} ELSE {disk}
  /\ rt' = [checkpoints |-> disk', pending |-> NoPending]
  /\ ops' = [h \in Handlers |-> IF h = "pi" /\ setup.auto THEN Checkpointing("event", session.leaf) ELSE Resting]
  /\ session' = [session EXCEPT !.turn = FALSE] /\ UNCHANGED <<setup, workspace, edits, repo>>

RewindNext ==
  \/ TurnBounds \/ AppendEntry \/ EditFiles \/ AskTree \/ AskFork \/ AskCommand \/ RewindCheckpoint \/ Restart
  \/ \E h \in Handlers : \/ Add(h) \/ Diff(h) \/ CommitIndex(h) \/ Map(h) \/ SaveState(h) \/ Status(h)
                         \/ Choose(h) \/ Confirm(h) \/ Navigate(h) \/ ResetFiles(h) \/ Fails(h)

-----------------------------------------------------------------------------
(* Properties *)

RewindTypeOK ==
  /\ session.leaf \in 0..Len(session.parent) /\ repo.head \in 0..Len(repo.commits)
  /\ \A e \in Entries : {rt.checkpoints[e], disk[e]} \subseteq 0..Len(repo.commits)

Resets(h) == ops[h].pc = "reset" /\ ops'[h].pc = "save"

\* A reset that takes away files which no commit holds was asked for by somebody who chose
\* to discard them, or they changed after the handler had looked at them.
LossWasChosen ==
  [][\A h \in Handlers : Resets(h) =>
        /\ setup.hasUI
        /\ workspace \in Range(repo.commits) \/ workspace # ops[h].seen \/ ops[h].chosen = "discard"]_rewindVars

\* Whoever answers the question with yes gets the files that the entry had when it was
\* chosen, also when the dirty files are first checkpointed onto the same entry.
RestoresWhatWasAsked ==
  [][\A h \in Handlers : Resets(h) /\ ops[h].answered = "yes" => workspace' = repo.commits[ops[h].first]]_rewindVars

\* A checkpoint of an entry is the workspace as it was when the handler added it, unless
\* another handler of the extension ran meanwhile.
CheckpointIsTheFiles ==
  [][\A h \in Handlers : LET op == ops[h]
     IN op.pc = "map" /\ ops'[h].pc = "save" /\ op.alone /\ op.entry > 0
          => \E c \in DOMAIN repo.commits : c = rt'.checkpoints[op.entry] /\ repo.commits[c] = op.added]_rewindVars
=============================================================================
