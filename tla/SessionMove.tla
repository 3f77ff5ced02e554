----------------------------- MODULE SessionMove -----------------------------
(***************************************************************************)
(* session-move/index.ts: /session move gives a Pi session to another      *)
(* directory, /session split cuts it in two.  Both rewrite the session     *)
(* file and rebuild the memory that Honcho keeps of it, while late uploads *)
(* and other sessions of the same directory keep adding to that memory.    *)
(*                                                                         *)
(* A turn or a message is [text, at, late]: what it says, when it was made *)
(* and whether that was after the migration began.  A memory is the        *)
(* sequence of messages that Honcho has under one key.  The                *)
(* two directories have different keys (the command refuses equal ones),   *)
(* no other Pi process has the moved session open, and a second split      *)
(* while the tail's name is taken is left out.                             *)
(***************************************************************************)
EXTENDS Filtering, Naturals, Sequences, SequencesExt, Functions, FiniteSets

CONSTANTS
  Sessions,      \* [file, from, to]: a session and the memories to begin with
  Commands,      \* what the user may ask for
  Working,       \* the turns that the running agent has still to finish
  Chunks,        \* the messages that a text is uploaded as: none, one, or pieces
  Visitors,      \* messages of other sessions of the two directories
  BatchSize,     \* messages that one call uploads
  MaxCommands, MaxFaults

Turns == [text : DOMAIN Chunks, at : Nat, late : {FALSE}]
Messages == [text : STRING, at : Nat, late : BOOLEAN]
ASSUME MoveAssumption ==
  /\ BatchSize \in Nat \ {0} /\ MaxCommands \in Nat /\ MaxFaults \in Nat
  /\ Chunks \in [DOMAIN Chunks -> Seq(STRING)]
  /\ Working \in Seq(Turns) /\ Visitors \subseteq Messages
  /\ Commands \subseteq [kind : {"move", "split"}, current : BOOLEAN, merge : BOOLEAN, cut : Nat]
  /\ \A s \in Sessions : /\ s.file \in [cwd : {"from"}, turns : Seq(Turns), aside : SUBSET Turns]
                         /\ s.from \in [exists : BOOLEAN, said : Seq(Messages)]
                         /\ s.to \in [exists : BOOLEAN, said : Seq(Messages)]

VARIABLES
  files,         \* the Pi files: the session, its new place, the split's tail
  memory,        \* Honcho's sessions by key
  op,            \* the command in progress
  manifest,      \* the status in the migration's manifest
  backups,       \* [pi, honcho]: all that was copied to migration directories
  agent,         \* [working, lag]: turns to finish, finished turns to upload
  visitors, commands, faults,
  ever,          \* history: [turns, uploads], everything there ever was
  gone           \* history: uploads that a delete took unread
moveVars == <<files, memory, op, manifest, backups, agent, visitors, commands, faults, ever, gone>>

NoFile == [cwd |-> "none", turns |-> <<>>, aside |-> {}]
NoMemory == [exists |-> FALSE, said |-> <<>>]
Memory(s) == [exists |-> TRUE, said |-> s]
Texts(s) == {s[i].text : i \in DOMAIN s}
Elements(f) == ToSet(f.turns) \union f.aside

Idle == [pc |-> "idle", cmd |-> [kind |-> "none"], lines |-> NoFile, msgs |-> <<>>, expected |-> <<>>,
         raw |-> <<>>, read |-> <<>>, head |-> <<>>, saved |-> FALSE, merge |-> FALSE, clean |-> FALSE]

MoveInit ==
  \E s \in Sessions :
    /\ files = [source |-> s.file, dest |-> NoFile, tail |-> NoFile]
    /\ memory = [from |-> s.from, to |-> s.to, tail |-> NoMemory]
    /\ op = Idle /\ manifest = "none" /\ backups = [pi |-> {}, honcho |-> {}]
    /\ agent = [working |-> Working, lag |-> {}] /\ visitors = Visitors
    /\ commands = 0 /\ faults = 0 /\ gone = {}
    /\ ever = [turns |-> Elements(s.file), uploads |-> ToSet(s.from.said) \union ToSet(s.to.said)]

-----------------------------------------------------------------------------
(* Pure parts *)

\* parseSessionSubcommand: a move takes no turn, a split may leave it to the picker.
Parsed == {c \in Commands : c.kind = "move" => c.cut = 0}
\* buildTurnList, resolveTurnRef: a split may be at any turn but the first.
Eligible(turns) == 2..Len(turns)
Cuts(c, turns) == IF c.cut = 0 THEN Eligible(turns) ELSE {c.cut} \intersect Eligible(turns)

\* buildWholeSessionRebuildMessages, chunkTextSmart.
RebuildMessages(turns) ==
  FlattenSeq([i \in DOMAIN turns |->
    [j \in DOMAIN Chunks[turns[i].text] |-> [turns[i] EXCEPT !.text = Chunks[turns[i].text][j]]]])

\* alignMigratedPayloadToSource: each message takes the first unused upload that says
\* the same, so the nth of a text the nth, with its time; one without keeps its own.
Nth(s, i) == Cardinality({j \in 1..i : s[j].text = s[i].text})
Align(msgs, source) ==
  LET Taken(i) == {j \in DOMAIN source : source[j].text = msgs[i].text /\ Nth(source, j) = Nth(msgs, i)}
  IN [out |-> [i \in DOMAIN msgs |-> IF Taken(i) = {} THEN msgs[i] ELSE source[CHOOSE j \in Taken(i) : TRUE]],
      used |-> UNION {Taken(i) : i \in DOMAIN msgs}]

\* What of a memory is not of this session: where it is, and the messages.
Unmatched(source, msgs) ==
  Filtered([i \in DOMAIN source |-> i], DOMAIN source \ Align(msgs, source).used)
Residual(source, msgs) ==
  LET rest == Unmatched(source, msgs) IN [i \in DOMAIN rest |-> source[rest[i]]]

\* validateNormalizedTargetContent: the same turns in the same order, none twice.
Matches(expected, actual) == expected = actual /\ IsInjective(actual)

\* migratedDuplicateCountInTarget.
Duplicated(msgs, target) ==
  \E t \in Texts(msgs) : Cardinality({i \in DOMAIN target : target[i].text = t}) > 1
Missing(msgs, target) == Filtered(msgs, {m \in ToSet(msgs) : m.text \notin Texts(target)})

\* validateHonchoSourceBeforeDelete, validateHonchoSessionsBeforeSourceDelete.
SafeToDelete(expected, source, target) ==
  /\ Matches(expected, target)
  /\ \A m \in ToSet(source) : m.late => m \in ToSet(target) \/ m.text \in Texts(target)

\* planSplitHonchoRebuild: the head keeps what is not the tail's, in source order,
\* its own as the last message of that text, and gets what was never uploaded.
PlanHead(source, headMsgs, tailMsgs) ==
  LET head == Align(headMsgs, source)
      rest == Unmatched(source, tailMsgs)
      Latest(t) == head.out[Max({i \in DOMAIN head.out : head.out[i].text = t})]
      kept == [i \in DOMAIN rest |->
                 IF rest[i] \in head.used THEN Latest(source[rest[i]].text) ELSE source[rest[i]]]
  IN kept \o Missing(head.out, kept)

\* splitEntriesAtTurn, of the active path.
HeadOf(turns, cut) == SubSeq(turns, 1, cut - 1)
TailOf(turns, cut) == SubSeq(turns, cut, Len(turns))

-----------------------------------------------------------------------------
(* The session's own life, and other sessions *)

Started == op.pc \notin {"idle", "plan", "gate", "approve", "backup"}

\* The agent ends a turn: appended to the file, to be uploaded after agent_end.
FinishTurn ==
  /\ agent.working # <<>> /\ files.source # NoFile
  /\ op.pc = "idle" \/ (op.pc \in {"plan", "gate"} /\ op.cmd.current)
  /\ LET t == Head(agent.working)
     IN /\ files' = [files EXCEPT !.source.turns = Append(@, t)]
        /\ agent' = [working |-> Tail(agent.working), lag |-> agent.lag \union {t}]
        /\ ever' = [ever EXCEPT !.turns = @ \union {t}]
  /\ UNCHANGED <<memory, op, manifest, backups, visitors, commands, faults, gone>>

Receive(key, ms) ==
  /\ memory' = [memory EXCEPT ![key] = Memory(@.said \o ms)]
  /\ ever' = [ever EXCEPT !.uploads = @ \union ToSet(ms)]

\* The upload after agent_end; it may take longer than the quiescence window.
Upload ==
  /\ \E t \in agent.lag :
       /\ Receive("from", RebuildMessages(<<[t EXCEPT !.late = Started]>>))
       /\ agent' = [agent EXCEPT !.lag = @ \ {t}]
  /\ UNCHANGED <<files, op, manifest, backups, visitors, commands, faults, gone>>

\* Another session of the old or the new directory.
Visit ==
  /\ \E v \in visitors, key \in {"from", "to"} :
       /\ Receive(key, <<[v EXCEPT !.late = Started]>>)
       /\ visitors' = visitors \ {v}
  /\ UNCHANGED <<files, op, manifest, backups, agent, commands, faults, gone>>

-----------------------------------------------------------------------------
(* Steps of a command *)

At(kind, pc) == op.pc = pc /\ op.cmd.kind = kind
Go(pc) == op' = [op EXCEPT !.pc = pc]
Quiet == UNCHANGED <<agent, visitors, commands, faults, ever>>
Only(v) == Quiet /\ UNCHANGED v

\* resolveSessionFileForMove, readHeader, getBranch.
Read ==
  /\ op.pc = "idle" /\ commands < MaxCommands /\ files.source # NoFile
  /\ \E c \in Parsed :
       /\ c.current \/ agent.working = <<>>
       /\ \/ /\ c.kind = "move" /\ files.dest = NoFile
             /\ op' = [Idle EXCEPT !.pc = "gate", !.cmd = c, !.lines = files.source, !.merge = c.merge,
                                   !.msgs = RebuildMessages(files.source.turns)]
          \/ /\ c.kind = "split"
             /\ \E n \in Cuts(c, files.source.turns) :
                  op' = [Idle EXCEPT !.pc = "plan", !.cmd = [c EXCEPT !.cut = n], !.lines = files.source]
  /\ commands' = commands + 1
  /\ UNCHANGED <<files, memory, manifest, backups, agent, visitors, faults, ever, gone>>

Tailing == TailOf(op.lines.turns, op.cmd.cut)
Heading == HeadOf(op.lines.turns, op.cmd.cut)
\* The plan of a split is made of the memory as it is before the safety gate; a dry run
\* reports it, and one asked for where no session can be switched is sent as a new command.
Plan ==
  /\ At("split", "plan")
  /\ \/ Go("idle")
     \/ /\ memory.from.exists /\ ~memory.tail.exists /\ files.tail = NoFile
        /\ op' = [op EXCEPT !.pc = "gate", !.read = memory.from.said,
                            !.head = PlanHead(memory.from.said, RebuildMessages(Heading), RebuildMessages(Tailing)),
                            !.expected = Align(RebuildMessages(Tailing), memory.from.said).out]
  /\ Only(<<files, memory, manifest, backups, gone>>)

\* runSessionMutationSafetyGate: wait for this process to be idle; pending
\* messages, before the quiescence window or after it, refuse the command.
SafetyGate ==
  /\ op.pc = "gate" /\ (op.cmd.current => agent.working = <<>>)
  /\ Go("approve") \/ Go("idle")
  /\ Only(<<files, memory, manifest, backups, gone>>)

\* A dry run of a move ends here.  Else it takes a memory to move or a merge that was asked
\* for, the approvals to create or to merge, and the confirmation.
ApproveMove ==
  /\ At("move", "approve")
  /\ \/ Go("idle")
     \/ /\ memory.from.exists \/ (memory.to.exists /\ op.merge)
        /\ op' = [op EXCEPT !.pc = "backup", !.merge = @ \/ memory.to.exists]
  /\ Only(<<files, memory, manifest, backups, gone>>)
ApproveSplit ==
  /\ At("split", "approve")
  /\ Go("idle") \/ Go("backup")
  /\ Only(<<files, memory, manifest, backups, gone>>)

Copied(f) == {f}
\* createMoveManifest, createSplitManifest: the manifest, then a copy of the file.
Backup ==
  /\ op.pc = "backup"
  /\ manifest' = "pi_backed_up"
  /\ backups' = [backups EXCEPT !.pi = @ \union Copied(files.source)]
  /\ Go(IF op.cmd.kind = "move" THEN "align" ELSE "addTail")
  /\ Only(<<files, memory, gone>>)

\* addHonchoMessages to a session, made if there is none: all, or the batches
\* before the one that fails.
Adds(key, msgs) == memory' = [memory EXCEPT ![key] = Memory(@.said \o msgs)]
Batches(s) == {SubSeq(s, 1, n) : n \in {k \in 0..(Len(s) - 1) : k % BatchSize = 0}}

(* /session move *)

AlignPayload ==
  /\ At("move", "align")
  /\ op' = [op EXCEPT !.pc = "target", !.msgs = Align(op.msgs, memory.from.said).out]
  /\ Only(<<files, memory, manifest, backups, gone>>)

Failed == /\ manifest' = "failed"
          /\ Go("idle")

\* writeHonchoTargetFromTranscript, up to the upload.
ReadTarget ==
  /\ At("move", "target")
  /\ IF (memory.to.exists => op.merge) /\ ~Duplicated(op.msgs, memory.to.said)
     THEN /\ op' = [op EXCEPT !.pc = "add", !.raw = Missing(op.msgs, memory.to.said),
                              !.expected = memory.to.said \o Missing(op.msgs, memory.to.said)]
          /\ UNCHANGED manifest
     ELSE Failed
  /\ Only(<<files, memory, backups, gone>>)

AddToTarget ==
  /\ At("move", "add")
  /\ Adds("to", op.raw) /\ Go("verify")
  /\ Only(<<files, manifest, backups, gone>>)

BeforeTheFile == "cleanup"                                            \* mutant
AfterTarget == "rewrite"
VerifyTarget ==
  /\ At("move", "verify")
  /\ IF Matches(op.expected, memory.to.said)
     THEN manifest' = "honcho_target_written" /\ Go(AfterTarget)
     ELSE Failed
  /\ Only(<<files, memory, backups, gone>>)

\* The file as it was read, with the new directory in its header; then its move.
Rewrite ==
  /\ At("move", "rewrite")
  /\ files' = [files EXCEPT !.source = [op.lines EXCEPT !.cwd = "to"]]
  /\ Go("rename")
  /\ Only(<<memory, manifest, backups, gone>>)

Rename ==
  /\ At("move", "rename")
  /\ files' = [files EXCEPT !.source = NoFile, !.dest = files.source]
  /\ manifest' = IF op.cmd.current THEN "pi_written_pending_source_cleanup" ELSE "pi_written"
  /\ Go(IF op.cmd.current THEN "switch" ELSE "cleanup")
  /\ Only(<<memory, backups, gone>>)

\* Cancelled or failing, the switch leaves the cleanup pending and Pi shuts down.
Switch ==
  /\ At("move", "switch")
  /\ Go("cleanup") \/ Go("idle")
  /\ Only(<<files, memory, manifest, backups, gone>>)

CleanupPending == /\ manifest' = "pi_written_pending_source_cleanup"
                  /\ Go("idle")

\* cleanupHonchoSource validates; finalizeHonchoSourceAfterTargetValidated reads
\* the source, validates again, copies what it read and deletes.
Validate ==
  /\ At("move", "cleanup")
  /\ IF SafeToDelete(op.expected, memory.from.said, memory.to.said)
     THEN manifest' = "honcho_predelete_validated" /\ Go("final")
     ELSE CleanupPending
  /\ Only(<<files, memory, backups, gone>>)

ReadSource ==
  /\ At("move", "final")
  /\ op' = [op EXCEPT !.pc = "revalidate", !.raw = memory.from.said, !.saved = memory.from.exists]
  /\ Only(<<files, memory, manifest, backups, gone>>)

Unsaved(source) == {}                                                 \* mutant
Exported(source) == ToSet(source)
Revalidate ==
  /\ At("move", "revalidate")
  /\ \/ /\ op.saved /\ SafeToDelete(op.expected, memory.from.said, memory.to.said)
        /\ backups' = [backups EXCEPT !.honcho = @ \union Exported(op.raw)]
        /\ Go("delete") /\ UNCHANGED manifest
     \/ /\ op.saved /\ ~SafeToDelete(op.expected, memory.from.said, memory.to.said)
        /\ CleanupPending /\ UNCHANGED backups
     \* Without a source the result of the second validation is not looked at.
     \/ /\ ~op.saved
        /\ manifest' = "complete" /\ Go("idle") /\ UNCHANGED backups
  /\ Only(<<files, memory, gone>>)

Deletes(key) ==
  /\ memory' = [memory EXCEPT ![key] = NoMemory]
  /\ gone' = gone \union (ToSet(memory[key].said) \ ToSet(op.raw))

DeleteSource ==
  /\ At("move", "delete")
  /\ Deletes("from")
  /\ IF Residual(op.raw, op.msgs) = <<>>
     THEN manifest' = "complete" /\ Go("idle")
     ELSE Go("residual") /\ UNCHANGED manifest
  /\ Only(<<files, backups>>)

AddResidual ==
  /\ At("move", "residual")
  /\ Adds("from", Residual(op.raw, op.msgs)) /\ Go("recheck")
  /\ Only(<<files, manifest, backups, gone>>)

Recheck ==
  /\ At("move", "recheck")
  /\ IF Matches(Residual(op.raw, op.msgs), memory.from.said)
     THEN manifest' = "complete" /\ Go("idle")
     ELSE CleanupPending
  /\ Only(<<files, memory, backups, gone>>)

(* /session split *)

Restore == op' = [op EXCEPT !.pc = "restoreFile", !.clean = TRUE]

AddTail ==
  /\ At("split", "addTail")
  /\ Adds("tail", op.expected) /\ Go("checkTail")
  /\ Only(<<files, manifest, backups, gone>>)

CheckTail ==
  /\ At("split", "checkTail")
  /\ IF Matches(op.expected, memory.tail.said)
     THEN manifest' = "honcho_tail_written" /\ Go("readHead")
     ELSE Restore /\ UNCHANGED manifest
  /\ Only(<<files, memory, backups, gone>>)

\* replaceHonchoSessionMessages: copy, delete, make again and compare.
ReadHead ==
  /\ At("split", "readHead")
  /\ backups' = [backups EXCEPT !.honcho = @ \union ToSet(memory.from.said)]
  /\ op' = [op EXCEPT !.pc = "deleteHead", !.raw = memory.from.said, !.saved = TRUE]
  /\ Only(<<files, memory, manifest, gone>>)

DeleteHead ==
  /\ At("split", "deleteHead")
  /\ Deletes("from") /\ Go("addHead")
  /\ Only(<<files, manifest, backups>>)

AddHead ==
  /\ At("split", "addHead")
  /\ Adds("from", op.head) /\ Go("checkHead")
  /\ Only(<<files, manifest, backups, gone>>)

CheckHead ==
  /\ At("split", "checkHead")
  /\ IF Matches(op.head, memory.from.said)
     THEN manifest' = "honcho_head_written" /\ Go("writeHead")
     ELSE Restore /\ UNCHANGED manifest
  /\ Only(<<files, memory, backups, gone>>)

\* Only the active path is written: what is on other branches stays in the copy.
WriteHead ==
  /\ At("split", "writeHead")
  /\ files' = [files EXCEPT !.source = [cwd |-> op.lines.cwd, turns |-> Heading, aside |-> {}]]
  /\ Go("writeTail")
  /\ Only(<<memory, manifest, backups, gone>>)

WriteTail ==
  /\ At("split", "writeTail")
  /\ files' = [files EXCEPT !.tail = [cwd |-> op.lines.cwd, turns |-> Tailing, aside |-> {}]]
  /\ manifest' = "pi_written" /\ Go("switch")
  /\ Only(<<memory, backups, gone>>)

SwitchPart ==
  /\ At("split", "switch")
  /\ \/ manifest' = "complete" /\ Go("idle")
     \/ op.cmd.current /\ Restore /\ UNCHANGED manifest
  /\ Only(<<files, memory, backups, gone>>)

\* restoreMonosession: files, the tail's memory, and the head's from the copy if
\* there is one; every part is tried once, and its error is swallowed.
RestoreFile ==
  /\ op.pc = "restoreFile"
  /\ files' = [files EXCEPT !.source = op.lines]
  /\ Go("unlinkTail")
  /\ Only(<<memory, manifest, backups, gone>>)

UnlinkTail ==
  /\ op.pc = "unlinkTail"
  /\ files' = [files EXCEPT !.tail = NoFile]
  /\ Go("restoreTail")
  /\ Only(<<memory, manifest, backups, gone>>)

RolledBack == /\ manifest' = "failed_rolled_back"
              /\ Go("idle")
RestoreTail ==
  /\ op.pc = "restoreTail"
  /\ memory' = [memory EXCEPT !.tail = NoMemory]
  /\ IF op.saved THEN Go("restoreHead") /\ UNCHANGED manifest ELSE RolledBack
  /\ Only(<<files, backups, gone>>)

RestoreHead ==
  /\ op.pc = "restoreHead"
  /\ Deletes("from") /\ Go("refillHead")
  /\ Only(<<files, manifest, backups>>)

TheCopy == op.raw
RefillHead ==
  /\ op.pc = "refillHead"
  /\ Adds("from", TheCopy) /\ RolledBack
  /\ Only(<<files, backups, gone>>)

-----------------------------------------------------------------------------
(* Faults *)

MoveTry == {"align", "target", "add", "verify", "rewrite", "rename"}
CleanupTry == {"cleanup", "final", "revalidate", "delete", "residual", "recheck"}
SplitTry == {"addTail", "checkTail", "readHead", "deleteHead", "addHead", "checkHead",
             "writeHead", "writeTail"}
Restoring == {"restoreFile", "unlinkTail", "restoreTail", "restoreHead", "refillHead"}

\* What an upload that fails has done.
PartOf ==
  \/ op.pc = "add" /\ \E p \in Batches(op.raw) : Adds("to", p)
  \/ op.pc = "residual" /\ \E p \in Batches(Residual(op.raw, op.msgs)) : Adds("from", p)
  \/ op.pc = "addTail" /\ \E p \in Batches(op.expected) : Adds("tail", p)
  \/ op.pc = "addHead" /\ \E p \in Batches(op.head) : Adds("from", p)
  \/ op.pc = "refillHead" /\ \E p \in Batches(op.raw) : Adds("from", p)
  \/ UNCHANGED memory

\* A call of Honcho or of the file system throws, and the handler of its region.
CallFails ==
  /\ faults < MaxFaults /\ faults' = faults + 1
  /\ PartOf
  /\ \/ op.pc \in MoveTry /\ op.cmd.kind = "move" /\ Failed
     \/ op.pc \in CleanupTry /\ op.cmd.kind = "move" /\ CleanupPending
     \/ op.pc \in SplitTry /\ op.cmd.kind = "split" /\ Restore /\ UNCHANGED manifest
     \/ /\ op.pc \in Restoring
        /\ op' = [op EXCEPT !.clean = FALSE,
                            !.pc = CASE @ = "restoreFile" -> "unlinkTail"
                                     [] @ = "unlinkTail" -> "restoreTail"
                                     [] OTHER -> "idle"]
        /\ manifest' = IF op'.pc = "idle" THEN "failed_rolled_back" ELSE manifest
     \/ op.pc = "backup" /\ Go("idle") /\ manifest' = "planned"
  /\ UNCHANGED <<files, backups, agent, visitors, commands, ever, gone>>

\* Pi is killed; a file it was writing may be left cut short.
Cut(f) == {[f EXCEPT !.turns = SubSeq(@, 1, n)] : n \in 0..Len(f.turns)}
Crash ==
  /\ faults < MaxFaults /\ faults' = faults + 1
  /\ op.pc \in MoveTry \union CleanupTry \union SplitTry \union Restoring
  /\ \/ op.pc \in {"rewrite", "writeHead", "restoreFile"}
        /\ \E f \in Cut(op.lines) : files' = [files EXCEPT !.source = f]
     \/ UNCHANGED files
  /\ PartOf
  /\ Go("idle")
  /\ UNCHANGED <<manifest, backups, agent, visitors, commands, ever, gone>>

Command ==
  \/ Read \/ Plan \/ SafetyGate \/ ApproveMove \/ ApproveSplit \/ Backup
  \/ AlignPayload \/ ReadTarget \/ AddToTarget \/ VerifyTarget \/ Rewrite \/ Rename \/ Switch
  \/ Validate \/ ReadSource \/ Revalidate \/ DeleteSource \/ AddResidual \/ Recheck
  \/ AddTail \/ CheckTail \/ ReadHead \/ DeleteHead \/ AddHead \/ CheckHead
  \/ WriteHead \/ WriteTail \/ SwitchPart
  \/ RestoreFile \/ UnlinkTail \/ RestoreTail \/ RestoreHead \/ RefillHead

MoveNext == Command \/ FinishTurn \/ Upload \/ Visit \/ CallFails \/ Crash

-----------------------------------------------------------------------------
(* Properties *)

Remembered == (UNION {ToSet(memory[k].said) : k \in DOMAIN memory}) \union backups.honcho
\* No memory is lost, whatever fails or crashes and whoever uploads: everything ever
\* uploaded is said in some memory or in a copy on disk, but for what arrived after
\* the read that a delete relies on (finalizeHonchoSourceAfterTargetValidated,
\* replaceHonchoSessionMessages).
MemorySurvives ==
  \A m \in ever.uploads \ gone : m.text \in {r.text : r \in Remembered}

\* Every turn ever written to the session is in one of its files or in a copy of
\* it, also when Pi dies while a file is written in place (createMoveManifest).
TranscriptSurvives ==
  ever.turns \subseteq UNION {Elements(f) : f \in Range(files) \union backups.pi}

\* A move touches the memory of the old directory only when the file is in its new
\* place and all of it is remembered there: "This avoids losing source Honcho if
\* Pi move fails" (DESIGN-honcho-rebuild-engine.md, executeMoveCommand).
SourceFollowsTheFile ==
  [][op.cmd.kind = "move" /\ memory.from.exists /\ ~memory'.from.exists =>
       /\ files.source = NoFile /\ files.dest.turns = op.lines.turns
       /\ Texts(RebuildMessages(op.lines.turns)) \subseteq Texts(memory.to.said)]_moveVars

\* "complete" means what it says.  After a move the file is in its new place and the
\* new memory has all of it; after a split the files have each their part of the
\* turns, and the memories what is in the files.
Completes == manifest # "complete" /\ manifest' = "complete"
MovedWhole == /\ files.source = NoFile /\ files.dest = [op.lines EXCEPT !.cwd = "to"]
              /\ Texts(op.msgs) \subseteq Texts(memory.to.said)
SplitWhole == /\ files.source.turns \o files.tail.turns = op.lines.turns
              /\ Texts(RebuildMessages(files.source.turns)) \subseteq Texts(memory.from.said)
              /\ Texts(RebuildMessages(files.tail.turns)) \subseteq Texts(memory.tail.said)
CompleteIsWhole ==
  [][Completes => IF op.cmd.kind = "move" THEN MovedWhole' ELSE SplitWhole']_moveVars

\* And the old memory, or the head's, no longer has what was read as the moved part's own.
NoneIsLeft == \A m \in ToSet(memory.from.said) : m \in ToSet(op.raw) => m \notin ToSet(op.msgs)
NoTailIsLeft == \A m \in ToSet(op.read) :
                  m \in ToSet(memory.from.said) /\ m.text \notin Texts(RebuildMessages(Heading)) =>
                    m \notin ToSet(op.expected)
CompleteIsApart ==
  [][Completes => IF op.cmd.kind = "move" THEN NoneIsLeft' ELSE NoTailIsLeft']_moveVars

\* The old memory is never ahead of the file, and a manifest says no more than was done
\* (executeMoveCommand, executeSplitCommand).
MoveIsHonest == SourceFollowsTheFile /\ CompleteIsWhole /\ CompleteIsApart

\* A rollback in which nothing failed gives back the file, and the memory all that
\* it had when the split was planned; nothing of the tail stays (restoreMonosession).
RollbackRestores ==
  op.pc = "idle" /\ manifest = "failed_rolled_back" /\ op.clean =>
    /\ files.tail = NoFile /\ Elements(op.lines) \subseteq Elements(files.source)
    /\ ~memory.tail.exists /\ Texts(op.read) \subseteq Texts(memory.from.said)
=============================================================================
