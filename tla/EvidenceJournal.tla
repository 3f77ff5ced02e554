---------------------------- MODULE EvidenceJournal ----------------------------
(***************************************************************************)
(* The durable evidence of one run directory: createEvidenceJournal and    *)
(* verifyEvidenceManifest of                                               *)
(* blueprints/babysitter-dv/src/evidence-manifest.js, and the guarded      *)
(* wrapper of afk-delivery-blueprint.js (append the intent, verify the     *)
(* manifest, act, append the result) that every side effect goes through.  *)
(*                                                                         *)
(* Every await of append is one step.  The process may crash between any   *)
(* two steps; what is on disk stays and what is in memory is gone.  Actors *)
(* are the tasks of the process that append at the same time.              *)
(***************************************************************************)
EXTENDS Integers, Sequences, SequencesExt, FiniteSets

CONSTANTS
  Actors,       \* tasks that act through the guarded wrapper
  Categories,   \* REQUIRED_EVIDENCE_CATEGORIES, a sequence
  Transitions,  \* GUARDED_TRANSITIONS that the actors use
  MaxActs,      \* bound on the guarded actions of an actor
  MaxFaults,    \* bound on failing file operations and effects
  MaxCrashes    \* bound on crashes of the process

Boot == "boot"             \* createEvidenceJournal itself appends, too
Bootstrap == "prepare-item"  \* the transition of all its records

ASSUME ActorsAssumption == Boot \notin Actors
ASSUME CategoriesAssumption == Categories \in Seq(STRING) /\ Categories # <<>>
ASSUME BoundsAssumption == {MaxActs, MaxFaults, MaxCrashes} \subseteq Nat

VARIABLES
  \* the run directory
  files,      \* artifacts/<sequence>-<category>.json
  lines,      \* journal.ndjson
  temporary,  \* .manifest.json.tmp
  manifest,   \* manifest.json
  \* the process
  process,    \* "down", "booting", "open", or "refused": paused before it began
  sequence,   \* the last sequence number given out
  artifacts,  \* the artifacts this journal object knows
  booted,     \* bootstrap categories appended
  pc, record, snapshot,  \* where each task is, its record, its manifest text
  acts,       \* guarded actions begun by each actor
  faults, crashes,
  \* observation
  effects,    \* <<actor, act>> whose side effect happened
  finished,   \* <<actor, act>> whose guarded call returned normally
  overlapped  \* two appends were once under way at the same time

disk == <<files, lines, temporary, manifest>>
memory == <<process, sequence, artifacts, booted>>
tasks == <<pc, record, snapshot, acts>>
seen == <<effects, finished>>
vars == <<disk, memory, tasks, faults, crashes, seen, overlapped>>

Tasks == Actors \union {Boot}
Absent == [present |-> FALSE, listed |-> {}]
Listing(s) == [present |-> TRUE, listed |-> s]

Kinds == {"run-initialized", "intent", "after"}
NoRecord == [sequence |-> 0, category |-> "none", transition |-> "none",
             kind |-> "none", by |-> Boot, act |-> 0]
Name(r) == <<r.sequence, r.category>>

-----------------------------------------------------------------------------
Set(f, t, v) == [f EXCEPT ![t] = v]
Goto(t, p) == pc' = Set(pc, t, p)
At(t, p) == pc[t] = p

Fault == faults < MaxFaults /\ faults' = faults + 1

\* append(event) for a record whose sequence number is still to be given.
Appends(t, category, transition, kind) ==
  /\ Goto(t, "write")
  /\ record' = Set(record, t,
       [NoRecord EXCEPT !.category = category, !.transition = transition,
                        !.kind = kind, !.by = t,
                        !.act = IF t = Boot THEN 0 ELSE acts'[t]])

\* append throws: to createEvidenceJournal, which rejects; to the guarded
\* wrapper, which has not acted yet, or whose effect is now uncertain.
IgnoredThrow(t) ==                                                \* mutant
  Goto(t, IF t = Boot THEN "idle" ELSE "verify") /\ UNCHANGED process
AppendThrows(t) ==
  /\ Goto(t, "idle")
  /\ process' = IF t = Boot THEN "refused" ELSE process

-----------------------------------------------------------------------------
(* The process *)

\* createEvidenceJournal in a run directory, also one that was used before.
Start ==
  /\ process = "down"
  /\ process' = "booting"
  /\ sequence' = 0 /\ artifacts' = {} /\ booted' = 0
  /\ Appends(Boot, Categories[1], Bootstrap, "run-initialized")
  /\ UNCHANGED <<disk, snapshot, acts, faults, crashes, seen>>

Crash ==
  /\ process \in {"booting", "open"} /\ crashes < MaxCrashes
  /\ crashes' = crashes + 1
  /\ process' = "down"
  /\ sequence' = 0 /\ artifacts' = {} /\ booted' = 0
  /\ pc' = [t \in Tasks |-> "idle"]
  /\ record' = [t \in Tasks |-> NoRecord]
  /\ snapshot' = [t \in Tasks |-> {}]
  /\ UNCHANGED <<disk, acts, faults, seen>>

-----------------------------------------------------------------------------
(* append *)

\* writeFile with flag "wx" fails when the artifact is already there.
Overwritable(r) == TRUE                                           \* mutant
Creatable(r) == \A f \in files : Name(f) # Name(r)

WriteArtifact(t) ==
  /\ At(t, "write")
  /\ sequence' = sequence + 1
  /\ LET r == [record[t] EXCEPT !.sequence = sequence + 1]
     IN  \/ /\ Creatable(r)
            /\ files' = {f \in files : Name(f) # Name(r)} \union {r}
            /\ record' = Set(record, t, r)
            /\ Goto(t, "line")
            /\ UNCHANGED <<process, faults>>
         \/ /\ Fault \/ (~Creatable(r) /\ UNCHANGED faults)
            /\ AppendThrows(t)
            /\ UNCHANGED <<files, record>>
  /\ UNCHANGED <<lines, temporary, manifest, artifacts, booted, snapshot, acts,
                 crashes, seen>>

Unlined(t) == lines' = lines                                      \* mutant
Lined(t) == lines' = Append(lines, record[t])

AppendLine(t) ==
  /\ At(t, "line")
  /\ \/ /\ Lined(t)
        /\ Goto(t, "list")
        /\ UNCHANGED <<process, faults>>
     \/ /\ Fault
        /\ AppendThrows(t)
        /\ UNCHANGED lines
  /\ UNCHANGED <<files, temporary, manifest, sequence, artifacts, booted, record,
                 snapshot, acts, crashes, seen>>

\* artifacts.push and JSON.stringify, then writeFile of the temporary file.
WithRecord(t) == artifacts \union {record[t]}

ListArtifact(t) ==
  /\ At(t, "list")
  /\ artifacts' = artifacts \union {record[t]}
  /\ snapshot' = Set(snapshot, t, WithRecord(t))
  /\ Goto(t, "temporary")
  /\ UNCHANGED <<disk, process, sequence, booted, record, acts, faults, crashes,
                 seen>>

WriteTemporary(t) ==
  /\ At(t, "temporary")
  /\ \/ /\ temporary' = Listing(snapshot[t])
        /\ Goto(t, "rename")
        /\ UNCHANGED <<process, faults>>
     \/ /\ Fault
        /\ AppendThrows(t)
        /\ UNCHANGED temporary
  /\ UNCHANGED <<files, lines, manifest, sequence, artifacts, booted, record,
                 snapshot, acts, crashes, seen>>

\* What the task does when append returns.
Returns(t) ==
  \/ /\ t = Boot
     /\ booted' = booted + 1
     /\ UNCHANGED finished
     /\ \/ /\ booted' < Len(Categories)
           /\ Appends(t, Categories[booted' + 1], Bootstrap, "run-initialized")
           /\ UNCHANGED process
        \/ /\ booted' = Len(Categories)
           /\ process' = "open"
           /\ Goto(t, "idle") /\ UNCHANGED record
  \/ /\ t # Boot /\ record[t].kind = "intent"
     /\ Goto(t, "verify")
     /\ UNCHANGED <<booted, process, finished, record>>
  \/ /\ t # Boot /\ record[t].kind = "after"
     /\ finished' = finished \union {<<t, acts[t]>>}
     /\ Goto(t, "idle")
     /\ UNCHANGED <<booted, process, record>>

\* The name of the temporary file is the same for every append: a rename takes
\* whatever is there, and fails when another one already took it.
Rename(t) ==
  /\ At(t, "rename")
  /\ \/ /\ temporary.present
        /\ manifest' = temporary /\ temporary' = Absent
        /\ Returns(t)
        /\ UNCHANGED faults
     \/ /\ Fault \/ (~temporary.present /\ UNCHANGED faults)
        /\ AppendThrows(t)
        /\ UNCHANGED <<manifest, temporary, booted, finished, record>>
  /\ UNCHANGED <<files, lines, sequence, artifacts, snapshot, acts, crashes,
                 effects>>

-----------------------------------------------------------------------------
(* guarded *)

Act(a, transition) ==
  /\ process = "open" /\ pc[a] = "idle" /\ acts[a] < MaxActs
  /\ acts' = Set(acts, a, acts[a] + 1)
  /\ Appends(a, "integration", transition, "intent")
  /\ UNCHANGED <<disk, memory, snapshot, faults, crashes, seen>>

\* verifyEvidenceManifest: every category, every listed artifact on disk, and
\* some record of the transition.
Verified(m, transition) ==
  /\ m.present
  /\ \A r \in m.listed : r \in files
  /\ \A k \in 1..Len(Categories) : \E r \in m.listed : r.category = Categories[k]
  /\ \E r \in m.listed : r.transition = transition

Verify(a) ==
  /\ At(a, "verify")
  /\ \/ Verified(manifest, record[a].transition) /\ Goto(a, "effect")
     \/ ~Verified(manifest, record[a].transition) /\ Goto(a, "idle")
  /\ UNCHANGED <<disk, memory, record, snapshot, acts, faults, crashes, seen>>

\* The port acts and its result is appended; or it throws, having acted or not,
\* and nothing more is written.
Effect(a) ==
  /\ At(a, "effect")
  /\ \/ /\ effects' = effects \union {<<a, acts[a]>>}
        /\ UNCHANGED acts
        /\ \/ /\ Appends(a, "integration", record[a].transition, "after")
              /\ UNCHANGED faults
           \/ Fault /\ Goto(a, "idle") /\ UNCHANGED record
     \/ /\ Fault /\ Goto(a, "idle")
        /\ UNCHANGED <<effects, acts, record>>
  /\ UNCHANGED <<disk, memory, snapshot, crashes, finished>>

-----------------------------------------------------------------------------
Init ==
  /\ files = {} /\ lines = <<>> /\ temporary = Absent /\ manifest = Absent
  /\ process = "down" /\ sequence = 0 /\ artifacts = {} /\ booted = 0
  /\ pc = [t \in Tasks |-> "idle"]
  /\ record = [t \in Tasks |-> NoRecord]
  /\ snapshot = [t \in Tasks |-> {}]
  /\ acts = [a \in Actors |-> 0]
  /\ faults = 0 /\ crashes = 0
  /\ effects = {} /\ finished = {} /\ overlapped = FALSE

AppendStep(t) == \/ WriteArtifact(t) \/ AppendLine(t) \/ ListArtifact(t)
                 \/ WriteTemporary(t) \/ Rename(t)
Guarded(a) == \/ \E transition \in Transitions : Act(a, transition)
              \/ Verify(a) \/ Effect(a)

Appending == {t \in Tasks : pc[t] \in {"write", "line", "list", "temporary",
                                      "rename"}}

Observed == overlapped' = (overlapped \/ Cardinality(Appending') > 1)

Next == /\ \/ Start \/ Crash
           \/ \E t \in Tasks : AppendStep(t)
           \/ \E a \in Actors : Guarded(a)
        /\ Observed

Spec == Init /\ [][Next]_vars

\* The process is started again after a crash and its file operations settle.
LiveSpec == Spec /\ WF_vars((Start \/ AppendStep(Boot)) /\ Observed)

-----------------------------------------------------------------------------
(* Properties *)

\* Every variable stays in its type, and no record is on disk twice under one
\* name.
TypeOK ==
  /\ \A f \in files \union artifacts \union manifest.listed :
       /\ f.kind \in Kinds /\ f.by \in Tasks /\ f.sequence \in Nat
       /\ f.transition \in Transitions \union {Bootstrap}
  /\ \A f, g \in files : Name(f) = Name(g) => f = g
  /\ \A k \in 1..Len(lines) : lines[k] \in files
  /\ temporary.present \in BOOLEAN /\ manifest.present \in BOOLEAN
  /\ process \in {"down", "booting", "open", "refused"}
  /\ sequence \in Nat /\ booted \in 0..Len(Categories)
  /\ pc \in [Tasks -> {"idle", "write", "line", "list", "temporary", "rename",
                      "verify", "effect"}]
  /\ acts \in [Actors -> 0..MaxActs]

Lines == {lines[k] : k \in 1..Len(lines)}
IntentIn(s, a, n) == \E r \in s : r.by = a /\ r.act = n /\ r.kind = "intent"
ResultIn(s, a, n) == \E r \in s : r.by = a /\ r.act = n /\ r.kind = "after"

\* Whatever fails or crashes, what the manifest (or the file about to replace
\* it) lists exists as an artifact and as a journal line (append, lines 78-84).
ManifestIsSound ==
  \A r \in manifest.listed \union temporary.listed :
    r \in files \intersect Lines

\* Every side effect that ever happened has its intent in the journal, however
\* many tasks append, fail or crash at once (guarded, lines 10-14).
EffectHasIntent ==
  \A e \in effects : IntentIn(Lines, e[1], e[2])

\* A side effect happens only while the manifest lists this very intent, not
\* just an older record of its transition (guarded, lines 10-11: "the guard
\* then verifies the action-specific manifest linkage"), unless appends
\* overlapped, whose renames may put an older listing into place.
EffectIsLinked ==
  [][\A e \in effects' \ effects :
       overlapped \/ IntentIn(manifest.listed, e[1], e[2])]_effects

\* A guarded call that returned left its intent and its result in the manifest,
\* also after a crash, unless appends overlapped (guarded, lines 12-23).
SuccessIsRecorded ==
  overlapped \/ \A e \in finished : /\ IntentIn(manifest.listed, e[1], e[2])
                                    /\ ResultIn(manifest.listed, e[1], e[2])

\* Nothing that was evidence is lost: artifacts and lines are append-only, and
\* unless appends overlapped the manifest only grows, across crashes and
\* restarts (lines 63, 78-84).
EvidenceSurvives ==
  [][/\ files \subseteq files'
     /\ IsPrefix(lines, lines')
     /\ overlapped \/ manifest.listed \subseteq manifest'.listed]_disk

\* Evidence that was once linked or recorded stays so.
EvidenceStands == []SuccessIsRecorded /\ EffectIsLinked /\ EvidenceSurvives

\* The operator documentation: "advance the durable run using babysitter
\* run:iterate <run-directory>", so a run that was interrupted opens again.
InterruptedRunOpens == process = "down" /\ crashes > 0 ~> process = "open"
=============================================================================
