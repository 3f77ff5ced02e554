------------------------ MODULE EvidenceJournalProofs ------------------------
(***************************************************************************)
(* What the evidence of a run directory is worth, for any number of tasks  *)
(* that append at once, any failures and any crashes: listed records       *)
(* exist, and effects have intents.                                        *)
(*                                                                         *)
(* Neither is inductive alone: a listing is copied from the memory of the  *)
(* journal object to a task's text, the temporary file and the manifest,   *)
(* so the invariant follows a record along that way, and follows each task *)
(* with the record that it works on.                                       *)
(***************************************************************************)
EXTENDS EvidenceJournal, FiniteSetTheorems, SequenceTheorems, TLAPS

Places == {"idle", "write", "line", "list", "temporary", "rename", "verify",
           "effect"}
Used == {"integration"} \union {Categories[n] : n \in 1..Len(Categories)}
Records == [sequence : Nat, category : Used, transition : Transitions \union {Bootstrap},
            kind : Kinds, by : Tasks, act : Nat]
Listings == [present : BOOLEAN, listed : SUBSET Records]

DiskTyped ==
  /\ files \subseteq Records /\ lines \in Seq(Records)
  /\ temporary \in Listings /\ manifest \in Listings
MemoryTyped ==
  /\ process \in {"down", "booting", "open", "refused"}
  /\ sequence \in Nat /\ artifacts \subseteq Records
  /\ booted \in 0..Len(Categories)
TasksTyped ==
  /\ pc \in [Tasks -> Places]
  /\ record \in [Tasks -> Records \union {NoRecord}]
  /\ snapshot \in [Tasks -> SUBSET Records]
  /\ acts \in [Actors -> 0..MaxActs]

\* What the disk holds under two names at once, and what may be listed.
Kept == files \intersect Lines
DiskSound ==
  /\ \A f, g \in files : Name(f) = Name(g) => f = g
  /\ Lines \subseteq files
  /\ manifest.listed \union temporary.listed \union artifacts \subseteq Kept
  /\ \A t \in Tasks : snapshot[t] \subseteq Kept

\* A task that is not idle works on a record of its own, which reaches the
\* artifacts first and the journal second.
OwnRecord(t) ==
  /\ record[t] \in Records /\ record[t].by = t
  /\ t = Boot => record[t].kind = "run-initialized" /\ booted < Len(Categories)
  /\ t # Boot => record[t].kind \in {"intent", "after"} /\ record[t].act = acts[t]
TaskSound(t) ==
  /\ pc[t] # "idle" => OwnRecord(t)
  /\ pc[t] \notin {"idle", "write"} => record[t] \in files
  /\ pc[t] \notin {"idle", "write", "line"} => record[t] \in Lines
  /\ pc[t] \in {"verify", "effect"} => t # Boot /\ record[t].kind = "intent"

EffectsSound ==
  \A e \in effects : e \in Actors \X Nat /\ IntentIn(Lines, e[1], e[2])

JournalInv == /\ DiskTyped /\ MemoryTyped /\ TasksTyped
              /\ DiskSound /\ (\A t \in Tasks : TaskSound(t)) /\ EffectsSound

-----------------------------------------------------------------------------
USE DEF Tasks, Set

LEMMA InitJournal == Init => JournalInv
<1> SUFFICES ASSUME Init PROVE JournalInv
  OBVIOUS
<1>1. DiskTyped /\ MemoryTyped /\ TasksTyped
  BY BoundsAssumption, CategoriesAssumption
     DEF Init, DiskTyped, MemoryTyped, TasksTyped, Listings, Absent, Places
<1>2. DiskSound
  BY DEF Init, DiskSound, Absent, Lines
<1>3. (\A t \in Tasks : TaskSound(t)) /\ EffectsSound
  BY DEF Init, TaskSound, EffectsSound
<1> QED
  BY <1>1, <1>2, <1>3 DEF JournalInv

\* A task begins to append a record of its own.
Begins(t, kind) ==
  /\ pc' = [pc EXCEPT ![t] = "write"]
  /\ record' = [record EXCEPT ![t] = record'[t]]
  /\ record'[t] \in Records
  /\ record'[t].by = t /\ record'[t].kind = kind
  /\ t # Boot => record'[t].act = acts'[t]

LEMMA AppendsRecord ==
  ASSUME NEW t \in Tasks, NEW category \in Used,
         NEW transition \in Transitions \union {Bootstrap},
         NEW kind \in Kinds, TasksTyped,
         acts' \in [Actors -> 0..MaxActs],
         Appends(t, category, transition, kind)
  PROVE  Begins(t, kind)
<1> DEFINE n == IF t = Boot THEN 0 ELSE acts'[t]
           r == [NoRecord EXCEPT !.category = category, !.transition = transition,
                                 !.kind = kind, !.by = t, !.act = n]
<1>1. n \in Nat
  BY BoundsAssumption
<1>2. r \in Records /\ r.by = t /\ r.kind = kind /\ r.act = n
  BY <1>1 DEF NoRecord, Records
<1>3. record' = [record EXCEPT ![t] = r] /\ pc' = [pc EXCEPT ![t] = "write"]
  BY DEF Appends, Goto
<1>4. record'[t] = r
  BY <1>3 DEF TasksTyped
<1> QED
  BY <1>2, <1>3, <1>4 DEF Begins

LEMMA VerifyStep ==
  ASSUME JournalInv, NEW a \in Actors, Verify(a)
  PROVE  JournalInv'
<1> USE DEF JournalInv, Verify, At, Goto
<1>1. DiskTyped' /\ MemoryTyped' /\ TasksTyped'
  BY DEF DiskTyped, MemoryTyped, TasksTyped, disk, memory, Places
<1>2. DiskSound'
  BY DEF DiskSound, disk, memory, Kept, Lines
<1>3. ASSUME NEW u \in Tasks PROVE TaskSound(u)'
  BY ActorsAssumption DEF TaskSound, OwnRecord, TasksTyped, disk, memory, Lines
<1>4. EffectsSound'
  BY DEF EffectsSound, disk, seen, Lines
<1> QED
  BY <1>1, <1>2, <1>3, <1>4

LEMMA CrashStep ==
  ASSUME JournalInv, Crash
  PROVE  JournalInv'
<1> USE DEF JournalInv, Crash
<1>1. DiskTyped' /\ MemoryTyped' /\ TasksTyped'
  BY DEF DiskTyped, MemoryTyped, TasksTyped, disk, Places
<1>2. DiskSound'
  BY DEF DiskSound, disk, Kept, Lines
<1>3. ASSUME NEW u \in Tasks PROVE TaskSound(u)'
  BY DEF TaskSound
<1>4. EffectsSound'
  BY DEF EffectsSound, disk, seen, Lines
<1> QED
  BY <1>1, <1>2, <1>3, <1>4

LEMMA StartStep ==
  ASSUME JournalInv, Start
  PROVE  JournalInv'
<1> USE DEF JournalInv, Start
<1>1. Begins(Boot, "run-initialized")
  <2>1. Categories[1] \in Used
    BY CategoriesAssumption DEF Used
  <2>2. acts' \in [Actors -> 0..MaxActs]
    BY DEF TasksTyped
  <2>3. "run-initialized" \in Kinds /\ Bootstrap \in Transitions \union {Bootstrap}
    BY DEF Kinds
  <2>4. Appends(Boot, Categories[1], Bootstrap, "run-initialized")
    OBVIOUS
  <2> HIDE DEF JournalInv, Start
  <2>5. TasksTyped /\ Boot \in Tasks
    BY DEF JournalInv
  <2> QED
    BY <2>1, <2>2, <2>3, <2>4, <2>5, AppendsRecord
<1>2. 0 < Len(Categories)
  BY CategoriesAssumption
<1>3. DiskTyped' /\ MemoryTyped' /\ TasksTyped'
  BY <1>1, <1>2 DEF Begins, DiskTyped, MemoryTyped, TasksTyped, disk, Places
<1>4. DiskSound'
  BY DEF DiskSound, disk, Kept, Lines
<1>5. ASSUME NEW u \in Tasks PROVE TaskSound(u)'
  BY <1>1, <1>2 DEF Begins, TaskSound, OwnRecord, TasksTyped, disk, Lines
<1>6. EffectsSound'
  BY DEF EffectsSound, disk, seen, Lines
<1> QED
  BY <1>3, <1>4, <1>5, <1>6

LEMMA ActStep ==
  ASSUME JournalInv, NEW a \in Actors, NEW transition \in Transitions,
         Act(a, transition)
  PROVE  JournalInv'
<1> USE DEF JournalInv, Act
<1>1. acts' \in [Actors -> 0..MaxActs] /\ acts' = [acts EXCEPT ![a] = acts[a] + 1]
  BY BoundsAssumption DEF TasksTyped
<1>2. Begins(a, "intent")
  <2>1. "intent" \in Kinds /\ transition \in Transitions \union {Bootstrap}
    BY DEF Kinds
  <2>4. "integration" \in Used
    BY DEF Used
  <2>2. a \in Tasks /\ a # Boot /\ TasksTyped
    BY ActorsAssumption
  <2>3. Appends(a, "integration", transition, "intent")
    OBVIOUS
  <2> HIDE DEF JournalInv, Act
  <2> QED
    BY <1>1, <2>1, <2>2, <2>3, <2>4, AppendsRecord
<1>3. DiskTyped' /\ MemoryTyped' /\ TasksTyped'
  BY <1>1, <1>2 DEF Begins, DiskTyped, MemoryTyped, TasksTyped, disk, memory, Places
<1>4. DiskSound'
  BY DEF DiskSound, disk, memory, Kept, Lines
<1>5. ASSUME NEW u \in Tasks PROVE TaskSound(u)'
  BY <1>1, <1>2, ActorsAssumption
     DEF Begins, TaskSound, OwnRecord, TasksTyped, disk, memory, Lines
<1>6. EffectsSound'
  BY DEF EffectsSound, disk, seen, Lines
<1> QED
  BY <1>3, <1>4, <1>5, <1>6

\* The record of a task that is about to act is its intent, in the journal.
LEMMA EffectStep ==
  ASSUME JournalInv, NEW a \in Actors, Effect(a)
  PROVE  JournalInv'
<1> USE DEF JournalInv, Effect, At
<1>1. /\ a # Boot /\ OwnRecord(a) /\ record[a].kind = "intent" /\ record[a] \in Lines
      /\ record[a] \in Records /\ record[a].act = acts[a] /\ acts[a] \in Nat
  BY ActorsAssumption, BoundsAssumption DEF TaskSound, OwnRecord, TasksTyped
<1>2. /\ UNCHANGED acts
      /\ \/ Begins(a, "after")
         \/ pc' = [pc EXCEPT ![a] = "idle"] /\ UNCHANGED record
  <2>1. UNCHANGED acts /\ acts' \in [Actors -> 0..MaxActs]
    BY DEF TasksTyped
  <2>2. CASE Appends(a, "integration", record[a].transition, "after")
    <3>1. record[a].transition \in Transitions \union {Bootstrap}
      BY <1>1 DEF Records
    <3>2. a \in Tasks /\ "after" \in Kinds /\ TasksTyped
      BY DEF Kinds
    <3>3. "integration" \in Used
      BY DEF Used
    <3> HIDE DEF JournalInv, Effect
    <3> QED
      BY <1>1, <2>1, <2>2, <3>1, <3>2, <3>3, AppendsRecord
  <2>3. CASE Goto(a, "idle") /\ UNCHANGED record
    BY <2>1, <2>3 DEF Goto
  <2> QED
    BY <2>1, <2>2, <2>3
<1>3. DiskTyped' /\ MemoryTyped' /\ TasksTyped'
  BY <1>2 DEF Begins, DiskTyped, MemoryTyped, TasksTyped, disk, memory, Places
<1>4. DiskSound'
  BY DEF DiskSound, disk, memory, Kept, Lines
<1>5. ASSUME NEW u \in Tasks PROVE TaskSound(u)'
  BY <1>1, <1>2 DEF Begins, TaskSound, OwnRecord, TasksTyped, disk, memory, Lines
<1>6. EffectsSound'
  <2>1. effects' \subseteq effects \union {<<a, acts[a]>>} /\ Lines' = Lines
    BY DEF disk, Lines
  <2>2. IntentIn(Lines, a, acts[a])
    BY <1>1 DEF IntentIn, OwnRecord
  <2> QED
    BY <1>1, <2>1, <2>2 DEF EffectsSound, IntentIn
<1> QED
  BY <1>3, <1>4, <1>5, <1>6

-----------------------------------------------------------------------------
(* The file operations of append *)

LEMMA WriteStep ==
  ASSUME JournalInv, NEW t \in Tasks, WriteArtifact(t)
  PROVE  JournalInv'
<1> USE DEF JournalInv, WriteArtifact, At
<1>1. OwnRecord(t) /\ sequence + 1 \in Nat
  BY DEF TaskSound, MemoryTyped
<1>2. PICK r : /\ r = [record[t] EXCEPT !.sequence = sequence + 1]
               /\ \/ /\ \A f \in files : Name(f) # Name(r)
                     /\ files' = files \union {r}
                     /\ record' = [record EXCEPT ![t] = r]
                     /\ pc' = [pc EXCEPT ![t] = "line"]
                     /\ UNCHANGED process
                  \/ /\ pc' = [pc EXCEPT ![t] = "idle"]
                     /\ process' \in {"refused", process}
                     /\ UNCHANGED <<files, record>>
  BY DEF Creatable, AppendThrows, Goto
<1>3. /\ r \in Records /\ r.by = t /\ r.kind = record[t].kind
      /\ r.act = record[t].act
  BY <1>1, <1>2 DEF OwnRecord, Records
<1>4. DiskTyped' /\ MemoryTyped' /\ TasksTyped'
  <2>1. DiskTyped'
    BY <1>2, <1>3 DEF DiskTyped
  <2>2. MemoryTyped'
    BY <1>1, <1>2 DEF MemoryTyped
  <2>3. TasksTyped'
    BY <1>2, <1>3 DEF TasksTyped, Places
  <2> QED
    BY <2>1, <2>2, <2>3
<1>5. DiskSound'
  BY <1>2 DEF DiskSound, Kept, Lines
<1>6. ASSUME NEW u \in Tasks PROVE TaskSound(u)'
  <2>1. CASE u = t
    BY <1>1, <1>2, <1>3, <2>1 DEF TaskSound, OwnRecord, TasksTyped
  <2>2. CASE u # t
    BY <1>2, <2>2 DEF TaskSound, OwnRecord, TasksTyped, Lines
  <2> QED
    BY <2>1, <2>2
<1>7. EffectsSound'
  BY DEF EffectsSound, seen, Lines
<1> QED
  BY <1>4, <1>5, <1>6, <1>7

\* Appending a line adds its record to the journal and takes none away.
LEMMA MoreLines ==
  ASSUME lines \in Seq(Records), NEW r \in Records, lines' = Append(lines, r)
  PROVE  lines' \in Seq(Records) /\ Lines' = Lines \union {r}
<1>1. lines' \in Seq(Records) /\ Len(lines') = Len(lines) + 1
  OBVIOUS
<1>2. /\ \A k \in 1..Len(lines) : lines'[k] = lines[k]
      /\ lines'[Len(lines) + 1] = r
  OBVIOUS
<1>3. Len(lines) \in Nat
  OBVIOUS
<1>4. 1..Len(lines') = (1..Len(lines)) \union {Len(lines) + 1}
  BY <1>1, <1>3
<1> QED
  BY <1>1, <1>2, <1>4 DEF Lines

\* and keeps what was there before it.
LEMMA AppendPrefix ==
  ASSUME NEW s \in Seq(Records), NEW r \in Records
  PROVE  IsPrefix(s, Append(s, r))
<1> DEFINE t == Append(s, r)
           a == SubSeq(s, 1, Len(s))
           b == SubSeq(t, 1, Len(s))
<1>1. /\ Len(s) \in Nat /\ t \in Seq(Records) /\ Len(t) = Len(s) + 1
      /\ \A i \in 1..Len(s) : t[i] = s[i]
  OBVIOUS
<1> HIDE DEF t
<1>2. a \in Seq(Records) /\ Len(a) = Len(s) /\ \A i \in 1..Len(s) : a[i] = s[i]
  BY <1>1
<1>3. b \in Seq(Records) /\ Len(b) = Len(s) /\ \A i \in 1..Len(s) : b[i] = t[i]
  BY <1>1
<1> HIDE DEF a, b
<1>4. a = b
  BY <1>1, <1>2, <1>3, SeqEqual
<1>5. Len(s) <= Len(t) /\ SubSeq(s, 1, Len(s)) = SubSeq(t, 1, Len(s))
  BY <1>1, <1>4 DEF a, b
<1> QED
  BY <1>5 DEF IsPrefix, t

LEMMA LineStep ==
  ASSUME JournalInv, NEW t \in Tasks, AppendLine(t)
  PROVE  JournalInv'
<1> USE DEF JournalInv, AppendLine, At
<1>1. record[t] \in Records /\ record[t] \in files
  BY DEF TaskSound, OwnRecord
<1>2. CASE Lined(t) /\ Goto(t, "list") /\ UNCHANGED <<process, faults>>
  <2>1. lines' \in Seq(Records) /\ Lines' = Lines \union {record[t]}
    BY <1>1, <1>2, MoreLines DEF Lined, DiskTyped
  <2>2. DiskTyped' /\ MemoryTyped' /\ TasksTyped'
    BY <1>2, <2>1 DEF DiskTyped, MemoryTyped, TasksTyped, Places, Goto
  <2>3. DiskSound'
    BY <1>1, <1>2, <2>1 DEF DiskSound, Kept
  <2>4. ASSUME NEW u \in Tasks PROVE TaskSound(u)'
    BY <1>2, <2>1 DEF TaskSound, OwnRecord, TasksTyped, Goto
  <2>5. EffectsSound'
    BY <2>1 DEF EffectsSound, seen, IntentIn
  <2> QED
    BY <2>2, <2>3, <2>4, <2>5
<1>3. CASE AppendThrows(t) /\ UNCHANGED lines
  <2>1. DiskTyped' /\ MemoryTyped' /\ TasksTyped'
    BY <1>3 DEF DiskTyped, MemoryTyped, TasksTyped, Places, Goto, AppendThrows
  <2>2. DiskSound'
    BY <1>3 DEF DiskSound, Kept, Lines
  <2>3. ASSUME NEW u \in Tasks PROVE TaskSound(u)'
    BY <1>3 DEF TaskSound, OwnRecord, TasksTyped, Goto, AppendThrows, Lines
  <2>4. EffectsSound'
    BY <1>3 DEF EffectsSound, seen, Lines
  <2> QED
    BY <2>1, <2>2, <2>3, <2>4
<1> QED
  BY <1>2, <1>3

LEMMA ListStep ==
  ASSUME JournalInv, NEW t \in Tasks, ListArtifact(t)
  PROVE  JournalInv'
<1> USE DEF JournalInv, ListArtifact, At, WithRecord, Goto
<1>1. record[t] \in Records /\ record[t] \in Kept
  BY DEF TaskSound, OwnRecord, Kept
<1>2. DiskTyped' /\ MemoryTyped' /\ TasksTyped'
  BY <1>1 DEF DiskTyped, MemoryTyped, TasksTyped, disk, Places
<1>3. DiskSound'
  BY <1>1 DEF DiskSound, disk, Kept, Lines, TasksTyped
<1>4. ASSUME NEW u \in Tasks PROVE TaskSound(u)'
  BY DEF TaskSound, OwnRecord, TasksTyped, disk, Lines
<1>5. EffectsSound'
  BY DEF EffectsSound, disk, seen, Lines
<1> QED
  BY <1>2, <1>3, <1>4, <1>5

LEMMA TemporaryStep ==
  ASSUME JournalInv, NEW t \in Tasks, WriteTemporary(t)
  PROVE  JournalInv'
<1> USE DEF JournalInv, WriteTemporary, At, Goto, AppendThrows
<1>1. DiskTyped' /\ MemoryTyped' /\ TasksTyped'
  <2>1. Listing(snapshot[t]) \in Listings
    BY DEF TasksTyped, Listing, Listings
  <2>2. DiskTyped'
    BY <2>1 DEF DiskTyped
  <2>3. MemoryTyped' /\ TasksTyped'
    BY DEF MemoryTyped, TasksTyped, Places
  <2> QED
    BY <2>2, <2>3
<1>2. DiskSound'
  BY DEF DiskSound, Kept, Lines, Listing
<1>3. ASSUME NEW u \in Tasks PROVE TaskSound(u)'
  BY DEF TaskSound, OwnRecord, TasksTyped, Lines
<1>4. EffectsSound'
  BY DEF EffectsSound, seen, Lines
<1> QED
  BY <1>1, <1>2, <1>3, <1>4

\* Where a task goes when its append returned or threw.
Settles(t) ==
  \/ /\ pc' = [pc EXCEPT ![t] = "idle"]
     /\ UNCHANGED record
     /\ process' \in {"open", "refused", process}
     /\ booted' \in {booted, booted + 1} /\ booted' \in 0..Len(Categories)
     /\ t # Boot => UNCHANGED booted
  \/ /\ t # Boot /\ record[t].kind = "intent"
     /\ pc' = [pc EXCEPT ![t] = "verify"]
     /\ UNCHANGED <<record, process, booted>>
  \/ /\ t = Boot /\ Begins(Boot, "run-initialized")
     /\ booted' = booted + 1 /\ booted' < Len(Categories)
     /\ UNCHANGED process

LEMMA RenameSettles ==
  ASSUME JournalInv, NEW t \in Tasks, Rename(t)
  PROVE  Settles(t)
<1> USE DEF Rename, At
<1>1. OwnRecord(t) /\ booted \in 0..Len(Categories) /\ Len(Categories) \in Nat
  BY CategoriesAssumption DEF JournalInv, TaskSound, MemoryTyped
<1>2. CASE AppendThrows(t) /\ UNCHANGED <<booted, record>>
  BY <1>1, <1>2 DEF AppendThrows, Goto, Settles
<1>3. CASE Returns(t)
  <2>1. CASE /\ t = Boot /\ booted' = booted + 1 /\ booted' < Len(Categories)
             /\ Appends(t, Categories[booted' + 1], Bootstrap, "run-initialized")
             /\ UNCHANGED process
    <3>1. Categories[booted' + 1] \in Used
      BY <1>1, <2>1 DEF Used
    <3>2. "run-initialized" \in Kinds /\ Bootstrap \in Transitions \union {Bootstrap}
      BY DEF Kinds
    <3>3. TasksTyped /\ acts' \in [Actors -> 0..MaxActs]
      BY DEF JournalInv, TasksTyped
    <3>4. Appends(Boot, Categories[booted' + 1], Bootstrap, "run-initialized")
      BY <2>1
    <3>5. Begins(Boot, "run-initialized")
      BY <3>1, <3>2, <3>3, <3>4, AppendsRecord
    <3> QED
      BY <2>1, <3>5 DEF Settles
  <2>2. CASE /\ t = Boot /\ booted' = booted + 1 /\ booted' = Len(Categories)
             /\ process' = "open" /\ Goto(t, "idle") /\ UNCHANGED record
    BY <1>1, <2>2 DEF Settles, Goto
  <2>3. CASE /\ t # Boot /\ record[t].kind = "intent" /\ Goto(t, "verify")
             /\ UNCHANGED <<booted, process, finished, record>>
    BY <2>3 DEF Settles, Goto
  <2>4. CASE t # Boot /\ Goto(t, "idle") /\ UNCHANGED <<booted, process, record>>
    BY <1>1, <2>4 DEF Settles, Goto
  <2> QED
    BY <1>3, <2>1, <2>2, <2>3, <2>4 DEF Returns
<1> QED
  BY <1>2, <1>3

LEMMA RenameStep ==
  ASSUME JournalInv, NEW t \in Tasks, Rename(t)
  PROVE  JournalInv'
<1> USE DEF JournalInv
<1>1. /\ Settles(t) /\ OwnRecord(t) /\ record[t] \in Kept
      /\ UNCHANGED <<files, lines, sequence, artifacts, snapshot, acts, effects>>
  BY RenameSettles DEF Rename, At, TaskSound, Kept
<1>2. Lines' = Lines
  BY <1>1 DEF Lines
<1>3. /\ manifest' \in {manifest, temporary}
      /\ temporary' \in {temporary, Absent}
  BY DEF Rename
<1>4. DiskTyped'
  <2>1. Absent \in Listings
    BY DEF Absent, Listings
  <2> QED
    BY <1>1, <1>3, <2>1 DEF DiskTyped
<1>5. MemoryTyped'
  BY <1>1 DEF MemoryTyped, Settles
<1>6. TasksTyped'
  BY <1>1 DEF TasksTyped, Settles, Begins, Places
<1>7. DiskSound'
  <2>1. manifest'.listed \union temporary'.listed \subseteq Kept
    BY <1>3 DEF DiskSound, Absent
  <2> QED
    BY <1>1, <1>2, <2>1 DEF DiskSound, Kept
<1>8. ASSUME NEW u \in Tasks PROVE TaskSound(u)'
  <2>1. CASE u # t
    <3>1. pc'[u] = pc[u] /\ record'[u] = record[u] /\ (u # Boot \/ booted' = booted)
      BY <1>1, <2>1 DEF Settles, Begins, TasksTyped
    <3> QED
      BY <1>1, <1>2, <3>1 DEF TaskSound, OwnRecord
  <2>2. CASE u = t
    <3>1. CASE pc' = [pc EXCEPT ![t] = "idle"]
      BY <2>2, <3>1 DEF TaskSound, TasksTyped
    <3>2. CASE /\ t # Boot /\ record[t].kind = "intent"
               /\ pc' = [pc EXCEPT ![t] = "verify"]
               /\ UNCHANGED <<record, process, booted>>
      BY <1>1, <1>2, <2>2, <3>2 DEF TaskSound, OwnRecord, TasksTyped, Kept
    <3>3. CASE t = Boot /\ Begins(Boot, "run-initialized") /\ booted' < Len(Categories)
      BY <2>2, <3>3 DEF TaskSound, OwnRecord, TasksTyped, Begins
    <3> QED
      BY <1>1, <3>1, <3>2, <3>3 DEF Settles
  <2> QED
    BY <2>1, <2>2
<1>9. EffectsSound'
  BY <1>1, <1>2 DEF EffectsSound, IntentIn
<1> QED
  BY <1>4, <1>5, <1>6, <1>7, <1>8, <1>9

-----------------------------------------------------------------------------
LEMMA NextJournal == JournalInv /\ [Next]_vars => JournalInv'
<1> SUFFICES ASSUME JournalInv, [Next]_vars PROVE JournalInv'
  OBVIOUS
<1>1. CASE Start
  BY <1>1, StartStep
<1>2. CASE Crash
  BY <1>2, CrashStep
<1>3. CASE \E t \in Tasks : AppendStep(t)
  BY <1>3, WriteStep, LineStep, ListStep, TemporaryStep, RenameStep DEF AppendStep
<1>4. CASE \E a \in Actors : Guarded(a)
  BY <1>4, ActStep, VerifyStep, EffectStep DEF Guarded
<1>5. CASE UNCHANGED vars
  <2> USE <1>5 DEF vars, disk, memory, tasks, seen, JournalInv
  <2>1. DiskTyped' /\ MemoryTyped' /\ TasksTyped'
    BY DEF DiskTyped, MemoryTyped, TasksTyped
  <2>2. DiskSound'
    BY DEF DiskSound, Kept, Lines
  <2>3. ASSUME NEW u \in Tasks PROVE TaskSound(u)'
    BY DEF TaskSound, OwnRecord, Lines
  <2>4. EffectsSound'
    BY DEF EffectsSound, Lines
  <2> QED
    BY <2>1, <2>2, <2>3, <2>4
<1> QED
  BY <1>1, <1>2, <1>3, <1>4, <1>5 DEF Next

LEMMA JournalAlways == Spec => []JournalInv
  BY InitJournal, NextJournal, PTL DEF Spec

\* Every variable of the journal stays in its type and no two artifacts have one
\* name (append, lines 73-86).
THEOREM JournalTyped == Spec => []TypeOK
<1>1. JournalInv => TypeOK
  <2> SUFFICES ASSUME JournalInv PROVE TypeOK
    OBVIOUS
  <2> USE DEF JournalInv, DiskTyped, MemoryTyped, TasksTyped, DiskSound
  <2>1. files \union artifacts \union manifest.listed \subseteq Records
    BY DEF Listings
  <2>2. \A f \in files \union artifacts \union manifest.listed :
          /\ f.kind \in Kinds /\ f.by \in Tasks /\ f.sequence \in Nat
          /\ f.transition \in Transitions \union {Bootstrap}
    BY <2>1 DEF Records
  <2>3. \A k \in 1..Len(lines) : lines[k] \in files
    BY DEF Lines
  <2>4. temporary.present \in BOOLEAN /\ manifest.present \in BOOLEAN
    BY DEF Listings
  <2> QED
    BY <2>2, <2>3, <2>4 DEF TypeOK, Places
<1> QED
  BY <1>1, JournalAlways, PTL

\* What the manifest lists exists on disk, whatever tasks interleave, fail or
\* crash (append, lines 73-86).
THEOREM ManifestCorrect == Spec => []ManifestIsSound
<1>1. JournalInv => ManifestIsSound
  BY DEF JournalInv, DiskSound, Kept, ManifestIsSound
<1> QED
  BY <1>1, JournalAlways, PTL

\* No side effect happens without its own intent in the journal (guarded, lines
\* 7-25 of afk-delivery-blueprint.js).
THEOREM IntentsPrecedeEffects == Spec => []EffectHasIntent
<1>1. JournalInv => EffectHasIntent
  BY DEF JournalInv, EffectsSound, EffectHasIntent
<1> QED
  BY <1>1, JournalAlways, PTL

-----------------------------------------------------------------------------
(* Evidence stands: what was linked or recorded stays so *)

\* The first artifact of the directory keeps its name taken: whoever opens the
\* directory again collides with it before anything is listed.
Writing == {"write", "line", "list", "temporary", "rename"}
Living == process \in {"booting", "open"} /\ sequence > 0
First == \E f \in files : Name(f) = <<1, Categories[1]>>
BootInv ==
  /\ files # {} \/ Living => First
  /\ process = "open" => sequence > 0
  /\ process = "booting" /\ sequence = 0 =>
       pc[Boot] = "write" /\ record[Boot].category = Categories[1]
  /\ process # "booting" => pc[Boot] = "idle"
  /\ process # "open" => \A a \in Actors : pc[a] = "idle"

\* As long as appends did not overlap, one task at most appends,
AloneInv == IsFiniteSet(Appending) /\ (overlapped \/ \A t, u \in Appending : t = u)

\* and the manifest grows along memory, the task's text and the temporary file.
Linked(t) ==
  /\ pc[t] = "temporary" =>
       manifest.listed \union {record[t]} \subseteq snapshot[t] /\ snapshot[t] \subseteq artifacts
  /\ pc[t] = "rename" =>
       /\ temporary.present /\ temporary.listed \subseteq artifacts
       /\ manifest.listed \union {record[t]} \subseteq temporary.listed
  /\ pc[t] \in {"verify", "effect"} => record[t] \in manifest.listed
  /\ pc[t] \in Writing /\ record[t].kind = "after" => IntentIn(manifest.listed, t, acts[t])
LinkInv ==
  ~overlapped =>
    /\ Living => manifest.listed \subseteq artifacts
    /\ \A t \in Tasks : Linked(t)
    /\ SuccessIsRecorded

StandInv == JournalInv /\ BootInv /\ AloneInv /\ LinkInv

\* The steps that one task makes.
Moves(t) == AppendStep(t) \/ (t \in Actors /\ Guarded(t))

LEMMA NextCases ==
  ASSUME [Next]_vars
  PROVE  \/ Start /\ Observed
         \/ Crash /\ Observed
         \/ (\E t \in Tasks : Moves(t)) /\ Observed
         \/ UNCHANGED vars
BY DEF Next, Moves

LEMMA OthersStay ==
  ASSUME JournalInv, NEW t \in Tasks, Moves(t)
  PROVE  /\ \A u \in Tasks \ {t} : pc'[u] = pc[u] /\ record'[u] = record[u] /\ snapshot'[u] = snapshot[u]
         /\ \A a \in Actors \ {t} : acts'[a] = acts[a]
<1>0. TasksTyped
  BY DEF JournalInv
<1> USE DEF TasksTyped, Goto
<1>1. CASE WriteArtifact(t) \/ AppendLine(t) \/ ListArtifact(t) \/ WriteTemporary(t)
  BY <1>0, <1>1 DEF WriteArtifact, AppendLine, ListArtifact, WriteTemporary, AppendThrows
<1>2. CASE Rename(t)
  <2>1. Settles(t) /\ UNCHANGED <<snapshot, acts>>
    BY <1>2, RenameSettles DEF Rename
  <2> QED
    BY <1>0, <2>1 DEF Settles, Begins
<1>3. CASE t \in Actors /\ Guarded(t)
  BY <1>0, <1>3 DEF Guarded, Act, Verify, Effect, Appends
<1> QED
  BY <1>1, <1>2, <1>3 DEF Moves, AppendStep

LEMMA WhoMoves ==
  ASSUME JournalInv, BootInv, NEW t \in Tasks, Moves(t)
  PROVE  /\ t = Boot => process = "booting" /\ pc[Boot] \in Writing
         /\ t # Boot => process = "open"
<1>1. AppendStep(t) => pc[t] \in Writing
  BY DEF AppendStep, WriteArtifact, AppendLine, ListArtifact, WriteTemporary, Rename, At, Writing
<1>2. t \in Actors /\ Guarded(t) => t # Boot /\ (process = "open" \/ pc[t] \in {"verify", "effect"})
  BY ActorsAssumption DEF Guarded, Act, Verify, Effect, At
<1> QED
  BY <1>1, <1>2 DEF Moves, BootInv, Writing

LEMMA NextBoot == JournalInv /\ BootInv /\ [Next]_vars => BootInv'
<1> SUFFICES ASSUME JournalInv, BootInv, [Next]_vars
             PROVE  BootInv'
  OBVIOUS
<1>0. TasksTyped /\ sequence \in Nat /\ Boot \notin Actors
  BY ActorsAssumption DEF JournalInv, MemoryTyped
<1>1. CASE Start
  <2>1. /\ pc' = [pc EXCEPT ![Boot] = "write"] /\ process = "down" /\ process' = "booting"
        /\ sequence' = 0 /\ UNCHANGED files
    BY <1>1 DEF Start, Appends, Goto, disk
  <2>2. record'[Boot].category = Categories[1]
    BY <1>0, <1>1 DEF Start, Appends, NoRecord, TasksTyped
  <2> QED
    BY <1>0, <2>1, <2>2 DEF BootInv, Living, First, TasksTyped
<1>2. CASE Crash
  BY <1>2 DEF Crash, BootInv, Living, First, disk
<1>3. ASSUME NEW t \in Tasks, Moves(t)
      PROVE  BootInv'
  <2>1. /\ t = Boot => process = "booting" /\ pc[Boot] \in Writing
        /\ t # Boot => process = "open"
    BY <1>3, WhoMoves
  <2>2. \A u \in Tasks \ {t} : pc'[u] = pc[u] /\ record'[u] = record[u]
    BY <1>3, OthersStay
  <2>3. CASE WriteArtifact(t)
    <3>1. sequence' = sequence + 1 /\ sequence' > 0 /\ pc[t] = "write"
      BY <1>0, <2>3 DEF WriteArtifact, At
    <3>2. CASE AppendThrows(t) /\ UNCHANGED files
      <4>1. pc'[t] = "idle" /\ process' = IF t = Boot THEN "refused" ELSE process
        BY <1>0, <3>2 DEF AppendThrows, Goto, TasksTyped
      <4> QED
        BY <1>0, <2>1, <2>2, <3>1, <3>2, <4>1 DEF BootInv, Living, First
    <3>3. CASE ~(AppendThrows(t) /\ UNCHANGED files)
      <4> DEFINE r == [record[t] EXCEPT !.sequence = sequence + 1]
      <4>1. /\ files' = {f \in files : Name(f) # Name(r)} \union {r}
            /\ \A f \in files : Name(f) # Name(r)
            /\ UNCHANGED process
        BY <2>3, <3>3 DEF WriteArtifact, Creatable
      <4>2. First'
        <5>1. CASE First
          BY <4>1, <5>1 DEF First
        <5>2. CASE ~First
          <6>1. sequence = 0 /\ t = Boot
            BY <1>0, <2>1, <5>2 DEF BootInv, Living
          <6>2. record[t].category = Categories[1] /\ record[t] \in Records
            BY <2>1, <3>1, <6>1 DEF BootInv, JournalInv, TaskSound, OwnRecord
          <6>3. Name(r) = <<1, Categories[1]>>
            BY <6>1, <6>2 DEF Name, Records
          <6> QED
            BY <4>1, <6>3 DEF First
        <5> QED
          BY <5>1, <5>2
      <4> QED
        BY <1>0, <2>1, <2>2, <3>1, <4>1, <4>2 DEF BootInv
    <3> QED
      BY <3>2, <3>3
  <2>4. CASE ~WriteArtifact(t)
    <3>1. UNCHANGED <<files, sequence>> /\ sequence > 0
      <4>1. t = Boot => pc[t] # "write"
        BY <1>0, <1>3, <2>4
           DEF Moves, AppendStep, AppendLine, ListArtifact, WriteTemporary, Rename, At
      <4>2. UNCHANGED <<files, sequence>>
        BY <1>3, <2>4
           DEF Moves, AppendStep, AppendLine, ListArtifact, WriteTemporary, Rename, Guarded, Act,
               Verify, Effect, disk, memory
      <4> QED
        BY <1>0, <2>1, <4>1, <4>2 DEF BootInv
    <3>2. \/ process' = process
          \/ t = Boot /\ process' \in {"refused", "open"} /\ pc'[Boot] = "idle"
      <4>1. CASE Rename(t)
        <5>1. AppendThrows(t) \/ Returns(t)
          BY <4>1 DEF Rename
        <5> QED
          BY <1>0, <5>1 DEF AppendThrows, Returns, Goto, TasksTyped
      <4>2. CASE ~Rename(t)
        BY <1>0, <1>3, <2>4, <4>2
           DEF Moves, AppendStep, AppendLine, ListArtifact, WriteTemporary, Guarded, Act, Verify,
               Effect, memory, AppendThrows, Goto, TasksTyped
      <4> QED
        BY <4>1, <4>2
    <3> QED
      BY <1>0, <2>1, <2>2, <3>1, <3>2 DEF BootInv, Living, First
  <2> QED
    BY <2>3, <2>4
<1>4. CASE UNCHANGED vars
  BY <1>4 DEF vars, disk, memory, tasks, BootInv, Living, First
<1> QED
  BY <1>1, <1>2, <1>3, <1>4, NextCases

LEMMA NextAlone == JournalInv /\ AloneInv /\ [Next]_vars => AloneInv'
<1> SUFFICES ASSUME JournalInv, AloneInv, [Next]_vars
             PROVE  AloneInv'
  OBVIOUS
<1>1. IsFiniteSet(Appending')
  <2>1. ASSUME NEW t \in Tasks, Appending' \subseteq Appending \union {t}
        PROVE  IsFiniteSet(Appending')
    <3>1. IsFiniteSet(Appending \union {t})
      BY FS_AddElement DEF AloneInv
    <3> QED
      BY <2>1, <3>1, FS_Subset
  <2>2. CASE Start
    <3>1. Appending' \subseteq Appending \union {Boot}
      BY <2>2 DEF Start, Appends, Goto, Appending, JournalInv, TasksTyped
    <3> QED
      BY <2>1, <3>1
  <2>3. CASE Crash
    <3>1. Appending' \subseteq Appending \union {Boot}
      BY <2>3 DEF Crash, Appending
    <3> QED
      BY <2>1, <3>1
  <2>4. ASSUME NEW t \in Tasks, Moves(t)
        PROVE  IsFiniteSet(Appending')
    <3>1. Appending' \subseteq Appending \union {t}
      BY <2>4, OthersStay DEF Appending
    <3> QED
      BY <2>1, <3>1
  <2>5. CASE UNCHANGED vars
    <3>1. Appending' \subseteq Appending \union {Boot}
      BY <2>5 DEF vars, tasks, Appending
    <3> QED
      BY <2>1, <3>1
  <2> QED
    BY <2>2, <2>3, <2>4, <2>5, NextCases
<1>2. ASSUME ~overlapped', NEW t \in Appending', NEW u \in Appending', t # u
      PROVE  FALSE
  <2>1. CASE Observed
    <3>1. ~(Cardinality(Appending') > 1)
      BY <1>2, <2>1 DEF Observed
    <3>2. IsFiniteSet({t, u}) /\ Cardinality({t, u}) = 2
      <4>1. IsFiniteSet({t}) /\ Cardinality({t}) = 1
        BY FS_Singleton
      <4>2. {t, u} = {t} \union {u}
        OBVIOUS
      <4> QED
        BY <1>2, <4>1, <4>2, FS_AddElement
    <3>3. Cardinality({t, u}) =< Cardinality(Appending') /\ Cardinality(Appending') \in Nat
      BY <1>1, FS_Subset, FS_CardinalityType
    <3> QED
      BY <3>1, <3>2, <3>3
  <2>2. CASE UNCHANGED vars
    BY <1>2, <2>2 DEF vars, tasks, Appending, AloneInv
  <2> QED
    BY <2>1, <2>2, NextCases
<1> QED
  BY <1>1, <1>2 DEF AloneInv

\* What was linked for one task stays linked while another one moves.
LEMMA OtherLinked ==
  ASSUME JournalInv, NEW t \in Tasks, Moves(t), NEW u \in Tasks \ {t}, Linked(u),
         manifest.listed \subseteq manifest'.listed, artifacts \subseteq artifacts',
         pc[u] \notin Writing \/ UNCHANGED <<manifest, temporary>>
  PROVE  Linked(u)'
<1>1. pc'[u] = pc[u] /\ record'[u] = record[u] /\ snapshot'[u] = snapshot[u]
  BY OthersStay
<1>2. pc[u] \in Writing /\ record[u].kind = "after" => acts'[u] = acts[u]
  BY OthersStay DEF JournalInv, TaskSound, OwnRecord, Writing
<1> QED
  BY <1>1, <1>2 DEF Linked, IntentIn, Writing

LEMMA NextLink == StandInv /\ [Next]_vars => LinkInv'
<1> SUFFICES ASSUME StandInv, [Next]_vars, ~overlapped'
             PROVE  /\ Living' => manifest'.listed \subseteq artifacts'
                    /\ \A u \in Tasks : Linked(u)'
                    /\ SuccessIsRecorded'
  BY DEF LinkInv
<1>a. JournalInv /\ BootInv /\ AloneInv /\ LinkInv
  BY DEF StandInv
<1>b. /\ ~overlapped
      /\ Living => manifest.listed \subseteq artifacts
      /\ \A u \in Tasks : Linked(u)
      /\ SuccessIsRecorded
      /\ \A u, v \in Appending : u = v
  <2>1. ~overlapped
    BY NextCases DEF Observed, vars
  <2> QED
    BY <1>a, <2>1 DEF LinkInv, AloneInv
<1>c. TasksTyped /\ sequence \in Nat /\ Boot \notin Actors /\ \A u \in Tasks : TaskSound(u)
  BY <1>a, ActorsAssumption DEF JournalInv, MemoryTyped
<1>1. CASE Start
  <2>1. /\ pc' = [pc EXCEPT ![Boot] = "write"] /\ sequence' = 0 /\ process = "down"
        /\ UNCHANGED <<manifest, finished>>
    BY <1>1 DEF Start, Appends, Goto, disk, seen
  <2>2. record'[Boot].kind = "run-initialized"
    BY <1>1, <1>c DEF Start, Appends, NoRecord, TasksTyped
  <2>3. ~Living'
    BY <2>1 DEF Living
  <2>4. ASSUME NEW u \in Tasks
        PROVE  Linked(u)'
    <3>1. CASE u = Boot
      BY <1>c, <2>1, <2>2, <3>1 DEF Linked, TasksTyped
    <3>2. CASE u # Boot
      <4>1. pc'[u] = "idle"
        BY <1>a, <1>c, <2>1, <3>2 DEF BootInv, TasksTyped
      <4> QED
        BY <4>1 DEF Linked, Writing
    <3> QED
      BY <3>1, <3>2
  <2> QED
    BY <1>b, <2>1, <2>3, <2>4 DEF SuccessIsRecorded
<1>2. CASE Crash
  <2>1. pc' = [t \in Tasks |-> "idle"] /\ sequence' = 0 /\ UNCHANGED <<manifest, finished>>
    BY <1>2 DEF Crash, disk, seen
  <2>2. \A u \in Tasks : Linked(u)'
    BY <2>1 DEF Linked, Writing
  <2> QED
    BY <1>b, <2>1, <2>2 DEF SuccessIsRecorded, Living
<1>3. ASSUME NEW t \in Tasks, Moves(t)
      PROVE  /\ Living' => manifest'.listed \subseteq artifacts'
             /\ \A u \in Tasks : Linked(u)'
             /\ SuccessIsRecorded'
  <2>1. /\ t = Boot => process = "booting" /\ pc[Boot] \in Writing
        /\ t # Boot => process = "open" /\ sequence > 0
    BY <1>a, <1>3, WhoMoves DEF BootInv
  <2>2. pc[t] \in Writing => \A u \in Tasks \ {t} : pc[u] \notin Writing
    BY <1>b DEF Appending, Writing
  <2>3. pc[t] \in Writing \ {"write"} \/ t # Boot => Living
    BY <1>a, <1>c, <2>1 DEF BootInv, Living
  <2>4. ASSUME UNCHANGED <<manifest, finished>>, artifacts \subseteq artifacts',
               UNCHANGED temporary \/ pc[t] \in Writing,
               Linked(t)', Living' => manifest.listed \subseteq artifacts'
        PROVE  /\ Living' => manifest'.listed \subseteq artifacts'
               /\ \A u \in Tasks : Linked(u)'
               /\ SuccessIsRecorded'
    <3>1. ASSUME NEW u \in Tasks \ {t}
          PROVE  Linked(u)'
      BY <1>3, <1>a, <1>b, <2>2, <2>4, OtherLinked
    <3> QED
      BY <1>b, <2>4, <3>1 DEF SuccessIsRecorded
  <2>5. CASE WriteArtifact(t)
    <3>1. /\ UNCHANGED <<manifest, temporary, artifacts, finished, acts>> /\ pc[t] = "write"
          /\ pc'[t] \in {"line", "idle"}
      BY <1>c, <2>5 DEF WriteArtifact, At, Goto, AppendThrows, TasksTyped, seen
    <3>2. pc[t] = "write" /\ pc'[t] = "line" => record'[t].kind = record[t].kind
      <4>1. record[t] \in Records
        BY <1>c, <3>1 DEF TaskSound, OwnRecord
      <4>2. CASE record' = [record EXCEPT ![t] = [record[t] EXCEPT !.sequence = sequence + 1]]
        BY <1>c, <4>1, <4>2 DEF TasksTyped, Records
      <4>3. CASE UNCHANGED record
        BY <4>3
      <4> QED
        BY <2>5, <4>2, <4>3 DEF WriteArtifact
    <3>3. Linked(t)'
      BY <1>b, <3>1, <3>2 DEF Linked, Writing
    <3>4. ASSUME Living'
          PROVE  manifest.listed \subseteq artifacts'
      <4>1. CASE Living
        BY <1>b, <3>1, <4>1
      <4>2. CASE ~Living
        <5>1. t = Boot /\ sequence = 0
          BY <1>c, <2>1, <2>3, <4>2 DEF Living
        <5>2. Creatable([record[t] EXCEPT !.sequence = sequence + 1])
          BY <2>5, <3>4, <5>1 DEF WriteArtifact, AppendThrows, Living
        <5>3. record[t].category = Categories[1] /\ record[t] \in Records
          BY <1>a, <1>c, <2>1, <3>1, <5>1 DEF BootInv, TaskSound, OwnRecord
        <5>4. Name([record[t] EXCEPT !.sequence = sequence + 1]) = <<1, Categories[1]>>
          BY <5>1, <5>3 DEF Name, Records
        <5>5. files = {}
          BY <1>a, <5>2, <5>4 DEF Creatable, BootInv, First
        <5> QED
          BY <1>a, <5>5 DEF JournalInv, DiskSound, Kept
      <4> QED
        BY <4>1, <4>2
    <3> QED
      BY <2>4, <3>1, <3>3, <3>4
  <2>6. CASE AppendLine(t)
    <3>1. /\ UNCHANGED <<manifest, temporary, artifacts, finished, acts, sequence, record>>
          /\ pc[t] = "line" /\ pc'[t] \in {"list", "idle"}
      BY <1>c, <2>6 DEF AppendLine, At, Goto, AppendThrows, TasksTyped, seen
    <3>2. Linked(t)'
      BY <1>b, <3>1 DEF Linked, Writing
    <3> QED
      BY <1>b, <2>3, <2>4, <3>1, <3>2 DEF Writing
  <2>7. CASE ListArtifact(t)
    <3>1. /\ UNCHANGED <<manifest, temporary, finished, acts, record>>
          /\ artifacts' = artifacts \union {record[t]} /\ snapshot'[t] = artifacts \union {record[t]}
          /\ pc[t] = "list" /\ pc'[t] = "temporary"
      BY <1>c, <2>7 DEF ListArtifact, At, Goto, WithRecord, TasksTyped, seen, disk
    <3>2. manifest.listed \subseteq artifacts
      BY <1>b, <2>3, <3>1 DEF Writing
    <3>3. Linked(t)'
      BY <1>b, <3>1, <3>2 DEF Linked, Writing
    <3> QED
      BY <2>4, <3>1, <3>2, <3>3
  <2>8. CASE WriteTemporary(t)
    <3>1. /\ UNCHANGED <<manifest, artifacts, finished, acts, record, snapshot>>
          /\ pc[t] = "temporary"
          /\ \/ pc'[t] = "rename" /\ temporary' = Listing(snapshot[t])
             \/ pc'[t] = "idle"
      BY <1>c, <2>8 DEF WriteTemporary, At, Goto, AppendThrows, TasksTyped, seen
    <3>2. Linked(t)'
      BY <1>b, <3>1 DEF Linked, Writing, Listing
    <3> QED
      BY <1>b, <2>3, <2>4, <3>1, <3>2 DEF Writing
  <2>9. CASE Rename(t)
    <3>1. UNCHANGED <<artifacts, acts, sequence>> /\ pc[t] = "rename"
      BY <2>9 DEF Rename, At
    <3>2. /\ temporary.present /\ temporary.listed \subseteq artifacts
          /\ manifest.listed \union {record[t]} \subseteq temporary.listed
      BY <1>b, <3>1 DEF Linked
    <3>3. CASE AppendThrows(t) /\ UNCHANGED <<manifest, temporary, finished, record>>
      <4>1. pc'[t] = "idle"
        BY <1>c, <3>3 DEF AppendThrows, Goto, TasksTyped
      <4>2. Linked(t)'
        BY <4>1 DEF Linked, Writing
      <4> QED
        BY <1>b, <2>3, <2>4, <3>1, <3>3, <4>2 DEF Writing
    <3>4. CASE manifest' = temporary /\ Returns(t)
      <4>1. manifest.listed \subseteq manifest'.listed /\ record[t] \in manifest'.listed
        BY <3>2, <3>4
      <4>2. ASSUME NEW u \in Tasks \ {t}
            PROVE  Linked(u)'
        BY <1>3, <1>a, <1>b, <2>2, <3>1, <4>1, OtherLinked DEF Writing
      <4>3. \/ pc'[t] = "idle" /\ UNCHANGED finished
            \/ t = Boot /\ pc'[t] = "write" /\ record'[t].kind = "run-initialized" /\ UNCHANGED finished
            \/ pc'[t] = "verify" /\ UNCHANGED <<record, finished>>
            \/ /\ pc'[t] = "idle" /\ finished' = finished \union {<<t, acts[t]>>}
               /\ record[t].kind = "after" /\ t # Boot
        <5>1. CASE \E c \in {Categories[booted' + 1]} :
                     t = Boot /\ UNCHANGED finished /\ Appends(t, c, Bootstrap, "run-initialized")
          BY <1>c, <5>1 DEF Appends, Goto, NoRecord, TasksTyped
        <5>2. CASE Goto(t, "idle") /\ UNCHANGED finished
          BY <1>c, <5>2 DEF Goto, TasksTyped
        <5>3. CASE Goto(t, "verify") /\ UNCHANGED <<record, finished>>
          BY <1>c, <5>3 DEF Goto, TasksTyped
        <5>4. CASE /\ Goto(t, "idle") /\ finished' = finished \union {<<t, acts[t]>>}
                   /\ record[t].kind = "after" /\ t # Boot
          BY <1>c, <5>4 DEF Goto, TasksTyped
        <5> QED
          BY <3>4, <5>1, <5>2, <5>3, <5>4 DEF Returns
      <4>4. Linked(t)'
        BY <4>1, <4>3 DEF Linked, Writing
      <4>5. SuccessIsRecorded'
        <5>1. ASSUME NEW e \in finished
              PROVE  IntentIn(manifest'.listed, e[1], e[2]) /\ ResultIn(manifest'.listed, e[1], e[2])
          BY <1>b, <4>1 DEF SuccessIsRecorded, IntentIn, ResultIn
        <5>2. ASSUME record[t].kind = "after", t # Boot
              PROVE  IntentIn(manifest'.listed, t, acts[t]) /\ ResultIn(manifest'.listed, t, acts[t])
          <6>1. IntentIn(manifest.listed, t, acts[t])
            BY <1>b, <3>1, <5>2 DEF Linked, Writing
          <6>2. record[t].by = t /\ record[t].act = acts[t]
            BY <1>c, <3>1, <5>2 DEF TaskSound, OwnRecord
          <6> QED
            BY <4>1, <5>2, <6>1, <6>2 DEF IntentIn, ResultIn
        <5> QED
          BY <4>3, <5>1, <5>2 DEF SuccessIsRecorded
      <4>6. Living' => manifest'.listed \subseteq artifacts'
        BY <3>1, <3>2, <3>4
      <4> QED
        BY <4>2, <4>4, <4>5, <4>6
    <3> QED
      BY <2>9, <3>3, <3>4 DEF Rename
  <2>10. CASE t \in Actors /\ Guarded(t)
    <3>1. /\ UNCHANGED <<manifest, temporary, artifacts, finished>> /\ t # Boot
          /\ manifest.listed \subseteq artifacts
      BY <1>b, <1>c, <2>3, <2>10 DEF Guarded, Act, Verify, Effect, disk, memory, seen
    <3>2. CASE \E transition \in Transitions : Act(t, transition)
      <4>1. pc'[t] = "write" /\ record'[t].kind = "intent"
        BY <1>c, <3>2 DEF Act, Appends, Goto, TasksTyped, NoRecord
      <4>2. Linked(t)'
        BY <4>1 DEF Linked
      <4> QED
        BY <2>4, <3>1, <4>2
    <3>3. CASE Verify(t)
      <4>1. pc[t] = "verify" /\ pc'[t] \in {"effect", "idle"} /\ UNCHANGED record
        BY <1>c, <3>3 DEF Verify, At, Goto, TasksTyped
      <4>2. Linked(t)'
        BY <1>b, <3>1, <4>1 DEF Linked, Writing
      <4> QED
        BY <2>4, <3>1, <4>2
    <3>4. CASE Effect(t)
      <4>1. /\ pc[t] = "effect" /\ UNCHANGED acts
            /\ pc'[t] = "write" \/ pc'[t] = "idle"
        BY <1>c, <3>4 DEF Effect, At, Goto, Appends, TasksTyped
      <4>2. IntentIn(manifest.listed, t, acts[t])
        BY <1>b, <1>c, <3>1, <4>1 DEF Linked, TaskSound, OwnRecord, IntentIn
      <4>3. Linked(t)'
        BY <3>1, <4>1, <4>2 DEF Linked
      <4> QED
        BY <2>4, <3>1, <4>3
    <3> QED
      BY <2>10, <3>2, <3>3, <3>4 DEF Guarded
  <2> QED
    BY <1>3, <2>5, <2>6, <2>7, <2>8, <2>9, <2>10 DEF Moves, AppendStep
<1>4. CASE UNCHANGED vars
  <2>1. UNCHANGED <<process, sequence, manifest, artifacts, temporary, pc, record, snapshot, acts, finished, overlapped>>
    BY <1>4 DEF vars, disk, memory, tasks, seen
  <2>2. \A u \in Tasks : Linked(u)'
    BY <1>b, <2>1 DEF Linked, Writing
  <2> QED
    BY <1>b, <2>1, <2>2 DEF Living, SuccessIsRecorded
<1> QED
  BY <1>1, <1>2, <1>3, <1>4, NextCases

LEMMA StandAlways == Spec => []StandInv
<1>1. Init => StandInv
  <2> SUFFICES ASSUME Init PROVE StandInv
    OBVIOUS
  <2>1. JournalInv
    BY InitJournal
  <2>2. BootInv
    BY DEF Init, BootInv, Living, First
  <2>3. AloneInv
    <3>1. Appending = {}
      BY DEF Init, Appending
    <3> QED
      BY <3>1, FS_EmptySet DEF AloneInv
  <2>4. LinkInv
    BY DEF Init, LinkInv, Living, Linked, Writing, SuccessIsRecorded
  <2> QED
    BY <2>1, <2>2, <2>3, <2>4 DEF StandInv
<1>2. StandInv /\ [Next]_vars => StandInv'
  BY NextJournal, NextBoot, NextAlone, NextLink DEF StandInv
<1> QED
  BY <1>1, <1>2, PTL DEF Spec

LEMMA MoreEvidence ==
  ASSUME StandInv, [Next]_vars
  PROVE  /\ files \subseteq files' /\ IsPrefix(lines, lines')
         /\ overlapped \/ manifest.listed \subseteq manifest'.listed
<1>1. lines \in Seq(Records)
  BY DEF StandInv, JournalInv, DiskTyped
<1>2. files \subseteq files'
  <2>1. ASSUME NEW t \in Tasks, WriteArtifact(t)
        PROVE  files \subseteq files'
    BY <2>1 DEF WriteArtifact, Creatable
  <2>2. (\E t \in Tasks : WriteArtifact(t)) \/ UNCHANGED files
    BY NextCases
       DEF Start, Crash, Moves, AppendStep, AppendLine, ListArtifact, WriteTemporary, Rename, Guarded,
           Act, Verify, Effect, disk, vars
  <2> QED
    BY <2>1, <2>2
<1>3. IsPrefix(lines, lines')
  <2>1. (\E r \in Records : lines' = Append(lines, r)) \/ UNCHANGED lines
    <3>1. ASSUME NEW t \in Tasks, AppendLine(t)
          PROVE  (\E r \in Records : lines' = Append(lines, r)) \/ UNCHANGED lines
      BY <3>1 DEF AppendLine, Lined, At, StandInv, JournalInv, TaskSound, OwnRecord
    <3>2. (\E t \in Tasks : AppendLine(t)) \/ UNCHANGED lines
      BY NextCases
         DEF Start, Crash, Moves, AppendStep, WriteArtifact, ListArtifact, WriteTemporary, Rename,
             Guarded, Act, Verify, Effect, disk, vars
    <3> QED
      BY <3>1, <3>2
  <2>2. CASE UNCHANGED lines
    BY <1>1, <2>2 DEF IsPrefix
  <2>3. ASSUME NEW r \in Records, lines' = Append(lines, r)
        PROVE  IsPrefix(lines, lines')
    BY <1>1, <2>3, AppendPrefix
  <2> QED
    BY <2>1, <2>2, <2>3
<1>4. ASSUME ~overlapped
      PROVE  manifest.listed \subseteq manifest'.listed
  <2>1. ASSUME NEW t \in Tasks, Rename(t)
        PROVE  manifest.listed \subseteq manifest'.listed
    BY <1>4, <2>1 DEF StandInv, LinkInv, Linked, Rename, At
  <2>2. (\E t \in Tasks : Rename(t)) \/ UNCHANGED manifest
    BY NextCases
       DEF Start, Crash, Moves, AppendStep, WriteArtifact, AppendLine, ListArtifact, WriteTemporary,
           Guarded, Act, Verify, Effect, disk, vars
  <2> QED
    BY <2>1, <2>2
<1> QED
  BY <1>2, <1>3, <1>4

\* Evidence stands, across failures, crashes and restarts: what was linked or
\* recorded stays so, every effect was linked, and nothing is taken away
\* (guarded, lines 7-25; append, lines 63-86).
THEOREM StandingEvidence == Spec => EvidenceStands
<1>1. StandInv => SuccessIsRecorded
  BY DEF StandInv, LinkInv, SuccessIsRecorded
<1>2. StandInv /\ [Next]_vars =>
        [\A e \in effects' \ effects : overlapped \/ IntentIn(manifest.listed, e[1], e[2])]_effects
  <2> SUFFICES ASSUME StandInv, [Next]_vars, ~overlapped, NEW e \in effects' \ effects
               PROVE  IntentIn(manifest.listed, e[1], e[2])
    OBVIOUS
  <2>1. PICK a \in Actors : Effect(a)
    BY NextCases
       DEF Start, Crash, Moves, AppendStep, WriteArtifact, AppendLine, ListArtifact, WriteTemporary,
           Rename, Guarded, Act, Verify, seen, vars
  <2>2. e = <<a, acts[a]>> /\ a # Boot /\ pc[a] = "effect"
    BY <2>1, ActorsAssumption DEF Effect, At
  <2>3. /\ record[a] \in manifest.listed
        /\ record[a].by = a /\ record[a].act = acts[a] /\ record[a].kind = "intent"
    BY <2>2, <2>1 DEF StandInv, LinkInv, Linked, JournalInv, TaskSound, OwnRecord
  <2> QED
    BY <2>2, <2>3 DEF IntentIn
<1>3. StandInv /\ [Next]_vars =>
        [/\ files \subseteq files' /\ IsPrefix(lines, lines')
         /\ overlapped \/ manifest.listed \subseteq manifest'.listed]_disk
  BY MoreEvidence
<1> QED
  BY <1>1, <1>2, <1>3, StandAlways, PTL DEF Spec, EvidenceStands, EffectIsLinked, EvidenceSurvives

=============================================================================
