------------------------------ MODULE WorkIntake ------------------------------
(***************************************************************************)
(* doc-vader-contract.mjs and repository-override-loader.js, as run of     *)
(* afk-delivery-blueprint.js and the delivery after it use them: a work    *)
(* item is selected from what Doc-Vader lists, shown, validated, taken and *)
(* closed, with the commands of a repository's override if it has one.     *)
(*                                                                         *)
(* Doc-Vader is external.  Its backlog says of every item [rank, status,   *)
(* afk, hitl, deps] and may change between two commands; an answer may be  *)
(* about another item, and one of its fields may have an odd shape.        *)
(***************************************************************************)
EXTENDS Naturals, Sequences, SequencesExt, Functions, FiniteSets

CONSTANTS
  Takers,        \* runs, each for the item it was given or for any
  IdOrder,       \* the ids of work items, in their order
  AnyId,         \* what a caller wants that names no item
  Items,         \* what there may be to say of an item
  Listings,      \* the lists of ids that Doc-Vader may answer with
  Overrides,     \* [file, version, compatible, commands]
  OddFields,     \* <<field, shape>> of answers that are not as they should be
  MaxEdits

ASSUME IntakeAssumption == AnyId \notin ToSet(IdOrder) /\ MaxEdits \in Nat

VARIABLES
  backlog, override, stage, wanted, chosen, edits,
  \* history
  listed,        \* by taker: the entries it selected from
  judged,        \* by taker: the item as it was when it was validated
  asked,         \* the commands sent: [name, id, argv]
  used           \* the answers that were acted upon: [kind, field, shape]
intakeVars == <<backlog, override, stage, wanted, chosen, edits, listed, judged, asked, used>>

Ids == ToSet(IdOrder)
NoItem == [rank |-> 0, status |-> "none", afk |-> FALSE, hitl |-> FALSE, deps |-> "none"]

IntakeInit ==
  /\ backlog \in [Ids -> Items] /\ override \in Overrides
  /\ stage = [t \in Takers |-> "load"] /\ wanted \in [Takers -> Ids \union {AnyId}]
  /\ chosen = [t \in Takers |-> AnyId] /\ listed = [t \in Takers |-> <<>>]
  /\ judged = [t \in Takers |-> NoItem] /\ asked = {} /\ used = {} /\ edits = 0

-----------------------------------------------------------------------------
(* The shapes of answers *)

Text == {"text"}
AnyText == {"text", "empty"}
Lists == {"strings", "array"}

\* resultSchemas: what the published documents require of each field.
SchemaTakes ==
  [ready |-> [schemaVersion |-> {"version"}, workItems |-> {"array"}, id |-> Text,
              priority |-> {"rank"}, status |-> AnyText, afk |-> {"boolean"},
              hitl |-> {"boolean"}, dependencies |-> {"strings"}],
   show |-> [schemaVersion |-> {"version"}, id |-> Text, title |-> AnyText, filePath |-> Text,
             status |-> AnyText, lifecycle |-> AnyText, tags |-> {"strings"},
             dependencies |-> {"strings"}, acceptanceCriteria |-> Lists, body |-> {"object"},
             validation |-> {"object"}, runtime |-> {"object"}],
   validate |-> [schemaVersion |-> {"version"}, id |-> Text, title |-> AnyText, filePath |-> Text,
                 status |-> AnyText, lifecycle |-> AnyText, validation |-> {"object"},
                 runtime |-> {"object"}, recovery |-> {"object"}, graph |-> {"object"},
                 isActive |-> {"boolean"}, isReady |-> {"boolean"}, isAfk |-> {"boolean"},
                 isHitl |-> {"boolean"}, dependenciesSatisfied |-> {"boolean"}],
   close |-> [schemaVersion |-> {"version"}, id |-> Text, status |-> {"closed"},
              lifecycle |-> {"closed"}]]

Strict(kind) ==
  {"id"} \union IF kind \in {"show", "validate"} THEN {"title", "filePath", "status", "lifecycle"} ELSE {}
\* parseReadyResult, validateItem, parseShowResult, parseStatusValidateResult and
\* parseCloseResult: as the schemas, but requireString wants more than an empty text.
Takes(kind, field, shape) ==
  shape \in IF field \in Strict(kind) THEN SchemaTakes[kind][field] \ {"empty"} ELSE SchemaTakes[kind][field]
Regular(kind) == [kind |-> kind, field |-> "none", shape |-> "none"]
Answers(kind) ==
  {Regular(kind)} \union
    {[kind |-> kind, field |-> o[1], shape |-> o[2]] : o \in {x \in OddFields : x[1] \in DOMAIN SchemaTakes[kind]}}
Parsed(a) == a.field # "none" => Takes(a.kind, a.field, a.shape)

-----------------------------------------------------------------------------
(* Commands *)

BuiltIn ==
  [ready |-> <<"dv", "work", "ready", "--json">>,
   show |-> <<"dv", "work", "show", "{workId}", "--json">>,
   validate |-> <<"dv", "work", "status", "{workId}", "--validate", "--json">>,
   close |-> <<"dv", "work", "close", "{workId}", "--json">>]

\* parseRepositoryOverride.
Compatible(o) ==
  /\ o.version /\ o.compatible
  /\ \A n \in DOMAIN o.commands :
       /\ n \in DOMAIN BuiltIn
       /\ "--json" \in ToSet(o.commands[n])
       /\ n # "ready" => "{workId}" \in ToSet(o.commands[n])

\* loadRepositoryOverride: without a file the built-in commands, and for each
\* command that the file does not name.
Loads == override.file = "missing" \/ (override.file = "there" /\ Compatible(override))
Argv(name, id) ==
  LET argv == IF override.file = "there" /\ name \in DOMAIN override.commands
              THEN override.commands[name] ELSE BuiltIn[name]
  IN [k \in DOMAIN argv |-> IF argv[k] = "{workId}" THEN id ELSE argv[k]]
Asks(name, id) == asked' = asked \union {[name |-> name, id |-> id, argv |-> Argv(name, id)]}

-----------------------------------------------------------------------------
(* Selection *)

\* ineligibility of a listed item.
Eligible(item) ==
  item.status = "ready" /\ item.afk /\ ~item.hitl /\ item.deps = "none"
Position(id) == CHOOSE k \in DOMAIN IdOrder : IdOrder[k] = id
\* priorityRank, then the ids.
Before(e, f) ==
  e.item.rank < f.item.rank \/ (e.item.rank = f.item.rank /\ Position(e.id) < Position(f.id))

ByRankAlone(list) == {e \in ToSet(list) : \A f \in ToSet(list) : ~Before(f, e)}     \* mutant
FirstEligible(list) ==
  {e \in ToSet(list) : Eligible(e.item) /\ \A f \in ToSet(list) : Eligible(f.item) => ~Before(f, e)}
Named(list, id) == {k \in DOMAIN list : list[k].id = id}
\* selectReadyWork: the item that is asked for, if it is there once and may be taken;
\* else the first that may be taken, if no id is there twice.  None when it throws.
Selected(list, id) ==
  IF id # AnyId
  THEN IF Cardinality(Named(list, id)) = 1
       THEN {e \in ToSet(list) : e.id = id /\ Eligible(e.item)} ELSE {}
  ELSE IF IsInjective([k \in DOMAIN list |-> list[k].id]) THEN FirstEligible(list) ELSE {}

\* validateReadyWork: the status again, and that dependencies are satisfied.
StillReady(item) ==
  /\ item.status = "ready" /\ item.afk /\ ~item.hitl
  /\ item.deps # "open"

-----------------------------------------------------------------------------
(* Steps of a taker: each sends a command and judges its answer *)

At(t, s) == stage[t] = s
Becomes(t, s) == stage' = [stage EXCEPT ![t] = s]
Acts(a) == used' = used \union {a}
Pauses(t) == Becomes(t, "paused") /\ UNCHANGED <<chosen, listed, judged, used>>

Load(t) ==
  /\ At(t, "load")
  /\ Becomes(t, IF Loads THEN "ready" ELSE "paused")
  /\ UNCHANGED <<backlog, override, wanted, chosen, edits, listed, judged, asked, used>>

SelectReadyWork(t) ==
  /\ At(t, "ready") /\ Asks("ready", AnyId)
  /\ \E l \in Listings, a \in Answers("ready") :
       LET list == [k \in DOMAIN l |-> [id |-> l[k], item |-> backlog[l[k]]]]
       IN \/ (~Parsed(a) \/ Selected(list, wanted[t]) = {}) /\ Pauses(t)
          \/ /\ Parsed(a) /\ \E e \in Selected(list, wanted[t]) : chosen' = [chosen EXCEPT ![t] = e.id]
             /\ listed' = [listed EXCEPT ![t] = list]
             /\ Becomes(t, "show") /\ Acts(a) /\ UNCHANGED judged
  /\ UNCHANGED <<backlog, override, wanted, edits>>

ShowWork(t) ==
  /\ At(t, "show") /\ Asks("show", chosen[t])
  /\ \E id \in Ids, a \in Answers("show") :
       IF Parsed(a) /\ id = chosen[t]
       THEN Becomes(t, "validate") /\ Acts(a) /\ UNCHANGED <<chosen, listed, judged>>
       ELSE Pauses(t)
  /\ UNCHANGED <<backlog, override, wanted, edits>>

ValidateReadyWork(t) ==
  /\ At(t, "validate") /\ Asks("validate", chosen[t])
  /\ \E id \in Ids, a \in Answers("validate") :
       IF Parsed(a) /\ id = chosen[t] /\ StillReady(backlog[id])
       THEN /\ judged' = [judged EXCEPT ![t] = backlog[id]]
            /\ Becomes(t, "taken") /\ Acts(a) /\ UNCHANGED <<chosen, listed>>
       ELSE Pauses(t)
  /\ UNCHANGED <<backlog, override, wanted, edits>>

\* The delivery closes the item through a port with a command of its own; an item whose
\* acknowledgement cannot be used is closed too.
CloseWork(t) ==
  /\ At(t, "taken")
  /\ backlog' = [backlog EXCEPT ![chosen[t]].status = "closed"]
  /\ \E id \in Ids, a \in Answers("close") :
       IF Parsed(a) /\ id = chosen[t]
       THEN Becomes(t, "closed") /\ Acts(a) /\ UNCHANGED <<chosen, listed, judged>>
       ELSE Pauses(t)
  /\ UNCHANGED <<override, wanted, edits, asked>>

\* People and other tools change the backlog.
Edit ==
  /\ edits < MaxEdits /\ edits' = edits + 1
  /\ \E id \in Ids, item \in Items : backlog' = [backlog EXCEPT ![id] = item]
  /\ UNCHANGED <<override, stage, wanted, chosen, listed, judged, asked, used>>

IntakeStep(t) ==
  Load(t) \/ SelectReadyWork(t) \/ ShowWork(t) \/ ValidateReadyWork(t) \/ CloseWork(t)
IntakeNext == Edit \/ \E t \in Takers : IntakeStep(t)

-----------------------------------------------------------------------------
(* Properties *)

Selecting == {"show", "validate", "taken", "closed"}
\* The item that a run takes is the one it was given; it was in the list, could be taken then,
\* and no other that could be taken came before it if none was given; and it was for an agent
\* alone, with its dependencies satisfied, when Doc-Vader validated it, whatever was edited
\* since it was listed (selectReadyWork, validateReadyWork, run).
TakenWasReady ==
  \A t \in Takers :
    /\ stage[t] \in Selecting =>
         /\ wanted[t] \in {AnyId, chosen[t]}
         /\ \E e \in ToSet(listed[t]) :
              /\ e.id = chosen[t] /\ Eligible(e.item)
              /\ wanted[t] = AnyId => \A f \in ToSet(listed[t]) : Eligible(f.item) => ~Before(f, e)
    /\ stage[t] \in {"taken", "closed"} =>
         judged[t].afk /\ ~judged[t].hitl /\ judged[t].deps # "open" /\ judged[t].status = "ready"

\* Every command asks for JSON, and but for the listing names its item, whatever override the
\* repository has (parseRepositoryOverride, loadRepositoryOverride).
CommandsAreStructured ==
  \A c \in asked : /\ "--json" \in ToSet(c.argv)
                   /\ c.name # "ready" => c.id \in ToSet(c.argv)

\* No answer is acted upon that the published schema of its command refuses (resultSchemas).
AnswersFitTheirSchema ==
  \A a \in used : a.field # "none" => a.shape \in SchemaTakes[a.kind][a.field]

\* A run works on the right item, and on what Doc-Vader really said of it.
WorkIsVetted == TakenWasReady /\ CommandsAreStructured /\ AnswersFitTheirSchema
=============================================================================
