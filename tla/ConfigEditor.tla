---------------------------- MODULE ConfigEditor ----------------------------
(***************************************************************************)
(* The configuration of agent-workflows: .pi/sandcastle/config.yaml, the   *)
(* editor showBacklogConfigTui over a ConfigShadowModel, and the           *)
(* /work:config commands (index.ts) that write the same file while the     *)
(* editor is open.                                                         *)
(*                                                                         *)
(* A config has one root setting a sandbox image depends on ("source"),    *)
(* one it does not depend on ("command"), roles with their sandbox, and    *)
(* pipelines with the role of their node.  A collapsed file has only the   *)
(* root settings.  Reading a file adds the roles and pipelines of the      *)
(* runtime pack.                                                           *)
(***************************************************************************)
EXTENDS Naturals, Sequences, SequencesExt

CONSTANTS RoleNames, PipelineNames, MaxChanges, MaxFileEdits, MaxOpens
ASSUME ConfigEditorAssumption == "worker" \in RoleNames /\ "loop" \in PipelineNames /\ MaxChanges \in Nat \ {0} /\ MaxFileEdits \in Nat /\ MaxOpens \in Nat

VARIABLES
  configFile,    \* [valid, expanded, config]; the config of an invalid file is what its text says
  editor,        \* [at, loaded, draft, pending, noImage]
  opens, fileEdits,
  collapsed      \* history: the file lost its sections while the editor was open
configVars == <<configFile, editor, opens, fileEdits, collapsed>>

\* "doc-vader" is the source that brings a setup command of its own.
Values == {"default", "doc-vader"}
DEFAULT_CONFIG == [source |-> "default", command |-> "default",
                   roles |-> [r \in {"worker"} |-> "inherit"], pipelines |-> [p \in {"loop"} |-> "worker"]]
Root(c) == [c EXCEPT !.roles = <<>>, !.pipelines = <<>>]
WithSource(c, v) == IF v = "doc-vader" THEN [c EXCEPT !.source = v, !.command = v] ELSE [c EXCEPT !.source = v]

\* mergeWithPackDefaults; a file that does not validate is shown as the defaults.
Over(f, g) == [x \in DOMAIN f \union DOMAIN g |-> IF x \in DOMAIN f THEN f[x] ELSE g[x]]
Merged(c) == [c EXCEPT !.roles = Over(@, DEFAULT_CONFIG.roles), !.pipelines = Over(@, DEFAULT_CONFIG.pipelines)]
Loaded(f) == IF f.valid THEN Merged(f.config) ELSE DEFAULT_CONFIG

\* configToYaml writes no sandbox of a role; buildDefaultConfigText only root settings.
Yaml(c) == [valid |-> TRUE, expanded |-> TRUE, config |-> [c EXCEPT !.roles = [r \in DOMAIN @ |-> "inherit"]]]
DefaultText(c) == [valid |-> TRUE, expanded |-> FALSE, config |-> Root(c)]

NoEditor == [at |-> "closed", loaded |-> DEFAULT_CONFIG, draft |-> DEFAULT_CONFIG, pending |-> <<>>, noImage |-> FALSE]

ConfigInit ==
  /\ configFile \in {DefaultText(DEFAULT_CONFIG), Yaml(DEFAULT_CONFIG)}
  /\ editor = NoEditor /\ opens = 0 /\ fileEdits = 0 /\ collapsed = FALSE

-----------------------------------------------------------------------------
(* The shadow model *)

On(f, S) == [x \in DOMAIN f \intersect S |-> f[x]]
Without(f, x) == On(f, DOMAIN f \ {x})
With(f, x, v) == [y \in DOMAIN f \union {x} |-> IF y = x THEN v ELSE f[y]]
\* The entry moves, and is lost when the new name is the old one.
Renamed(f, old, new, fresh) == Without(With(f, new, IF old \in DOMAIN f THEN f[old] ELSE fresh), old)

Change(type, name, value) == [type |-> type, name |-> name, value |-> value]
\* What the screens offer for a draft; a rename onto a name that is taken replaces its owner.
Offered(c) ==
  {Change(t, "none", v) : t \in {"source", "command"}, v \in Values}
  \union {Change("sandbox", r, v) : r \in DOMAIN c.roles, v \in {"inherit", "own"}}
  \union {Change("role", p, r) : p \in DOMAIN c.pipelines, r \in DOMAIN c.roles}
  \union {Change("add-agent", r, "none") : r \in RoleNames} \union {Change("delete-agent", r, "none") : r \in DOMAIN c.roles}
  \union {Change("rename-agent", r, s) : r \in DOMAIN c.roles, s \in RoleNames}
  \union {Change("add-pipeline", p, "none") : p \in PipelineNames} \union {Change("delete-pipeline", p, "none") : p \in DOMAIN c.pipelines}
  \union {Change("rename-pipeline", p, q) : p \in DOMAIN c.pipelines, q \in PipelineNames}

\* applyActionToModel; a replaced config is not applied again.
Apply(c, a) ==
  CASE a.type = "source" -> WithSource(c, a.value)
    [] a.type = "command" -> [c EXCEPT !.command = a.value]
    [] a.type = "sandbox" -> [c EXCEPT !.roles = With(@, a.name, a.value)]
    [] a.type = "role" -> [c EXCEPT !.pipelines = With(@, a.name, a.value)]
    [] a.type = "add-agent" -> [c EXCEPT !.roles = With(@, a.name, "inherit")]
    [] a.type = "delete-agent" -> [c EXCEPT !.roles = Without(@, a.name)]
    [] a.type = "rename-agent" ->
         [c EXCEPT !.roles = Renamed(@, a.name, a.value, "inherit"),
                   !.pipelines = [p \in DOMAIN @ |-> IF @[p] = a.name THEN a.value ELSE @[p]]]
    [] a.type = "add-pipeline" -> [c EXCEPT !.pipelines = With(@, a.name, "worker")]
    [] a.type = "delete-pipeline" -> [c EXCEPT !.pipelines = Without(@, a.name)]
    [] a.type = "rename-pipeline" -> [c EXCEPT !.pipelines = Renamed(@, a.name, a.value, "none")]
    [] OTHER -> c
\* And a list of changes, one after the other.
Applied(c, changes) ==
  LET f[n \in 0..Len(changes)] == IF n = 0 THEN c ELSE Apply(f[n - 1], changes[n]) IN f[Len(changes)]

-----------------------------------------------------------------------------
(* The editor *)

Shows(place) == editor.at = place
Dirty == editor.pending # <<>>
Closed == editor' = NoEditor
FileSame == UNCHANGED <<configFile, opens, fileEdits, collapsed>>
RequiresRebuild(a) == a.type # "command"
NeedsRebuild == editor.noImage \/ \E i \in DOMAIN editor.pending : RequiresRebuild(editor.pending[i])

Open ==
  /\ Shows("closed") /\ opens < MaxOpens /\ opens' = opens + 1 /\ collapsed' = FALSE
  /\ \E missing \in BOOLEAN :
       editor' = [at |-> "menu", loaded |-> Loaded(configFile), draft |-> Loaded(configFile), pending |-> <<>>, noImage |-> missing]
  /\ UNCHANGED <<configFile, fileEdits>>
Edit ==
  /\ Shows("menu") /\ Len(editor.pending) < MaxChanges
  /\ \E a \in Offered(editor.draft) :
       editor' = [editor EXCEPT !.draft = Apply(@, a), !.pending = Append(@, a)]
  /\ FileSame
\* Reset, an imported template or file, or the draft's own text back from an external editor.
Imported == Merged([DEFAULT_CONFIG EXCEPT !.source = "doc-vader", !.roles = [r \in RoleNames |-> "own"]])
Replace ==
  /\ Shows("menu")
  /\ \E c \in {DEFAULT_CONFIG, Imported, Merged(Yaml(editor.draft).config)} :
       editor' = [editor EXCEPT !.draft = c, !.pending = <<[type |-> "replace-config", config |-> c]>>]
  /\ FileSame

\* "Exit" asks about changes and about a missing image, Escape about changes only.
Exit ==
  /\ Shows("menu") /\ FileSame
  /\ IF Dirty \/ editor.noImage THEN editor' = [editor EXCEPT !.at = "confirm"] ELSE Closed
Escape ==
  /\ Shows("menu") /\ FileSame
  /\ IF Dirty THEN editor' = [editor EXCEPT !.at = "confirm"] ELSE Closed
\* Validating, building the image and Ctrl-Q close the editor, and the draft is gone.
Leave == ~Shows("closed") /\ Closed /\ FileSame
Return == Shows("confirm") /\ editor' = [editor EXCEPT !.at = "menu"] /\ FileSame
Discard == Shows("confirm") /\ Dirty /\ Closed /\ FileSame

\* Changes can be rolled back one by one as long as none of them needs another image.
RollbackOffered == ~NeedsRebuild
Rollback ==
  /\ Shows("confirm") /\ RollbackOffered
  /\ \E i \in DOMAIN editor.pending :
       LET rest == RemoveAt(editor.pending, i)
       IN editor' = [editor EXCEPT !.pending = rest, !.draft = Applied(editor.loaded, rest),
                                   !.at = IF rest = <<>> THEN "menu" ELSE "confirm"]
  /\ FileSame

\* configToPersistedYaml: a file without sections stays without them unless a change is about them.
Untouched(pending) == FALSE                                                 \* mutant
TouchesSections(pending) == \E i \in DOMAIN pending : pending[i].type \notin {"source", "command"}
Persisted(c, f, pending) == IF f.expanded \/ TouchesSections(pending) THEN Yaml(c) ELSE DefaultText(c)
\* "Build image and exit" saves too, also when nothing was changed.
Save ==
  /\ Shows("confirm") /\ Closed
  /\ configFile' = Persisted(editor.draft, configFile, editor.pending)
  /\ UNCHANGED <<opens, fileEdits, collapsed>>
ExitUnsaved == Shows("confirm") /\ ~Dirty /\ Closed /\ FileSame

-----------------------------------------------------------------------------
(* The commands, and whoever else edits the file *)

Writes(f) ==
  /\ fileEdits < MaxFileEdits /\ fileEdits' = fileEdits + 1 /\ configFile' = f
  /\ collapsed' = (collapsed \/ (configFile.expanded /\ ~f.expanded)) /\ UNCHANGED <<opens, editor>>
\* /work:config set of a root setting, of a role's field, of a node's role.
SetRoot ==
  \E v \in Values :
    \/ v # "doc-vader" /\ Writes([configFile EXCEPT !.config.source = v])
    \/ /\ v = "doc-vader"
       /\ Writes(IF configFile.expanded THEN Yaml(WithSource(configFile.config, v)) ELSE DefaultText(WithSource(configFile.config, v)))
    \/ Writes([configFile EXCEPT !.config.command = v])
SetRole ==
  /\ configFile.expanded
  /\ \E r \in DOMAIN configFile.config.roles : Writes([configFile EXCEPT !.config.roles[r] = "own"])
SetNode ==
  \E p \in DOMAIN Merged(configFile.config).pipelines, r \in RoleNames :
    Writes(Yaml(Apply(Merged(configFile.config), Change("role", p, r))))
Reset == Writes(DefaultText(DEFAULT_CONFIG))
EditByHand ==
  \/ Writes([configFile EXCEPT !.valid = FALSE])
  \/ Writes([valid |-> TRUE, expanded |-> TRUE, config |-> Imported])

ConfigNext ==
  \/ Open \/ Edit \/ Replace \/ Exit \/ Escape \/ Leave \/ Return \/ Discard \/ Rollback \/ Save \/ ExitUnsaved
  \/ SetRoot \/ SetRole \/ SetNode \/ Reset \/ EditByHand

-----------------------------------------------------------------------------
(* Properties *)

\* What the editor shows is what its listed changes make of the config it loaded, or of the
\* last one it was replaced by: also after a change in the middle was rolled back.
Makes(c, a) == IF a.type = "replace-config" THEN a.config ELSE Apply(c, a)
MadeOf(c, changes) ==
  LET f[n \in 0..Len(changes)] == IF n = 0 THEN c ELSE Makes(f[n - 1], changes[n]) IN f[Len(changes)]
DraftIsItsChanges == ~Shows("closed") => editor.draft = MadeOf(editor.loaded, editor.pending)

\* What is read back after a save is what the editor showed: every setting, every role and the
\* role of every pipeline's node; what comes on top are roles and pipelines of the pack, which a
\* deletion or a renaming does not remove.  Not kept are the sandboxes of roles, which are never
\* written, and the roles and pipelines of a draft whose file lost its sections meanwhile.
SavedIsShown ==
  [][Save /\ configFile' # configFile /\ ~collapsed =>
       LET read == Loaded(configFile')
           shown == editor.draft
       IN /\ Root(read) = Root(shown)
          /\ On(read.pipelines, DOMAIN shown.pipelines) = shown.pipelines
          /\ DOMAIN read.pipelines = DOMAIN shown.pipelines \union DOMAIN DEFAULT_CONFIG.pipelines
          /\ DOMAIN read.roles = DOMAIN shown.roles \union DOMAIN DEFAULT_CONFIG.roles]_configVars

\* Whoever saves has seen what is saved (runConfigEditor, writeRuntimeConfig).
EditorIsHonest == []DraftIsItsChanges /\ SavedIsShown
=============================================================================
