------------------------------ MODULE PiHandoff ------------------------------
(***************************************************************************)
(* handoff/index.ts: /handoff writes a prompt file and opens a new Pi in   *)
(* the first terminal that takes it.  Which launchers there are depends on *)
(* the environment; each call of a terminal succeeds, fails, or succeeds   *)
(* while its answer is lost (execCmux gives up after a timeout, a detached *)
(* spawn is judged by its exit code).                                      *)
(***************************************************************************)
EXTENDS Naturals, Sequences, SequencesExt, FiniteSets

CONSTANTS
  LauncherOrder,   \* the launchers in the order of LAUNCHER_ORDER, without "manual"
  ReadyAttempts    \* how often cmux is asked for the new surface
ASSUME HandoffAssumption ==
  /\ LauncherOrder \in Seq(STRING) /\ "cmux" \in ToSet(LauncherOrder) /\ ReadyAttempts \in Nat \ {0}
  /\ ToSet(LauncherOrder) \intersect {"none", "custom", "manual", "unknown", "nothing"} = {}

VARIABLES
  env,      \* [present, override, template]: the environment variables and commands
  attempt,  \* [at, tries]: what the handler does
  queue,    \* the launchers still to be tried
  prompt,   \* whether the prompt file is written
  opened,   \* the launchers that started a new Pi
  surfaces, \* cmux surfaces that were opened for it
  told,     \* what the user is told
  lost      \* history: whether an answer was lost
handoffVars == <<env, attempt, queue, prompt, opened, surfaces, told, lost>>

Launchers == ToSet(LauncherOrder)
NoOverride == "none"

HandoffInit ==
  /\ env \in [present : SUBSET (Launchers \union {"custom"}), template : BOOLEAN,
              override : Launchers \union {NoOverride, "custom", "manual", "unknown"}]
  /\ attempt = [at |-> "start", tries |-> 0] /\ queue = <<>> /\ prompt = FALSE
  /\ opened = {} /\ surfaces = 0 /\ told = "nothing" /\ lost = FALSE

\* launch: an override stands alone, and only an unknown one falls through to the
\* template and the launchers in their order.
FallsThrough(selected) == <<selected>> \o LauncherOrder                     \* mutant
Alone(selected) == <<selected>>
LaunchPlan ==
  IF env.override = "manual" THEN <<>>
  ELSE IF env.override \notin {NoOverride, "unknown"} THEN Alone(env.override)
  ELSE (IF env.template THEN <<"custom">> ELSE <<>>) \o LauncherOrder
WritePrompt ==
  /\ attempt.at = "start" /\ prompt' = TRUE /\ queue' = LaunchPlan /\ attempt' = [attempt EXCEPT !.at = "try"]
  /\ UNCHANGED <<env, opened, surfaces, told, lost>>

Try(at) == attempt' = [at |-> at, tries |-> 0]
\* A launcher reports itself, or it is skipped.
Launched(name) == told' = name /\ Try("done") /\ UNCHANGED queue
Skipped == queue' = Tail(queue) /\ Try("try") /\ UNCHANGED told
\* The launcher is skipped as not there, or for "custom" as without a template.
NotThere ==
  /\ attempt.at = "try" /\ queue # <<>>
  /\ Head(queue) \notin env.present \/ (Head(queue) = "custom" /\ ~env.template)
  /\ Skipped /\ UNCHANGED <<env, prompt, opened, surfaces, lost>>

\* One call of a terminal: whether it did something, and whether it says so.
Call(does, says) == lost' = (lost \/ (does /\ ~says))
\* launchZellijTab and its like: runDiag.
RunDiag ==
  /\ attempt.at = "try" /\ queue # <<>> /\ Head(queue) \in env.present \ {"cmux"}
  /\ Head(queue) = "custom" => env.template
  /\ \E does, says \in BOOLEAN :
       /\ says => does
       /\ Call(does, says) /\ opened' = IF does THEN opened \union {Head(queue)} ELSE opened
       /\ IF says THEN Launched(Head(queue)) ELSE Skipped
  /\ UNCHANGED <<env, prompt, surfaces>>

\* launchCmux: identify and list-panes, new-surface, wait for it, respawn-pane, rename-tab.
CmuxIdentify ==
  /\ attempt.at = "try" /\ queue # <<>> /\ Head(queue) = "cmux" /\ "cmux" \in env.present
  /\ (Try("surface") /\ UNCHANGED <<queue, told>>) \/ Skipped
  /\ UNCHANGED <<env, prompt, opened, surfaces, lost>>
CmuxSurface ==
  /\ attempt.at = "surface"
  /\ \E does, says \in BOOLEAN :
       /\ says => does
       /\ Call(does, says) /\ surfaces' = IF does THEN surfaces + 1 ELSE surfaces
       /\ IF says THEN Try("wait") /\ UNCHANGED <<queue, told>> ELSE Skipped
  /\ UNCHANGED <<env, prompt, opened>>
\* The surface is seen, is not there yet, or the panes cannot be listed.
CmuxWait ==
  /\ attempt.at = "wait"
  /\ \/ Try("respawn") /\ UNCHANGED <<queue, told>>
     \/ IF attempt.tries + 1 < ReadyAttempts
        THEN attempt' = [attempt EXCEPT !.tries = @ + 1] /\ UNCHANGED <<queue, told>>
        ELSE Skipped
     \/ Skipped
  /\ UNCHANGED <<env, prompt, opened, surfaces, lost>>
CmuxRespawn ==
  /\ attempt.at = "respawn"
  /\ \E does, says \in BOOLEAN :
       /\ says => does
       /\ Call(does, says) /\ opened' = IF does THEN opened \union {"cmux"} ELSE opened
       /\ IF says THEN Launched("cmux") ELSE Skipped
  /\ UNCHANGED <<env, prompt, surfaces>>

Manual ==
  /\ attempt.at = "try" /\ queue = <<>> /\ told' = "manual" /\ Try("done")
  /\ UNCHANGED <<env, queue, prompt, opened, surfaces, lost>>

HandoffNext ==
  \/ WritePrompt \/ NotThere \/ RunDiag \/ CmuxIdentify \/ CmuxSurface \/ CmuxWait \/ CmuxRespawn \/ Manual

-----------------------------------------------------------------------------
(* Properties *)

\* The user is told of a Pi that was opened, or to start it by hand when none was; only
\* the terminal whose answer was lost may have opened another one.  An override that names a
\* launcher is the only one that ever opens a Pi.
HandoffIsHonest ==
  /\ told \in Launchers \union {"custom"} => told \in opened
  /\ Cardinality(opened \ {told}) > 0 /\ told # "nothing" => lost
  /\ env.override \in Launchers \union {"custom"} => opened \subseteq {env.override}
  /\ env.override = "manual" => opened = {}
  /\ opened # {} => prompt
=============================================================================
