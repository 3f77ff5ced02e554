----------------------------- MODULE PiAutoname -----------------------------
(***************************************************************************)
(* pi-autoname/index.ts: the title of a session, asked of a model after a  *)
(* turn or on command, and the titles that the user gives.  Two refreshes  *)
(* may wait for a title at once: that of turn_end (Pi awaits the handler)  *)
(* and that of a command.  The report of a changed title (Pi's             *)
(* session_info_changed) arrives some time after the change.               *)
(*                                                                         *)
(* A title is a number: 0 for none, then one for each that is given.       *)
(***************************************************************************)
EXTENDS Naturals

CONSTANTS MaxTitles, MaxTurns, MinTurnsBetweenUpdates
ASSUME AutonameAssumption == MaxTitles \in Nat /\ MaxTurns \in Nat /\ MinTurnsBetweenUpdates \in Nat \ {0}

VARIABLES
  mode,          \* "dynamic" or "once"
  title, given,  \* the session's title, titles given so far
  naming,        \* RuntimeState: [auto, owned, turns, attempted]
  waiting,       \* the refreshes that wait for the model
  report,        \* the title of a session_info_changed on its way
  turns,         \* turns so far
  manual         \* history: [title, when]: the user's last title and who waited then
autonameVars == <<mode, title, given, naming, waiting, report, turns, manual>>

AutonameInit ==
  /\ mode \in {"dynamic", "once"} /\ title = 0 /\ given = 0 /\ waiting = {} /\ report = 0 /\ turns = 0
  /\ naming \in [auto : BOOLEAN, owned : {0}, turns : {0}, attempted : {FALSE}]
  /\ manual = [title |-> 0, when |-> {}]

\* suggestSessionName begins: the model's title, or when that fails the fallback, which is never empty.
FreshTitle == given + 1
Waits(who) == waiting' = waiting \union {who}

\* turn_end: an unnamed session is named once; the extension's own title is renewed.
IsOwn == title = naming.owned
AnyTitle == TRUE                                                            \* mutant
Owned == IsOwn
Due(n) == IF title = 0 THEN ~n.attempted
          ELSE mode = "dynamic" /\ Owned /\ n.turns >= MinTurnsBetweenUpdates
TurnEnd ==
  /\ turns < MaxTurns /\ "turn" \notin waiting /\ turns' = turns + 1
  /\ naming' = IF naming.auto THEN [naming EXCEPT !.turns = @ + 1] ELSE naming
  /\ IF naming.auto /\ Due(naming') THEN Waits("turn") ELSE UNCHANGED waiting
  /\ UNCHANGED <<mode, title, given, report, manual>>

\* /autoname refresh and /name refresh, whoever gave the title.
Refresh ==
  /\ "command" \notin waiting /\ Waits("command")
  /\ UNCHANGED <<mode, title, given, naming, report, turns, manual>>
\* auto on, auto off
SwitchAuto ==
  /\ naming' = [naming EXCEPT !.auto = ~@]
  /\ UNCHANGED <<mode, title, given, waiting, report, turns, manual>>

\* refreshName goes on: setName by the extension.
Suggested(who) ==
  /\ who \in waiting /\ given < MaxTitles
  /\ given' = FreshTitle /\ title' = given' /\ waiting' = waiting \ {who} /\ report' = given'
  /\ naming' = [naming EXCEPT !.owned = given', !.turns = 0, !.attempted = TRUE]
  /\ UNCHANGED <<mode, turns, manual>>

\* The user names the session: with the extension's /name, which gives up the title at
\* once, or with Pi's own, which the extension hears of by the report.
UserNames ==
  /\ given < MaxTitles /\ given' = given + 1 /\ title' = given' /\ report' = given'
  /\ naming' \in {naming, [naming EXCEPT !.owned = 0]}
  /\ manual' = [title |-> given', when |-> waiting]
  /\ UNCHANGED <<mode, waiting, turns>>
Reported ==
  /\ report > 0 /\ report' = 0
  /\ naming' = IF report # naming.owned THEN [naming EXCEPT !.owned = 0] ELSE naming
  /\ UNCHANGED <<mode, title, given, waiting, turns, manual>>

AutonameNext ==
  \/ TurnEnd \/ Refresh \/ SwitchAuto \/ UserNames \/ Reported
  \/ \E who \in {"turn", "command"} : Suggested(who)

-----------------------------------------------------------------------------
(* Properties *)

\* An automatic title takes the place of the user's only if the refresh waited for it when
\* the user gave the title (README.md:12 of the extension promises that it never does).
ManualTitleStays ==
  [][title = manual.title /\ title > 0 /\ title' # title /\ "turn" \in waiting /\ waiting' = waiting \ {"turn"}
       => "turn" \in manual.when]_autonameVars
=============================================================================
