---------------------------- MODULE AcceptancePlan ----------------------------
(***************************************************************************)
(* node-acceptance-discovery.js: which scripts of which workspaces a       *)
(* candidate has to pass, and running them.  A directory, a path and a     *)
(* pattern are sequences of segments.  A package is [dir, name, deps,      *)
(* scripts, parses]; parses says that its name and its dependency sections *)
(* can be read.  A repository lists its packages in the order of their     *)
(* directories.                                                            *)
(***************************************************************************)
EXTENDS Filtering, Naturals, Sequences, SequencesExt, Functions, FiniteSets

CONSTANTS
  Repositories,  \* [locks, manager, readable, patterns, root, packages]
  ChangedPaths   \* the lists of changed paths that a plan may be asked for

VARIABLES
  tree,          \* the repository
  plan,          \* what plan answered: [scope, changed, workspaces, commands]
  ran            \* the commands that execute has seen pass
planVars == <<tree, plan, ran>>

ScriptOrder == <<"check", "build", "test", "lint">>
\* A directory sorts before whatever lies in it.
InOrder(packages) == \A i, j \in DOMAIN packages : i < j => ~IsPrefix(packages[j].dir, packages[i].dir)
IsPackage(p) == p.dir \in Seq(STRING) /\ p.scripts \subseteq ToSet(ScriptOrder)
ASSUME AcceptancePlanAssumption ==
  /\ \A r \in Repositories :
       /\ r.packages \in Seq(ToSet(r.packages)) /\ InOrder(r.packages)
       /\ IsPackage(r.root) /\ \A p \in ToSet(r.packages) : IsPackage(p)
  /\ \A changed \in ChangedPaths : changed \in Seq(Seq(STRING))

NoPlan == [scope |-> "none", changed |-> <<>>, workspaces |-> <<>>, commands |-> <<>>]
PlanInit == tree \in Repositories /\ plan = NoPlan /\ ran = <<>>

Manager == [pnpm |-> "pnpm", package |-> "npm", shrinkwrap |-> "npm", yarn |-> "yarn"]

-----------------------------------------------------------------------------
(* Discovery *)

\* validatePackageManager: one lockfile, and no declaration but its manager's.
ManagerIsClear(r) ==
  /\ Cardinality(r.locks) = 1
  /\ r.manager \in {"none"} \union {Manager[l] : l \in r.locks}

\* matchesPattern: * stands for one segment, ** for one or more.
Fits(dir, pattern) ==
  LET f[i \in 1..(Len(dir) + 1), j \in 1..(Len(pattern) + 1)] ==
        IF j > Len(pattern) \/ i > Len(dir) THEN j > Len(pattern) /\ i > Len(dir)
        ELSE IF pattern[j] = "**" THEN \E k \in (i + 1)..(Len(dir) + 1) : f[k, j + 1]
        ELSE pattern[j] \in {"*", dir[i]} /\ f[i + 1, j + 1]
  IN f[1, 1]
Fitting(r, p) == {k \in DOMAIN r.patterns : Fits(p.dir, r.patterns[k])}

\* discoverWorkspaces, or the root when no workspaces are declared.
Workspaces(r) ==
  IF r.patterns = <<>> THEN <<r.root>> ELSE Filtered(r.packages, {p \in ToSet(r.packages) : Fitting(r, p) # {}})
Names(ws) == [k \in DOMAIN ws |-> ws[k].name]
Discovered(r) ==
  /\ \A p \in ToSet(r.packages) : Cardinality(Fitting(r, p)) <= 1
  /\ IsInjective(Names(Workspaces(r)))

\* validateWorkspaceGraph: of the directories in order, none lies in an earlier one.
Apart(ws) == \A i, j \in DOMAIN ws : i < j => ~IsStrictPrefix(ws[i].dir, ws[j].dir)
GraphIsClear(ws) == Apart(ws) /\ \A w \in ToSet(ws) : w.parses

Plannable(r) ==
  ManagerIsClear(r) /\ r.readable /\ Discovered(r) /\ GraphIsClear(Workspaces(r))

-----------------------------------------------------------------------------
(* Planning *)

\* ownerFor: exactly one workspace holds the path.
OwnersOf(ws, path) == {w \in ToSet(ws) : IsPrefix(w.dir, path)}
Owned(ws, changed) == \A k \in DOMAIN changed : Cardinality(OwnersOf(ws, changed[k])) = 1

Add(selected, w) == IF w \in ToSet(selected) THEN selected ELSE Append(selected, w)
AddOwners(ws, changed) ==
  LET f[n \in 0..Len(changed)] ==
        IF n = 0 THEN <<>> ELSE Add(f[n - 1], CHOOSE w \in OwnersOf(ws, changed[n]) : TRUE)
  IN f[Len(changed)]
\* The workspaces, in their order, that depend on s and are not selected yet.
Dependents(ws, selected, s) == Filtered(ws, {w \in ToSet(ws) : w \notin ToSet(selected) /\ s.name \in w.deps})
DirectOnly(ws, selected) ==                                                  \* mutant
  selected \o Filtered(ws, {w \in ToSet(ws) : w \notin ToSet(selected) /\ \E s \in ToSet(selected) : s.name \in w.deps})
\* The list grows while it is walked: whoever depends on the nth gets its turn later.
AddDependents(ws, selected) ==
  LET g[n \in 0..Len(ws)] ==
        IF n = 0 THEN selected
        ELSE IF n > Len(g[n - 1]) THEN g[n - 1]
        ELSE g[n - 1] \o Dependents(ws, g[n - 1], g[n - 1][n])
  IN g[Len(ws)]

\* commandsFor.
CommandsOf(w) ==
  LET todo == Filtered(ScriptOrder, w.scripts) IN [j \in DOMAIN todo |-> <<w.name, todo[j]>>]
CommandsFor(ws) == FlattenSeq([k \in DOMAIN ws |-> CommandsOf(ws[k])])

\* A change that no workspace or more than one owns has no plan.  An integration
\* candidate is checked by the root's scripts, whatever has changed.
PlanImplementation ==
  /\ plan = NoPlan /\ Plannable(tree)
  /\ \E changed \in ChangedPaths :
       LET ws == Workspaces(tree)
           selected == AddDependents(ws, AddOwners(ws, changed))
       IN /\ Owned(ws, changed)
          /\ plan' = [scope |-> "affected-workspaces", changed |-> changed,
                      workspaces |-> Names(selected), commands |-> CommandsFor(selected)]
  /\ UNCHANGED <<tree, ran>>
PlanIntegration ==
  /\ plan = NoPlan /\ Plannable(tree)
  /\ plan' = [NoPlan EXCEPT !.scope = "repository",
                            !.commands = CommandsFor(<<[tree.root EXCEPT !.name = "root"]>>)]
  /\ UNCHANGED <<tree, ran>>

\* execute: one command at a time, the first that is refused ends it.
Execute ==
  /\ Len(ran) < Len(plan.commands)
  /\ ran' = Append(ran, plan.commands[Len(ran) + 1])
  /\ UNCHANGED <<tree, plan>>

PlanNext == PlanImplementation \/ PlanIntegration \/ Execute

-----------------------------------------------------------------------------
(* Properties *)

\* The workspaces that a change reaches: the least set that holds the owners and
\* whatever depends on one of its members.
Reached(ws, changed) ==
  LET owners == {w \in ToSet(ws) : \E k \in DOMAIN changed : IsPrefix(w.dir, changed[k])}
      Closed(S) == \A w \in ToSet(ws) : w.deps \intersect {s.name : s \in S} # {} => w \in S
  IN {w \in ToSet(ws) : \A S \in SUBSET ToSet(ws) : owners \subseteq S /\ Closed(S) => w \in S}

\* A plan for an implementation runs, once and in order, each of the four scripts that a
\* workspace reached by the change has, however long the chain of dependents and also when it
\* is a cycle; no file of the repository has two owners, and none that changed is without
\* (createNodeAcceptanceDiscoveryAdapter).
PlanIsWhole ==
  plan.scope = "affected-workspaces" =>
    LET ws == Workspaces(tree)
        reached == Reached(ws, plan.changed)
    IN /\ ToSet(plan.commands) = UNION {{<<w.name, s>> : s \in w.scripts} : w \in reached}
       /\ IsInjective(plan.commands) /\ IsInjective(plan.workspaces)
       /\ \A i, j \in DOMAIN plan.commands :
            i < j /\ plan.commands[i][1] = plan.commands[j][1] =>
              \E a, b \in 1..4 : a < b /\ plan.commands[i][2] = ScriptOrder[a] /\ plan.commands[j][2] = ScriptOrder[b]
       /\ \A p \in ToSet(tree.packages) : Cardinality({w \in ToSet(ws) : IsPrefix(w.dir, p.dir)}) <= 1
       /\ \A k \in DOMAIN plan.changed : \E w \in reached : IsPrefix(w.dir, plan.changed[k])

\* What execute has seen pass is what was planned, in its order.
AcceptanceIsWhole == PlanIsWhole /\ IsPrefix(ran, plan.commands)
=============================================================================
