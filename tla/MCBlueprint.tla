----------------------------- MODULE MCBlueprint -----------------------------
(***************************************************************************)
(* The blueprint with two runs, three contexts and two findings; a taker   *)
(* and a backlog of two items; and small repositories for acceptance.    *)
(***************************************************************************)
EXTENDS Blueprint, TLC

MCRuns == {"run1", "run2"}

-----------------------------------------------------------------------------
(* Work items: one that may be taken, urgent or not, and one of each reason    *)
(* why it may not.                                                             *)

MCIdOrder == <<"a", "b">>
Item(rank) == [rank |-> rank, status |-> "ready", afk |-> TRUE, hitl |-> FALSE, deps |-> "none"]
MCItems ==
  {Item(0), Item(3), [Item(1) EXCEPT !.hitl = TRUE], [Item(1) EXCEPT !.afk = FALSE],
   [Item(1) EXCEPT !.status = "ambiguous"], [Item(1) EXCEPT !.deps = "open"],
   [Item(1) EXCEPT !.deps = "done"]}
\* In both orders, in part, with an item twice, and none.
MCListings == {<<"a", "b">>, <<"b", "a">>, <<"b">>, <<"a", "b", "a">>, <<>>}

Override(commands) == [file |-> "there", version |-> TRUE, compatible |-> TRUE, commands |-> commands]
MCOverrides ==
  {[Override(<<>>) EXCEPT !.file = f] : f \in {"missing", "unreadable"}} \union
  {[Override(<<>>) EXCEPT !.version = FALSE], [Override(<<>>) EXCEPT !.compatible = FALSE]} \union
  {Override(c) : c \in {"ready" :> <<"items">>, "show" :> <<"item", "{workId}", "--json">>,
                        "show" :> <<"item", "--json">>,
                        "validate" :> <<"check", "{workId}">>, "take" :> <<"take", "{workId}", "--json">>}}

MCOddFields ==
  {<<"schemaVersion", "text">>, <<"workItems", "object">>, <<"id", "empty">>, <<"priority", "text">>,
   <<"status", "empty">>, <<"title", "empty">>, <<"hitl", "text">>, <<"dependencies", "array">>,
   <<"validation", "array">>, <<"isHitl", "text">>, <<"lifecycle", "text">>}

-----------------------------------------------------------------------------
(* Repositories *)

Package(dir, name, deps) ==
  [dir |-> dir, name |-> name, deps |-> deps, scripts |-> {"lint", "check"}, parses |-> TRUE]
Root == [Package(<<>>, "all", {}) EXCEPT !.scripts = {"test", "build"}]
Repository(packages, patterns) ==
  [locks |-> {"pnpm"}, manager |-> "none", readable |-> TRUE, patterns |-> patterns,
   root |-> Root, packages |-> packages]

Each == <<"p", "*">>
Deep == <<"p", "**">>
\* Any dependencies among three packages, also in a cycle.
Depending ==
  {Repository(<<Package(<<"p", "a">>, "x", d), Package(<<"p", "b">>, "y", e), Package(<<"p", "c">>, "z", f)>>, <<Each>>) :
     d \in SUBSET {"y", "z"}, e \in SUBSET {"x", "z"}, f \in SUBSET {"x", "y", "elsewhere"}}
\* Two packages of one name, one in another's directory, patterns that overlap or leave one out.
Shapes ==
  {Repository(<<Package(<<"p", "a">>, "x", {}), Package(d, n, {"x"})>>, q) :
     d \in {<<"p", "a", "in">>, <<"p", "b">>, <<"q">>}, n \in {"x", "y"},
     q \in {<<>>, <<Each>>, <<Deep>>, <<Each, Deep>>, <<<<"q">>, Each>>}}
Plain == Repository(<<Package(<<"p", "a">>, "x", {})>>, <<Each>>)
Unclear ==
  {[Plain EXCEPT !.locks = l, !.manager = m] :
     l \in {{}, {"pnpm"}, {"yarn"}, {"package", "shrinkwrap"}}, m \in {"none", "pnpm", "bad"}} \union
  {[Plain EXCEPT !.readable = FALSE], [Plain EXCEPT !.packages[1].parses = FALSE]}
MCRepositories == Depending \union Shapes \union Unclear

File(dir) == Append(dir, "file")
MCChangedPaths ==
  {<<File(<<"p", "a">>)>>, <<File(<<"p", "b">>), File(<<"p", "a">>)>>, <<File(<<"p", "c">>)>>,
   <<File(<<"p", "a", "in">>)>>, <<File(<<>>)>>, <<>>}
=============================================================================
