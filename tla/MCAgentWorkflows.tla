-------------------------- MODULE MCAgentWorkflows --------------------------
(***************************************************************************)
(* Small workflows: a worktree, or a loop, a gate that may be skipped or   *)
(* is a named pipeline, and a merge of what they made, with every choice   *)
(* of needs.  And plans over three items of which two become the same      *)
(* branch segment, with every defect the validator knows at some depth.    *)
(***************************************************************************)
EXTENDS AgentWorkflows, TLC

V(kind, kids, needs) ==
  [kind |-> kind, kids |-> kids, needs |-> needs, inputs |-> {}, gated |-> FALSE,
   mode |-> "sequential", each |-> <<>>, max |-> 0, targets |-> {}]
Leaf == V("agent", <<>>, {})

MCPipelines == ("one" :> "P") @@ ("two" :> "Q") @@ ("three" :> "T")
\* One calls what its input names, also itself; two calls three, a single leaf.
Named == [P |-> V("composite", <<"R">>, {}),
          R |-> [V("$ref", <<>>, {}) EXCEPT !.targets = {"one", "two", "gone"}],
          Q |-> V("composite", <<"S">>, {}),
          S |-> [V("$ref", <<>>, {}) EXCEPT !.targets = {"three"}],
          T |-> V("composite", <<"t">>, {}), t |-> Leaf]
Tree(f) == f @@ Named

\* Up to two lanes of worktrees, and their merge.
Loop(k, m, e, x) == [V("loop", <<k>>, {}) EXCEPT !.mode = m, !.each = e, !.max = x]
Lanes2 ==
  {Tree([root |-> V("composite", <<"L", "M">>, {}),
         L |-> Loop("w", m, e, x), w |-> V("git.worktree", <<"a">>, {}),
         a |-> [Leaf EXCEPT !.gated = g],
         M |-> V("git.merge", <<>>, {"L"})]) :
     m \in {"parallel", "sequential"}, e \in {<<>>, <<0>>, <<2>>}, x \in {0, 2}, g \in BOOLEAN}
\* Three items for two workers.
Lanes3 ==
  {Tree([root |-> V("composite", <<"L">>, {}), L |-> Loop("l", "parallel", <<3>>, 2),
         l |-> Leaf])}

\* A loop of loops, or of a map that holds a worktree.
Nested ==
  {Tree([root |-> V("composite", <<"L", "M">>, {}),
         L |-> Loop("i", "parallel", <<2>>, 1), i |-> i,
         w |-> V("git.worktree", <<"a">>, {}), a |-> Leaf,
         M |-> V("git.merge", <<>>, {"L"})]) :
     i \in {Loop("w", "sequential", <<1>>, 0), V("iteration", <<"w">>, {}),
            V("composite", <<"w">>, {}), V("iteration", <<>>, {}), V("loop", <<>>, {})}}

\* Any kinds and needs for two nodes beside a merge, listed before or after them.
Pairs ==
  {Tree([root |-> V("composite", o, {}),
         A |-> [V(k, CASE k = "git.worktree" -> <<"a">> [] k = "composite" -> <<"w">> [] OTHER -> <<>>, n)
                  EXCEPT !.targets = {"one", "two"}],
         w |-> V("git.worktree", <<"a">>, {}), a |-> Leaf,
         G |-> [V("agent", <<>>, g) EXCEPT !.gated = TRUE],
         M |-> [V("git.merge", <<>>, m) EXCEPT !.inputs = i]]) :
     o \in {<<"A", "G", "M">>, <<"M", "G", "A">>},
     k \in {"git.worktree", "composite", "agent", "$ref", "unknown"},
     n \in {{}, {"G"}, {"elsewhere"}}, g \in {{}, {"A"}},
     m \in {{"A"}, {"A", "G"}}, i \in {{}, {"A"}}}

MCWorkflows == Lanes2 \union Lanes3 \union Nested \union Pairs

MCSegment == ("a" :> "x") @@ ("b" :> "x") @@ ("c" :> "y")
Iteration(ids, p) == [items |-> [k \in DOMAIN ids |-> [id |-> ids[k]]], parallel |-> p]
Artifact(s, i, a) == [scope |-> s, authors |-> FALSE, odd |-> FALSE, iterations |-> i, actionable |-> a]
Plain == Artifact("none", <<Iteration(<<"a", "b">>, "unsaid"), Iteration(<<"c">>, "unsaid")>>, <<>>)
Forecast(a) == Artifact("forecast", <<Iteration(<<"c">>, "yes")>>, a)
MCArtifacts ==
  {Plain, [Plain EXCEPT !.odd = TRUE], [Plain EXCEPT !.authors = TRUE], Forecast(<<>>), Forecast(<<Plain>>),
   Forecast(<<[Plain EXCEPT !.authors = TRUE]>>), Forecast(<<Forecast(<<Plain>>)>>),
   Artifact("actionable", <<Iteration(<<"b", "c">>, "no")>>, <<>>),
   Artifact("actionable", <<Iteration(<<"blank">>, "no")>>, <<>>)}
MCLivePlans == {Iteration(<<"a", "c">>, "unsaid"), Iteration(<<"b", "a">>, "no"), Iteration(<<>>, "yes")}
=============================================================================
