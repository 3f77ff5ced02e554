---------------------------- MODULE MCExtensions -----------------------------
(***************************************************************************)
(* A session of two turns, both uploaded or one of them missing, whose     *)
(* directory has another session; and what the new directory has already:  *)
(* nothing, another session, or some of what is moved, once or twice.      *)
(* Three launchers of a handoff stand for the ten: cmux, one before the    *)
(* window systems and one after it.                                        *)
(***************************************************************************)
EXTENDS Extensions

MCLauncherOrder == <<"cmux", "zellij-tab", "ghostty-window">>

Turn(text, at) == [text |-> text, at |-> at, late |-> FALSE]
MCWorking == <<Turn("r", 3)>>
MCVisitors == {Turn("w", 31)}

File(said) == [cwd |-> "from", turns |-> said, aside |-> {Turn("z", 0)}]
Plain == File(<<Turn("p", 1), Turn("q", 2)>>)
Repeated == File(<<Turn("p", 1), Turn("p", 2)>>)
MCChunks == ("q" :> <<"q1", "q2">>) @@ [t \in {"p", "r", "z"} |-> <<t>>]
Both == Memory(<<Turn("p", 11), Turn("q1", 12), Turn("q2", 12)>>)
Shared == Memory(<<Turn("x", 13), Turn("p", 11), Turn("p", 14)>>)
MCSessions ==
  {[file |-> Plain, from |-> Both, to |-> NoMemory],
   [file |-> Repeated, from |-> NoMemory, to |-> Memory(<<Turn("y", 21)>>)],
   [file |-> Repeated, from |-> Shared, to |-> Memory(<<Turn("p", 22), Turn("p", 23)>>)]}

Cmd(kind, current, cut) == [kind |-> kind, current |-> current, merge |-> kind = "move", cut |-> cut]
MCCommands == {Cmd("move", TRUE, 0), Cmd("move", FALSE, 0),
               Cmd("split", TRUE, 0), Cmd("split", FALSE, 2)}
=============================================================================
