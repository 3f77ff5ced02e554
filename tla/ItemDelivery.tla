----------------------------- MODULE ItemDelivery -----------------------------
(***************************************************************************)
(* What the delivery transaction promises the people who share the target  *)
(* branch: an item enters the branch at most once and on top of everything *)
(* that is already there; nobody is told that an item is published, and no *)
(* workspace of an item is given up, before the branch contains it.        *)
(***************************************************************************)
EXTENDS Sequences, SequencesExt

CONSTANTS Items, Push

VARIABLES
  log,        \* what the target branch contains, oldest first
  told,       \* items reported to their caller as published
  released    \* items whose worktree or branch was given up

vars == <<log, told, released>>

Init == log = <<>> /\ told = {} /\ released = {}

Publish(i) == /\ ~Contains(log, i)
              /\ log' = Append(log, i)
              /\ UNCHANGED <<told, released>>

PushByOthers == /\ log' = Append(log, Push)
                /\ UNCHANGED <<told, released>>

Tell(i) == /\ Contains(log, i)
           /\ told' = told \union {i}
           /\ UNCHANGED <<log, released>>

Release(i) == /\ Contains(log, i)
              /\ released' = released \union {i}
              /\ UNCHANGED <<log, told>>

Next == PushByOthers \/ \E i \in Items : Publish(i) \/ Tell(i) \/ Release(i)

Spec == Init /\ [][Next]_vars
=============================================================================
