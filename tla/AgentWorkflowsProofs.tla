------------------------ MODULE AgentWorkflowsProofs ------------------------
(***************************************************************************)
(* That no failure in a workflow's graph is swallowed and merges take only *)
(* finished work, for any workflows and pipelines; that agents get the     *)
(* image they asked for, for any number of lanes, roles, dispatched        *)
(* agents, versions of the scaffold and faults; that a pipeline's record   *)
(* tells how each lane went; and that the lanes of any number of processes *)
(* are their own.  The lanes of parallel loops go on in any order; the     *)
(* pipeline, the roles, the child processes and both rebuilds run at once. *)
(***************************************************************************)
EXTENDS AgentWorkflows, FilteringProofs

-----------------------------------------------------------------------------
(* The graph *)

\* A frame is a record; its path leads to it from the frame that began it.
Ids == DOMAIN wf
Paths == Seq(Ids \X Nat)
Frames(f) ==
  /\ f = [node |-> f.node, refs |-> f.refs, needs |-> f.needs, phase |-> f.phase, order |-> f.order,
          status |-> f.status, result |-> f.result, why |-> f.why]
  /\ f.node \in Ids /\ f.refs \in Seq(DOMAIN Pipelines) /\ Len(f.refs) <= MaxDepth
  /\ f.order \in Seq(Ids) /\ f.status \in Statuses /\ f.phase \in Phases /\ f.why \in Reasons
  /\ f.status = "live" <=> f.phase # "ended"
FramesTyped ==
  /\ wf \in Workflows /\ Root \in DOMAIN frames /\ graphFaults \in 0..GraphFaults
  /\ \A p \in DOMAIN frames :
       /\ p \in Paths /\ p # <<>> /\ (Len(p) > 1 => Front(p) \in DOMAIN frames)
       /\ Frames(frames[p])

\* What a frame began, by its phase: nothing before its body, in its body the entries that it
\* has an answer from and at most one more, or the iterations so far; later all have ended.
Idle(p) == \A q \in Children(p) : ~Live(q)
Well(p) == \A q \in Children(p) : ~Live(q) /\ frames[q].status # "failed"
MapKids(p) ==
  /\ \A q \in Children(p) :
       /\ q = Kid(p, Last(q)[1], 0) /\ Last(q)[1] \in ToSet(Node(p).kids)
       /\ Last(q)[1] \in Ordered(p) => ~Live(q) /\ frames[q].status # "failed"
  /\ \A q, r \in Children(p) : Last(q)[1] \notin Ordered(p) /\ Last(r)[1] \notin Ordered(p) => q = r
LoopKids(p) ==
  /\ IsFiniteSet(Children(p))
  /\ Children(p) # {} => /\ LoopIsDefined(Node(p))
                         /\ Children(p) = {Kid(p, Node(p).kids[1], i) : i \in 1..Cardinality(Children(p))}
Begun(p) ==
  /\ frames[p].phase \in {"entering", "before"} => Children(p) = {}
  /\ frames[p].phase = "body" =>
       /\ Node(p).kind \in Owners => MapKids(p)
       /\ Node(p).kind = "loop" => LoopKids(p)
       /\ Node(p).kind \notin Owners \union {"loop"} => Children(p) = {}
  /\ frames[p].phase = "after" => Well(p)
  /\ frames[p].phase \in {"onError", "ended"} => Idle(p)
  /\ frames[p].status \in {"succeeded", "skipped"} => Well(p)
GraphInv == FramesTyped /\ \A p \in DOMAIN frames : Begun(p)

-----------------------------------------------------------------------------
(* Paths *)

LEMMA PathAppend ==
  ASSUME NEW S, NEW p \in Seq(S), NEW e \in S
  PROVE  /\ Append(p, e) \in Seq(S) /\ Append(p, e) # <<>> /\ Len(Append(p, e)) = Len(p) + 1
         /\ Front(Append(p, e)) = p /\ Last(Append(p, e)) = e /\ Len(p) \in Nat
<1>1. /\ Append(p, e) \in Seq(S) /\ Append(p, e) # <<>> /\ Len(Append(p, e)) = Len(p) + 1
      /\ \A i \in 1..Len(p) : Append(p, e)[i] = p[i]
      /\ Append(p, e)[Len(p) + 1] = e /\ Len(p) \in Nat
  BY AppendProperties, LenProperties
<1>2. Last(Append(p, e)) = e
  BY <1>1 DEF Last
<1>3. Front(Append(p, e)) = p
  <2> DEFINE t == SubSeq(Append(p, e), 1, Len(p))
  <2>1. t \in Seq(S) /\ Len(t) = Len(p) /\ \A i \in 1..Len(p) : t[i] = p[i]
    BY <1>1
  <2>2. t = p
    BY <2>1, SeqEqual
  <2>3. Front(Append(p, e)) = t
    BY <1>1 DEF Front
  <2> QED
    BY <2>2, <2>3
<1> QED
  BY <1>1, <1>2, <1>3

\* The entry that executeNodeMap takes next is ready.
LEMMA NextIsReady ==
  ASSUME FramesTyped, NEW p \in DOMAIN frames, Ready(p) # {}
  PROVE  NextKid(p) \in Ready(p)
<1> DEFINE kids == Node(p).kids
<1>1. kids \in Seq(Ids)
  BY GraphAssumption DEF FramesTyped, Frames, Node, Ids
<1>2. \A k \in Ready(p) : Turn(p, k) \in Nat
  <2> TAKE k \in Ready(p)
  <2>1. \E i \in DOMAIN kids : kids[i] = k
    BY DEF Ready, ToSet
  <2>2. Position(p, k) \in DOMAIN kids
    BY <2>1 DEF Position
  <2>3. Position(p, k) \in Nat /\ Len(kids) \in Nat
    BY <1>1, <2>2
  <2> QED
    BY <2>3 DEF Turn
<1> DEFINE T == {Turn(p, k) : k \in Ready(p)}
<1>3. PICK x \in T : \A y \in T : x =< y
  <2>1. T \in SUBSET Nat /\ T # {}
    BY <1>2
  <2> HIDE DEF T
  <2> QED
    BY <2>1, LeastExists
<1>4. \E k \in Ready(p) : \A o \in Ready(p) : Turn(p, k) <= Turn(p, o)
  BY <1>3
<1> QED
  BY <1>4 DEF NextKid

-----------------------------------------------------------------------------
(* What a step does to its frame *)

Changes(p) == DOMAIN frames' = DOMAIN frames /\ \A r \in DOMAIN frames : r # p => frames'[r] = frames[r]
Passes(p, phase, st) ==
  /\ Changes(p) /\ Frames(frames'[p]) /\ frames'[p].node = frames[p].node
  /\ frames'[p].phase = phase /\ frames'[p].status = st

\* A frame after an update of the fields that a step may change.
Amended(f, phase, st, r, why) ==
  [node |-> f.node, refs |-> f.refs, needs |-> f.needs, phase |-> phase, order |-> f.order,
   status |-> st, result |-> r, why |-> why]
LEMMA Updates ==
  ASSUME NEW f, f = Amended(f, f.phase, f.status, f.result, f.why)
  PROVE  \A x, s, w :
           /\ [f EXCEPT !.phase = x] = Amended(f, x, f.status, f.result, f.why)
           /\ [f EXCEPT !.phase = x, !.why = w] = Amended(f, x, f.status, f.result, w)
           /\ [f EXCEPT !.phase = x, !.result = w] = Amended(f, x, f.status, w, f.why)
           /\ [f EXCEPT !.status = s, !.phase = x] = Amended(f, x, s, f.result, f.why)
           /\ [f EXCEPT !.status = s, !.phase = x, !.why = w] = Amended(f, x, s, f.result, w)
           /\ [f EXCEPT !.status = s, !.phase = x, !.result = w] = Amended(f, x, s, w, f.why)
<1> TAKE x, s, w
<1>1. ASSUME NEW g, g = Amended(g, g.phase, g.status, g.result, g.why)
      PROVE  /\ [g EXCEPT !.status = s] = Amended(g, g.phase, s, g.result, g.why)
             /\ [g EXCEPT !.phase = x] = Amended(g, x, g.status, g.result, g.why)
             /\ [g EXCEPT !.why = w] = Amended(g, g.phase, g.status, g.result, w)
             /\ [g EXCEPT !.result = w] = Amended(g, g.phase, g.status, w, g.why)
  BY <1>1 DEF Amended
<1> DEFINE Same(g, y, t) ==
             /\ g = Amended(g, g.phase, g.status, g.result, g.why) /\ g.phase = y /\ g.status = t
             /\ g.node = f.node /\ g.refs = f.refs /\ g.needs = f.needs /\ g.order = f.order
             /\ g.result = f.result /\ g.why = f.why
           a == [f EXCEPT !.status = s]
           b == [a EXCEPT !.phase = x]
           c == [f EXCEPT !.phase = x]
<1>2. a = Amended(f, f.phase, s, f.result, f.why) /\ c = Amended(f, x, f.status, f.result, f.why)
  BY <1>1
<1> HIDE DEF a, c
<1>3. Same(a, f.phase, s) /\ Same(c, x, f.status)
  BY <1>2 DEF Amended
<1>4. b = Amended(f, x, s, f.result, f.why)
  <2>1. b = Amended(a, x, a.status, a.result, a.why)
    BY <1>1, <1>3
  <2> QED
    BY <1>3, <2>1 DEF Amended
<1> HIDE DEF b
<1>5. Same(b, x, s)
  BY <1>4 DEF Amended
<1>6. [b EXCEPT !.why = w] = Amended(f, x, s, f.result, w) /\ [b EXCEPT !.result = w] = Amended(f, x, s, w, f.why)
  <2>1. [b EXCEPT !.why = w] = Amended(b, b.phase, b.status, b.result, w)
        /\ [b EXCEPT !.result = w] = Amended(b, b.phase, b.status, w, b.why)
    BY <1>1, <1>5
  <2> QED
    BY <1>5, <2>1 DEF Amended
<1>7. [c EXCEPT !.why = w] = Amended(f, x, f.status, f.result, w)
      /\ [c EXCEPT !.result = w] = Amended(f, x, f.status, w, f.why)
  <2>1. [c EXCEPT !.why = w] = Amended(c, c.phase, c.status, c.result, w)
        /\ [c EXCEPT !.result = w] = Amended(c, c.phase, c.status, w, c.why)
    BY <1>1, <1>3
  <2> QED
    BY <1>3, <2>1 DEF Amended
<1> QED
  BY <1>2, <1>4, <1>6, <1>7 DEF a, b, c

\* The ways in which a frame is amended.
To(p, phase, st, r, why) == Changes(p) /\ frames'[p] = Amended(frames[p], phase, st, r, why)
LEMMA Amends ==
  ASSUME FramesTyped, NEW p \in DOMAIN frames, Live(p)
  PROVE  LET f == frames[p]
         IN /\ \A x : Set(p, x) => To(p, x, "live", f.result, f.why)
            /\ \A s : End(p, s) => To(p, "ended", s, f.result, f.why)
            /\ \A w, x : Throw(p, w, x) =>
                 To(p, "ended", "failed", f.result, w) \/ (x # "ended" /\ To(p, x, "live", f.result, w))
            /\ \A r : Return(p, r) => To(p, "ended", "succeeded", r, f.why) \/ To(p, "after", "live", r, f.why)
<1> DEFINE f == frames[p]
<1>1. f = Amended(f, f.phase, f.status, f.result, f.why) /\ f.status = "live"
  BY DEF FramesTyped, Frames, Live, Amended
<1> DEFINE to(phase, st, r, why) == Changes(p) /\ frames'[p] = Amended(f, phase, st, r, why)
<1> HIDE DEF f
<1>3. \A x, s, w :
        /\ [f EXCEPT !.phase = x] = Amended(f, x, f.status, f.result, f.why)
        /\ [f EXCEPT !.phase = x, !.why = w] = Amended(f, x, f.status, f.result, w)
        /\ [f EXCEPT !.phase = x, !.result = w] = Amended(f, x, f.status, w, f.why)
        /\ [f EXCEPT !.status = s, !.phase = x] = Amended(f, x, s, f.result, f.why)
        /\ [f EXCEPT !.status = s, !.phase = x, !.why = w] = Amended(f, x, s, f.result, w)
        /\ [f EXCEPT !.status = s, !.phase = x, !.result = w] = Amended(f, x, s, w, f.why)
  BY <1>1, Updates
<1>4. /\ \A x : Set(p, x) => to(x, f.status, f.result, f.why)
      /\ \A s : End(p, s) => to("ended", s, f.result, f.why)
  <2>1. ASSUME NEW x, Set(p, x) PROVE to(x, f.status, f.result, f.why)
    <3>1. Changes(p) /\ frames'[p] = [f EXCEPT !.phase = x]
      BY <2>1 DEF Set, Changes, f
    <3> QED
      BY <1>3, <3>1
  <2>2. ASSUME NEW s, End(p, s) PROVE to("ended", s, f.result, f.why)
    <3>1. Changes(p) /\ frames'[p] = [f EXCEPT !.status = s, !.phase = "ended"]
      BY <2>2 DEF End, Changes, f
    <3> QED
      BY <1>3, <3>1
  <2> QED
    BY <2>1, <2>2
<1>5. \A w, x : Throw(p, w, x) => to("ended", "failed", f.result, w) \/ (x # "ended" /\ to(x, f.status, f.result, w))
  <2> SUFFICES ASSUME NEW w, NEW x, Throw(p, w, x)
               PROVE  to("ended", "failed", f.result, w) \/ (x # "ended" /\ to(x, f.status, f.result, w))
    OBVIOUS
  <2>1. /\ Changes(p)
        /\ \/ frames'[p] = [f EXCEPT !.status = "failed", !.phase = "ended", !.why = w]
           \/ x # "ended" /\ frames'[p] = [f EXCEPT !.phase = x, !.why = w]
    <3>1. CASE x = "ended" \/ Node(p).kind = "iteration"
      BY <3>1 DEF Throw, Changes, f
    <3>2. CASE ~(x = "ended" \/ Node(p).kind = "iteration")
      BY <3>2 DEF Throw, Changes, f
    <3> QED
      BY <3>1, <3>2
  <2>2. CASE frames'[p] = [f EXCEPT !.status = "failed", !.phase = "ended", !.why = w]
    <3>1. [f EXCEPT !.status = "failed", !.phase = "ended", !.why = w] = Amended(f, "ended", "failed", f.result, w)
      <4>1. \A y, z, u : [f EXCEPT !.status = z, !.phase = y, !.why = u] = Amended(f, y, z, f.result, u)
        BY <1>3
      <4> QED
        BY <4>1
    <3> QED
      BY <2>1, <2>2, <3>1
  <2>3. CASE x # "ended" /\ frames'[p] = [f EXCEPT !.phase = x, !.why = w]
    BY <1>3, <2>1, <2>3
  <2> QED
    BY <2>1, <2>2, <2>3
<1>6. \A r : Return(p, r) => to("ended", "succeeded", r, f.why) \/ to("after", f.status, r, f.why)
  <2> SUFFICES ASSUME NEW r, Return(p, r)
               PROVE  to("ended", "succeeded", r, f.why) \/ to("after", f.status, r, f.why)
    OBVIOUS
  <2>1. /\ Changes(p)
        /\ \/ frames'[p] = [f EXCEPT !.status = "succeeded", !.phase = "ended", !.result = r]
           \/ frames'[p] = [f EXCEPT !.phase = "after", !.result = r]
    BY DEF Return, Changes, f
  <2>2. CASE frames'[p] = [f EXCEPT !.status = "succeeded", !.phase = "ended", !.result = r]
    BY <1>3, <2>1, <2>2
  <2>3. CASE frames'[p] = [f EXCEPT !.phase = "after", !.result = r]
    BY <1>3, <2>1, <2>3
  <2> QED
    BY <2>1, <2>2, <2>3
<1> QED
  BY <1>1, <1>4, <1>5, <1>6 DEF To, f

LEMMA Passing ==
  ASSUME FramesTyped, wf' = wf, NEW p \in DOMAIN frames, Live(p)
  PROVE  /\ \A phase \in Phases \ {"ended"} : Set(p, phase) => Passes(p, phase, "live")
         /\ \A s \in Statuses \ {"live"} : End(p, s) => Passes(p, "ended", s)
         /\ \A w \in Reasons, to \in {"ended", "onError"} : Throw(p, w, to) =>
              Passes(p, "ended", "failed") \/ (to = "onError" /\ Passes(p, "onError", "live"))
         /\ \A r : Return(p, r) => Passes(p, "ended", "succeeded") \/ Passes(p, "after", "live")
<1> DEFINE f == frames[p]
<1>1. /\ f = Amended(f, f.phase, f.status, f.result, f.why)
      /\ f.node \in Ids /\ f.refs \in Seq(DOMAIN Pipelines) /\ Len(f.refs) <= MaxDepth
      /\ f.order \in Seq(Ids) /\ f.status = "live" /\ f.phase \in Phases \ {"ended"} /\ f.why \in Reasons
  BY DEF FramesTyped, Frames, Live, Amended
<1>2. ASSUME NEW phase \in Phases, NEW st \in Statuses, NEW r, NEW why \in Reasons,
             To(p, phase, st, r, why), st = "live" <=> phase # "ended"
      PROVE  Passes(p, phase, st)
  <2> DEFINE g == frames'[p]
  <2>1. /\ g = [node |-> f.node, refs |-> f.refs, needs |-> f.needs, phase |-> phase, order |-> f.order,
                status |-> st, result |-> r, why |-> why]
        /\ Changes(p)
    BY <1>2 DEF To, Amended
  <2> HIDE DEF g
  <2>2. /\ g.node = f.node /\ g.refs = f.refs /\ g.needs = f.needs /\ g.phase = phase /\ g.order = f.order
        /\ g.status = st /\ g.result = r /\ g.why = why
    BY <2>1
  <2>3. Frames(g)
    BY <1>1, <1>2, <2>1, <2>2 DEF Frames
  <2> QED
    BY <2>1, <2>2, <2>3 DEF Passes, g
<1> HIDE DEF f
<1>3. /\ \A x : Set(p, x) => To(p, x, "live", f.result, f.why)
      /\ \A s : End(p, s) => To(p, "ended", s, f.result, f.why)
      /\ \A w, x : Throw(p, w, x) =>
           To(p, "ended", "failed", f.result, w) \/ (x # "ended" /\ To(p, x, "live", f.result, w))
      /\ \A r : Return(p, r) => To(p, "ended", "succeeded", r, f.why) \/ To(p, "after", "live", r, f.why)
  BY Amends DEF f
<1> QED
  BY <1>1, <1>2, <1>3 DEF Phases, Statuses

-----------------------------------------------------------------------------
(* What it does to the tree *)

\* A frame goes on before its body, takes an answer, leaves its body with all children well or
\* with a failure, or ends.
Goes(p) ==
  LET f == frames[p]
      g == frames'[p]
  IN \/ /\ f.phase \in {"entering", "before"}
     \/ /\ f.phase = "body" /\ g.phase = "body" /\ g.node = f.node /\ Node(p).kind \in Owners
        /\ \E q \in Children(p) : /\ ~Live(q) /\ frames[q].status # "failed"
                                  /\ g.order = Append(f.order, Last(q)[1])
     \/ /\ f.phase = "body" /\ g.phase \in {"after", "ended"} /\ Well(p)
     \/ /\ f.phase = "body" /\ Idle(p)
        /\ g.phase = "onError" \/ (g.phase = "ended" /\ g.status = "failed")
     \/ /\ f.phase = "after" /\ g.phase \in {"onError", "ended"}
     \/ /\ f.phase = "onError" /\ g.phase = "ended" /\ g.status = "failed"

LEMMA NoKids ==
  ASSUME NEW p, Children(p) = {}
  PROVE  LoopKids(p) /\ MapKids(p) /\ Idle(p) /\ Well(p)
BY FS_EmptySet DEF LoopKids, MapKids, Idle, Well

LEMMA GoesOn ==
  ASSUME GraphInv, wf' = wf, graphFaults' \in 0..GraphFaults, NEW p \in DOMAIN frames, Live(p),
         Changes(p), Frames(frames'[p]), Goes(p)
  PROVE  GraphInv'
<1>1. FramesTyped'
  BY DEF GraphInv, FramesTyped, Changes, Frames, Ids, Paths, Statuses, Phases
<1>2. \A r : Children(r)' = Children(r)
  BY DEF Children, Changes
<1>3. ASSUME NEW r \in DOMAIN frames, r # p
      PROVE  Begun(r)'
  <2>1. frames'[r] = frames[r] /\ Node(r)' = Node(r) /\ Ordered(r)' = Ordered(r) /\ Begun(r) /\ Frames(frames[r])
    BY <1>3 DEF Changes, Node, Ordered, GraphInv, FramesTyped
  <2>2. \A q \in Children(r) : q # p => frames'[q] = frames[q] /\ Live(q)' = Live(q)
    BY DEF Changes, Live, Children
  <2>3. CASE frames[r].phase = "body"
    <3>1. Node(r).kind \in Owners => MapKids(r)'
      <4> SUFFICES ASSUME Node(r).kind \in Owners
                   PROVE  MapKids(r)'
        OBVIOUS
      <4>1. MapKids(r)
        BY <2>1, <2>3 DEF Begun
      <4>2. p \in Children(r) => Last(p)[1] \notin Ordered(r)
        BY <4>1 DEF MapKids
      <4> QED
        BY <1>2, <2>1, <2>2, <4>1, <4>2 DEF MapKids
    <3>2. Node(r).kind = "loop" => LoopKids(r)'
      BY <1>2, <2>1, <2>3 DEF Begun, LoopKids
    <3>3. Frames(frames[r]) => frames[r].status = "live"
      BY <2>3 DEF Frames
    <3> QED
      BY <1>2, <2>1, <2>3, <3>1, <3>2, <3>3 DEF Begun
  <2>4. CASE frames[r].phase # "body"
    <3>1. Idle(r)
      BY <2>1, <2>4 DEF Begun, Frames, Phases, Idle, Well
    <3>2. p \notin Children(r)
      BY <3>1 DEF Idle
    <3>3. Idle(r)' = Idle(r) /\ Well(r)' = Well(r)
      BY <1>2, <2>2, <3>2 DEF Idle, Well
    <3> QED
      BY <1>2, <2>1, <2>4, <3>3 DEF Begun
  <2> QED
    BY <2>3, <2>4
<1>4. Begun(p)'
  <2>1. \A q \in Children(p) : q # p
    BY DEF Children
  <2>2. \A q \in Children(p) : frames'[q] = frames[q] /\ Live(q)' = Live(q)
    BY <2>1 DEF Changes, Live, Children
  <2>3. Idle(p)' = Idle(p) /\ Well(p)' = Well(p)
    BY <1>2, <2>2 DEF Idle, Well
  <2>4. Begun(p) /\ Frames(frames[p])
    BY DEF GraphInv, FramesTyped
  <2>5. (frames'[p].status = "live" <=> frames'[p].phase # "ended") /\ frames'[p].phase \in Phases
    BY DEF Frames
  <2>6. CASE frames[p].phase \in {"entering", "before"}
    <3>1. Children(p)' = {}
      BY <1>2, <2>4, <2>6 DEF Begun
    <3>2. LoopKids(p)' /\ MapKids(p)' /\ Idle(p)' /\ Well(p)'
      BY <3>1, FS_EmptySet DEF LoopKids, MapKids, Idle, Well
    <3> QED
      BY <3>1, <3>2 DEF Begun
  <2>7. CASE frames[p].phase = "body" /\ frames'[p].phase = "body"
    <3>1. /\ frames'[p].node = frames[p].node /\ Node(p).kind \in Owners
          /\ \E q \in Children(p) : /\ ~Live(q) /\ frames[q].status # "failed"
                                    /\ frames'[p].order = Append(frames[p].order, Last(q)[1])
      BY <2>7 DEF Goes
    <3>2. PICK q \in Children(p) : /\ ~Live(q) /\ frames[q].status # "failed"
                                   /\ frames'[p].order = Append(frames[p].order, Last(q)[1])
      BY <3>1
    <3>3. MapKids(p)
      BY <2>4, <2>7, <3>1 DEF Begun
    <3>4. Node(p)' = Node(p)
      BY <3>1 DEF Node
    <3>5. Last(q)[1] \in Ids /\ frames[p].order \in Seq(Ids)
      <4>1. Node(p).kids \in Seq(Ids)
        BY <2>4, GraphAssumption DEF GraphInv, FramesTyped, Frames, Node, Ids
      <4>2. ToSet(Node(p).kids) \subseteq Ids
        BY <4>1 DEF ToSet
      <4> QED
        BY <2>4, <3>3, <4>2 DEF MapKids, Frames
    <3>6. Ordered(p)' = Ordered(p) \union {Last(q)[1]}
      <4> DEFINE s == frames[p].order
      <4>1. frames'[p].order = Append(s, Last(q)[1]) /\ s \in Seq(Ids) /\ Last(q)[1] \in Ids
        BY <3>2, <3>5
      <4> HIDE DEF s
      <4>2. DOMAIN Append(s, Last(q)[1]) = DOMAIN s \union {Len(s) + 1} /\ Len(s) + 1 \notin DOMAIN s
        BY <4>1
      <4>3. \A i \in DOMAIN s : Append(s, Last(q)[1])[i] = s[i]
        BY <4>1
      <4>4. Append(s, Last(q)[1])[Len(s) + 1] = Last(q)[1]
        BY <4>1
      <4>5. ToSet(Append(s, Last(q)[1])) = ToSet(s) \union {Last(q)[1]}
        BY <4>2, <4>3, <4>4 DEF ToSet
      <4> QED
        BY <4>1, <4>5 DEF Ordered, s
    <3>7. MapKids(p)'
      BY <1>2, <2>2, <3>2, <3>3, <3>4, <3>6 DEF MapKids
    <3>8. Node(p)'.kind # "loop"
      BY <3>1, <3>4 DEF Owners
    <3> QED
      BY <2>5, <2>7, <3>1, <3>4, <3>7, <3>8 DEF Begun
  <2>8. CASE frames[p].phase = "body" /\ frames'[p].phase # "body"
    BY <1>2, <2>3, <2>5, <2>8 DEF Goes, Begun, Idle, Well
  <2>9. CASE frames[p].phase = "after"
    <3>1. Well(p)' /\ Idle(p)'
      BY <2>3, <2>4, <2>9 DEF Begun, Well, Idle
    <3> QED
      BY <2>9, <3>1 DEF Goes, Begun
  <2>10. CASE frames[p].phase = "onError"
    BY <2>3, <2>4, <2>10 DEF Goes, Begun
  <2> QED
    BY <2>6, <2>7, <2>8, <2>9, <2>10 DEF Goes
<1> QED
  BY <1>1, <1>3, <1>4 DEF GraphInv, Changes

\* A child that is begun next is not there yet.
LEMMA NotBegun ==
  ASSUME GraphInv, NEW p \in DOMAIN frames, At(p, "body"), NEW k \in Ids, NEW i \in Nat,
         \/ /\ Node(p).kind \in Owners /\ i = 0 /\ k \in ToSet(Node(p).kids) \ Ordered(p)
            /\ \A q \in Children(p) : Last(q)[1] \in Ordered(p)
         \/ /\ Node(p).kind = "loop" /\ LoopIsDefined(Node(p)) /\ k = Node(p).kids[1]
            /\ i = Cardinality(Children(p)) + 1
  PROVE  Kid(p, k, i) \notin DOMAIN frames
<1> DEFINE new == Kid(p, k, i)
<1>1. /\ new \in Paths /\ new # <<>> /\ Len(new) = Len(p) + 1 /\ Front(new) = p /\ Last(new) = <<k, i>>
      /\ Len(p) \in Nat \ {0} /\ p \in Paths
  <2>1. p \in Paths /\ p # <<>> /\ <<k, i>> \in Ids \X Nat
    BY DEF GraphInv, FramesTyped
  <2>2. /\ new \in Paths /\ new # <<>> /\ Len(new) = Len(p) + 1 /\ Front(new) = p /\ Last(new) = <<k, i>>
        /\ Len(p) \in Nat
    BY <2>1, PathAppend DEF Paths, Kid
  <2>3. Len(p) # 0
    BY <2>1 DEF Paths
  <2> QED
    BY <2>1, <2>2, <2>3
<1>2. \A j, l \in Nat : Kid(p, k, j) = Kid(p, k, l) => j = l
  <2> TAKE j, l \in Nat
  <2>1. p \in Seq(Ids \X Nat) /\ <<k, j>> \in Ids \X Nat /\ <<k, l>> \in Ids \X Nat
    BY <1>1 DEF Paths
  <2>2. Last(Kid(p, k, j)) = <<k, j>> /\ Last(Kid(p, k, l)) = <<k, l>>
    BY <2>1, PathAppend DEF Kid
  <2> QED
    BY <2>2
<1>3. Frames(frames[p]) /\ Begun(p) /\ frames[p].phase = "body" /\ Live(p)
  BY DEF GraphInv, FramesTyped, At
<1>4. new \notin Children(p)
  <2>1. CASE Node(p).kind \in Owners
    BY <1>1, <2>1 DEF Owners
  <2>2. CASE Node(p).kind = "loop"
    <3>1. i = Cardinality(Children(p)) + 1 /\ k = Node(p).kids[1] /\ LoopKids(p)
      BY <1>3, <2>2 DEF Begun, Owners
    <3>2. Cardinality(Children(p)) \in Nat
      BY <3>1, FS_CardinalityType DEF LoopKids
    <3>3. Children(p) = {} \/ Children(p) = {Kid(p, k, j) : j \in 1..Cardinality(Children(p))}
      BY <3>1 DEF LoopKids
    <3> QED
      BY <1>2, <3>1, <3>2, <3>3
  <2> QED
    BY <2>1, <2>2
<1>5. new \notin DOMAIN frames
  BY <1>1, <1>4 DEF Children, Kid, Front
<1> QED
  BY <1>5

\* A frame begins a child that it has not begun yet.
LEMMA BeginsChild ==
  ASSUME GraphInv, wf' = wf, graphFaults' = graphFaults, NEW p \in DOMAIN frames, At(p, "body"),
         NEW k \in Ids, NEW i \in Nat, NEW needs, Begin(p, Kid(p, k, i), k, needs),
         \/ /\ Node(p).kind \in Owners /\ i = 0 /\ k \in ToSet(Node(p).kids) \ Ordered(p)
            /\ \A q \in Children(p) : Last(q)[1] \in Ordered(p)
         \/ /\ Node(p).kind = "loop" /\ LoopIsDefined(Node(p)) /\ k = Node(p).kids[1]
            /\ i = Cardinality(Children(p)) + 1
  PROVE  GraphInv'
<1> DEFINE new == Kid(p, k, i)
<1>1. /\ new \in Paths /\ new # <<>> /\ Len(new) = Len(p) + 1 /\ Front(new) = p /\ Last(new) = <<k, i>>
      /\ Len(p) \in Nat \ {0} /\ p \in Paths
  <2>1. p \in Paths /\ p # <<>> /\ <<k, i>> \in Ids \X Nat
    BY DEF GraphInv, FramesTyped
  <2>2. /\ new \in Paths /\ new # <<>> /\ Len(new) = Len(p) + 1 /\ Front(new) = p /\ Last(new) = <<k, i>>
        /\ Len(p) \in Nat
    BY <2>1, PathAppend DEF Paths, Kid
  <2>3. Len(p) # 0
    BY <2>1 DEF Paths
  <2> QED
    BY <2>1, <2>2, <2>3
<1>3. Frames(frames[p]) /\ Begun(p) /\ frames[p].phase = "body" /\ Live(p)
  BY DEF GraphInv, FramesTyped, At
<1>5. new \notin DOMAIN frames
  BY NotBegun
<1>4. new \notin Children(p)
  BY <1>5 DEF Children
<1>6. /\ DOMAIN frames' = DOMAIN frames \union {new}
      /\ \A r \in DOMAIN frames : frames'[r] = frames[r]
      /\ frames'[new] = Frame(k, frames[p].refs, needs)
  BY <1>5 DEF Begin
<1>7. Frames(frames'[new])
  <2>1. frames'[new] = [node |-> k, refs |-> frames[p].refs, needs |-> needs, phase |-> "entering", order |-> <<>>,
                        status |-> "live", result |-> NoResult, why |-> "none"]
    BY <1>6 DEF Frame
  <2>2. frames[p].refs \in Seq(DOMAIN Pipelines) /\ Len(frames[p].refs) <= MaxDepth
    BY <1>3 DEF Frames
  <2>3. <<>> \in Seq(Ids)
    OBVIOUS
  <2> QED
    BY <2>1, <2>2, <2>3 DEF Frames, Statuses, Phases, Reasons
<1>8. FramesTyped'
  <2>1. \A r \in DOMAIN frames : Frames(frames[r])' /\ Frames(frames[r])
    BY <1>6 DEF GraphInv, FramesTyped, Frames, Ids
  <2>2. Frames(frames[new])'
    BY <1>7 DEF Frames, Ids
  <2>3. Paths' = Paths
    BY DEF Paths, Ids
  <2>4. \A r \in DOMAIN frames' : r \in DOMAIN frames \/ r = new
    BY <1>6
  <2>5. \A r \in DOMAIN frames' :
          /\ r \in Paths /\ r # <<>> /\ (Len(r) > 1 => Front(r) \in DOMAIN frames')
    BY <1>1, <1>6, <2>4 DEF GraphInv, FramesTyped
  <2>6. \A r \in DOMAIN frames' : Frames(frames[r])'
    BY <1>6, <2>1, <2>2, <2>4 DEF Frames, Ids
  <2>7. wf' \in Workflows /\ Root \in DOMAIN frames' /\ graphFaults' \in 0..GraphFaults
    BY <1>6 DEF GraphInv, FramesTyped
  <2> QED
    BY <2>3, <2>5, <2>6, <2>7 DEF FramesTyped
<1>9. Children(p)' = Children(p) \union {new}
  BY <1>1, <1>6 DEF Children
<1>10. \A r \in DOMAIN frames \ {p} : Children(r)' = Children(r)
  BY <1>1, <1>6 DEF Children
<1>11. Children(new)' = {}
  <2> SUFFICES ASSUME NEW r \in DOMAIN frames', Len(r) = Len(new) + 1, Front(r) = new
               PROVE  FALSE
    BY DEF Children
  <2>1. Len(r) > 1 /\ r # new
    BY <1>1
  <2>2. r \in DOMAIN frames
    BY <1>6, <2>1
  <2>3. Front(r) \in DOMAIN frames
    BY <2>1, <2>2 DEF GraphInv, FramesTyped
  <2> QED
    BY <1>5, <2>3
<1>12. ASSUME NEW r \in DOMAIN frames, r # p
       PROVE  Begun(r)'
  <2>1. frames'[r] = frames[r] /\ Node(r)' = Node(r) /\ Ordered(r)' = Ordered(r) /\ Begun(r) /\ Children(r)' = Children(r)
    BY <1>6, <1>10, <1>12 DEF Node, Ordered, GraphInv
  <2>2. \A q \in Children(r) : frames'[q] = frames[q] /\ Live(q)' = Live(q)
    BY <1>6 DEF Live, Children
  <2>3. /\ Idle(r)' = Idle(r) /\ Well(r)' = Well(r) /\ (MapKids(r) => MapKids(r)') /\ (LoopKids(r) => LoopKids(r)')
    BY <2>1, <2>2 DEF Idle, Well, MapKids, LoopKids
  <2> QED
    BY <2>1, <2>3 DEF Begun
<1>13. Begun(p)'
  <2>1. frames'[p] = frames[p] /\ Node(p)' = Node(p) /\ Ordered(p)' = Ordered(p)
    BY <1>6 DEF Node, Ordered
  <2>2. \A q \in Children(p) : frames'[q] = frames[q] /\ Live(q)' = Live(q)
    BY <1>6 DEF Live, Children
  <2>3. CASE Node(p).kind \in Owners
    <3>1. /\ MapKids(p) /\ i = 0 /\ k \in ToSet(Node(p).kids) \ Ordered(p)
          /\ \A q \in Children(p) : Last(q)[1] \in Ordered(p)
      BY <1>3, <2>3 DEF Begun, Owners
    <3>2. new = Kid(p, Last(new)[1], 0) /\ Last(new)[1] = k
      BY <1>1, <3>1
    <3>3. \A q \in Children(p)' :
            /\ q = Kid(p, Last(q)[1], 0) /\ Last(q)[1] \in ToSet(Node(p).kids)
            /\ Last(q)[1] \in Ordered(p) => q \in Children(p)
            /\ Last(q)[1] \notin Ordered(p) => q = new
      BY <1>9, <3>1, <3>2 DEF MapKids
    <3>4. \A q \in Children(p) : Last(q)[1] \in Ordered(p) => ~Live(q)' /\ frames'[q].status # "failed"
      BY <2>2, <3>1 DEF MapKids
    <3>5. MapKids(p)'
      BY <2>1, <3>3, <3>4 DEF MapKids
    <3> QED
      BY <1>3, <2>1, <2>3, <3>5 DEF Begun, Owners, Frames
  <2>4. CASE Node(p).kind = "loop"
    <3>1. /\ LoopKids(p) /\ LoopIsDefined(Node(p)) /\ k = Node(p).kids[1]
          /\ i = Cardinality(Children(p)) + 1
      BY <1>3, <2>4 DEF Begun, Owners
    <3> DEFINE C == Children(p)
               n == Cardinality(C)
    <3>2. IsFiniteSet(C) /\ n \in Nat
      BY <3>1, FS_CardinalityType DEF LoopKids
    <3>3. IsFiniteSet(C \union {new}) /\ Cardinality(C \union {new}) = n + 1
      BY <1>4, <3>2, FS_AddElement
    <3>4. C = {Kid(p, k, j) : j \in 1..n}
      <4>1. CASE C = {}
        <5>1. n = 0
          BY <4>1, FS_EmptySet
        <5> QED
          BY <4>1, <5>1
      <4>2. CASE C # {}
        BY <3>1, <4>2 DEF LoopKids
      <4> QED
        BY <4>1, <4>2
    <3>5. C \union {new} = {Kid(p, k, j) : j \in 1..(n + 1)}
      <4>1. 1..(n + 1) = 1..n \union {n + 1}
        BY <3>2
      <4> HIDE DEF C, n
      <4> QED
        BY <3>1, <3>4, <4>1 DEF n, C
    <3>6. LoopKids(p)'
      BY <1>9, <2>1, <3>1, <3>3, <3>5 DEF LoopKids
    <3> QED
      BY <1>3, <2>1, <2>4, <3>6 DEF Begun, Owners, Frames
  <2> QED
    BY <2>3, <2>4
<1>14. Begun(new)'
  <2>1. frames'[new].phase = "entering" /\ frames'[new].status = "live"
    BY <1>6 DEF Frame
  <2> QED
    BY <1>11, <2>1 DEF Begun
<1> QED
  BY <1>6, <1>8, <1>12, <1>13, <1>14 DEF GraphInv

-----------------------------------------------------------------------------
(* The steps of the graph *)

LEMMA GraphStep ==
  ASSUME GraphInv, NEW p \in DOMAIN frames, Step(p)
  PROVE  GraphInv'
<1>0. /\ Live(p) /\ wf' = wf /\ graphFaults' \in 0..GraphFaults
      /\ graphFaults' = graphFaults \/ graphFaults' = graphFaults + 1
  <2>1. Live(p)
    BY DEF Step, EnterRef, EnterNode, BeforeHooks, AfterHooks, ErrorHooks, RunLeaf, RunMerge, StartChild, ChildEnds,
           FinishMap, WorktreeThrows, StartIteration, FinishLoop, At
  <2>2. Sound \/ Fault
    BY DEF Step, EnterRef, EnterNode, BeforeHooks, AfterHooks, ErrorHooks, RunLeaf, RunMerge, StartChild, ChildEnds,
           FinishMap, WorktreeThrows, StartIteration, FinishLoop, HandlerThrows
  <2>3. graphFaults \in 0..GraphFaults /\ GraphFaults \in Nat
    BY GraphAssumption DEF GraphInv, FramesTyped
  <2> QED
    BY <2>1, <2>2, <2>3 DEF Sound, Fault
<1>1. FramesTyped /\ Frames(frames[p]) /\ Begun(p) /\ frames[p].phase # "ended"
  BY <1>0 DEF GraphInv, FramesTyped, Frames, Live
<1>2. ASSUME Changes(p), Frames(frames'[p]), Goes(p)
      PROVE  GraphInv'
  BY <1>0, <1>2, GoesOn
<1>3. /\ \A phase \in Phases \ {"ended"} : Set(p, phase) => Passes(p, phase, "live")
      /\ \A s \in Statuses \ {"live"} : End(p, s) => Passes(p, "ended", s)
      /\ \A w \in Reasons, to \in {"ended", "onError"} : Throw(p, w, to) =>
           Passes(p, "ended", "failed") \/ (to = "onError" /\ Passes(p, "onError", "live"))
      /\ \A r : Return(p, r) => Passes(p, "ended", "succeeded") \/ Passes(p, "after", "live")
  BY <1>0, <1>1, Passing
\* The ways to leave the body.
<1>4. ASSUME frames[p].phase = "body", Idle(p), NEW w \in Reasons, Throw(p, w, "onError")
      PROVE  GraphInv'
  BY <1>2, <1>3, <1>4 DEF Passes, Goes
<1>5. ASSUME frames[p].phase = "body", Well(p), NEW r, Return(p, r)
      PROVE  GraphInv'
  BY <1>2, <1>3, <1>5 DEF Passes, Goes
<1>6. {"shape", "ref", "cycle", "merge", "child", "fault"} \subseteq Reasons
  BY DEF Reasons
<1>7. CASE EnterRef(p)
  <2>1. frames[p].phase = "entering"
    BY <1>7 DEF EnterRef, At
  <2>2. CASE Throw(p, "ref", "ended")
    BY <1>2, <1>3, <1>6, <2>1, <2>2 DEF Passes, Goes
  <2>3. CASE ~Throw(p, "ref", "ended")
    <3>1. PICK t \in DOMAIN Pipelines : /\ ~TooDeep(p)
                                        /\ frames' = [frames EXCEPT ![p].node = Pipelines[t], ![p].refs = Append(@, t)]
      BY <1>7, <2>3 DEF EnterRef
    <3> DEFINE f == frames[p]
    <3>2. Changes(p) /\ frames'[p] = [f EXCEPT !.node = Pipelines[t], !.refs = Append(@, t)]
      BY <3>1 DEF Changes
    <3>3. frames'[p] = [node |-> Pipelines[t], refs |-> Append(f.refs, t), needs |-> f.needs, phase |-> f.phase,
                        order |-> f.order, status |-> f.status, result |-> f.result, why |-> f.why]
      BY <1>1, <3>2 DEF Frames
    <3>4. Pipelines[t] \in Ids
      BY <1>1, GraphAssumption DEF FramesTyped, Ids
    <3>5. Append(f.refs, t) \in Seq(DOMAIN Pipelines) /\ Len(Append(f.refs, t)) <= MaxDepth
      <4>1. f.refs \in Seq(DOMAIN Pipelines) /\ ~(Len(f.refs) >= MaxDepth) /\ MaxDepth \in Nat
        BY <1>1, <3>1, GraphAssumption DEF Frames, TooDeep
      <4> HIDE DEF f
      <4> QED
        BY <4>1
    <3>6. Frames(frames'[p])
      BY <1>1, <3>3, <3>4, <3>5 DEF Frames
    <3> QED
      BY <1>2, <2>1, <3>2, <3>6 DEF Goes
  <2> QED
    BY <2>2, <2>3
<1>8. CASE EnterNode(p) \/ BeforeHooks(p)
  <2>1. frames[p].phase \in {"entering", "before"}
    BY <1>8 DEF EnterNode, BeforeHooks, At
  <2>2. \/ \E phase \in {"before", "body"} : Set(p, phase)
        \/ End(p, "skipped")
        \/ \E w \in {"shape", "fault"} : Throw(p, w, "ended")
    BY <1>8 DEF EnterNode, BeforeHooks
  <2>3. \E phase \in Phases, s \in Statuses : Passes(p, phase, s)
    BY <1>3, <1>6, <2>2 DEF Phases, Statuses
  <2> QED
    BY <1>2, <2>1, <2>3 DEF Passes, Goes
<1>9. CASE AfterHooks(p)
  <2>1. frames[p].phase = "after" /\ (End(p, "succeeded") \/ Throw(p, "fault", "onError"))
    BY <1>9 DEF AfterHooks, At
  <2> QED
    BY <1>2, <1>3, <1>6, <2>1 DEF Passes, Goes, Statuses
<1>10. CASE ErrorHooks(p)
  <2>1. frames[p].phase = "onError" /\ End(p, "failed")
    BY <1>10 DEF ErrorHooks, At, Rethrown
  <2> QED
    BY <1>2, <1>3, <2>1 DEF Passes, Goes, Statuses
<1>11. CASE RunLeaf(p) \/ RunMerge(p)
  <2>1. frames[p].phase = "body" /\ Node(p).kind \in Leaves \union {"git.merge"}
    BY <1>11 DEF RunLeaf, RunMerge, At
  <2>2. Children(p) = {}
    BY <1>1, <2>1 DEF Begun, Owners, Leaves
  <2>3. (\E r : Return(p, r)) \/ \E w \in {"fault", "merge"} : Throw(p, w, "onError")
    BY <1>11 DEF RunLeaf, RunMerge, HandlerThrows
  <2> QED
    BY <1>4, <1>5, <1>6, <2>1, <2>2, <2>3, NoKids
<1>12. CASE StartChild(p)
  <2>1. At(p, "body") /\ frames[p].phase = "body" /\ Node(p).kind \in Owners /\ MapKids(p) /\ Sound
        /\ \A q \in Children(p) : Last(q)[1] \in Ordered(p)
    BY <1>1, <1>12 DEF StartChild, At, Begun
  <2>2. Idle(p)
    BY <2>1 DEF MapKids, Idle
  <2>3. CASE \E w \in {"shape", "cycle"} : Throw(p, w, "onError")
    BY <1>4, <1>6, <2>1, <2>2, <2>3
  <2>4. CASE ~\E w \in {"shape", "cycle"} : Throw(p, w, "onError")
    <3>1. Ready(p) # {} /\ Begin(p, Kid(p, NextKid(p), 0), NextKid(p), NeedsOf(p, NextKid(p)))
      BY <1>12, <2>4 DEF StartChild
    <3>2. NextKid(p) \in ToSet(Node(p).kids) \ Ordered(p)
      BY <1>1, <3>1, NextIsReady DEF Ready
    <3>3. NextKid(p) \in Ids
      <4>1. Node(p).kids \in Seq(Ids)
        BY <1>1, GraphAssumption DEF FramesTyped, Frames, Node, Ids
      <4> QED
        BY <3>2, <4>1 DEF ToSet
    <3>4. graphFaults' = graphFaults
      BY <2>1 DEF Sound
    <3> QED
      BY <1>0, <2>1, <3>1, <3>2, <3>3, <3>4, BeginsChild
  <2> QED
    BY <2>3, <2>4
<1>13. CASE ChildEnds(p)
  <2>1. At(p, "body") /\ frames[p].phase = "body" /\ Node(p).kind \in Owners /\ MapKids(p)
    BY <1>1, <1>13 DEF ChildEnds, At, Begun
  <2>2. PICK q \in Children(p) :
          /\ ~Live(q) /\ Last(q)[1] \notin Ordered(p)
          /\ IF frames[q].status = "failed" THEN Throw(p, "child", "onError")
             ELSE frames' = [frames EXCEPT ![p].order = Append(@, Last(q)[1])]
    BY <1>13 DEF ChildEnds
  <2>3. CASE frames[q].status = "failed"
    <3>1. Idle(p)
      BY <2>1, <2>2 DEF Idle, MapKids
    <3> QED
      BY <1>4, <1>6, <2>1, <2>2, <2>3, <3>1
  <2>4. CASE frames[q].status # "failed"
    <3> DEFINE f == frames[p]
               k == Last(q)[1]
    <3>1. Changes(p) /\ frames'[p] = [f EXCEPT !.order = Append(@, k)]
      BY <2>2, <2>4 DEF Changes
    <3>2. frames'[p] = [node |-> f.node, refs |-> f.refs, needs |-> f.needs, phase |-> f.phase,
                        order |-> Append(f.order, k), status |-> f.status, result |-> f.result, why |-> f.why]
      BY <1>1, <3>1 DEF Frames
    <3>3. k \in Ids
      <4>1. Node(p).kids \in Seq(Ids)
        BY <1>1, GraphAssumption DEF FramesTyped, Frames, Node, Ids
      <4>2. k \in ToSet(Node(p).kids)
        BY <2>1 DEF MapKids
      <4> QED
        BY <4>1, <4>2 DEF ToSet
    <3>4. Append(f.order, k) \in Seq(Ids)
      BY <1>1, <3>3 DEF Frames
    <3>5. Frames(frames'[p])
      BY <1>1, <3>2, <3>4 DEF Frames
    <3>6. Goes(p)
      BY <2>1, <2>2, <2>4, <3>2 DEF Goes
    <3> QED
      BY <1>2, <3>1, <3>5, <3>6
  <2> QED
    BY <2>3, <2>4
<1>14. CASE FinishMap(p)
  <2>1. /\ frames[p].phase = "body" /\ Node(p).kind \in Owners /\ Ordered(p) = ToSet(Node(p).kids)
        /\ \E r : Return(p, r)
    BY <1>14 DEF FinishMap, At
  <2>2. Well(p)
    BY <1>1, <2>1 DEF Begun, MapKids, Well
  <2> QED
    BY <1>5, <2>1, <2>2
<1>15. CASE WorktreeThrows(p)
  <2>1. frames[p].phase = "body" /\ Idle(p) /\ Throw(p, "fault", "onError")
    BY <1>15 DEF WorktreeThrows, At, HandlerThrows, Idle
  <2> QED
    BY <1>4, <1>6, <2>1
<1>16. CASE StartIteration(p)
  <2>1. At(p, "body") /\ frames[p].phase = "body" /\ Node(p).kind = "loop" /\ LoopKids(p) /\ Sound
    BY <1>1, <1>16 DEF StartIteration, At, Begun, Owners
  <2>2. CASE LoopIsDefined(Node(p))
    <3> DEFINE k == Node(p).kids[1]
               i == Cardinality(Children(p)) + 1
    <3>1. Begin(p, Kid(p, k, i), k, {})
      BY <1>16, <2>2 DEF StartIteration
    <3>2. k \in Ids
      <4>1. Node(p).kids \in Seq(Ids) /\ Node(p).kids # <<>>
        BY <1>1, <2>2, GraphAssumption DEF FramesTyped, Frames, Node, Ids, LoopIsDefined
      <4> QED
        BY <4>1
    <3>3. i \in Nat
      BY <2>1, FS_CardinalityType DEF LoopKids
    <3>4. graphFaults' = graphFaults
      BY <2>1 DEF Sound
    <3> QED
      BY <1>0, <2>1, <2>2, <3>1, <3>2, <3>3, <3>4, BeginsChild
  <2>3. CASE ~LoopIsDefined(Node(p))
    <3>1. Idle(p) /\ Throw(p, "shape", "onError")
      BY <1>16, <2>1, <2>3 DEF StartIteration, LoopKids, Idle
    <3> QED
      BY <1>4, <1>6, <2>1, <3>1
  <2> QED
    BY <2>2, <2>3
<1>17. CASE FinishLoop(p)
  <2>1. frames[p].phase = "body" /\ Idle(p)
    BY <1>17 DEF FinishLoop, At, Settled, Running, Idle
  <2>2. CASE Breaking(p) /\ Throw(p, "child", "onError")
    BY <1>4, <1>6, <2>1, <2>2
  <2>3. CASE ~Breaking(p) /\ \E r : Return(p, r)
    <3>1. Well(p)
      BY <2>1, <2>3 DEF Breaking, Well, Idle
    <3> QED
      BY <1>5, <2>1, <2>3, <3>1
  <2> QED
    BY <1>17, <2>2, <2>3 DEF FinishLoop
<1> QED
  BY <1>7, <1>8, <1>9, <1>10, <1>11, <1>12, <1>13, <1>14, <1>15, <1>16, <1>17 DEF Step

LEMMA InitGraph == Init => GraphInv
<1> SUFFICES ASSUME Init PROVE GraphInv
  OBVIOUS
<1>1. /\ wf \in Workflows /\ frames = [p \in {Root} |-> Frame("root", <<>>, {})]
      /\ graphFaults = 0
  BY DEF Init, GraphInit
<1>2. "root" \in Ids /\ GraphFaults \in Nat /\ MaxDepth \in Nat
  BY <1>1, GraphAssumption DEF Ids
<1>3. Root \in Paths /\ Root # <<>> /\ Len(Root) = 1
  BY <1>2 DEF Root, Paths
<1>4. frames[Root] = [node |-> "root", refs |-> <<>>, needs |-> {}, phase |-> "entering", order |-> <<>>,
                      status |-> "live", result |-> NoResult, why |-> "none"]
  BY <1>1 DEF Frame
<1>5. Frames(frames[Root])
  <2>1. <<>> \in Seq(Ids) /\ <<>> \in Seq(DOMAIN Pipelines) /\ Len(<<>>) = 0
    OBVIOUS
  <2> QED
    BY <1>2, <1>4, <2>1 DEF Frames, Statuses, Phases, Reasons
<1>6. FramesTyped
  <2>1. DOMAIN frames = {Root} /\ 0 \in 0..GraphFaults
    BY <1>1, <1>2
  <2>2. wf \in Workflows /\ Root \in DOMAIN frames /\ graphFaults \in 0..GraphFaults
    BY <1>1, <2>1
  <2>3. ~(Len(Root) > 1)
    BY <1>3
  <2>4. \A p \in DOMAIN frames : p = Root
    BY <2>1
  <2> QED
    BY <1>3, <1>5, <2>2, <2>3, <2>4 DEF FramesTyped
<1>7. Children(Root) = {}
  BY <1>1 DEF Children
<1>8. Begun(Root)
  BY <1>4, <1>7 DEF Begun
<1> QED
  BY <1>1, <1>6, <1>8 DEF GraphInv

LEMMA NextGraph == GraphInv /\ [Next]_vars => GraphInv'
<1> SUFFICES ASSUME GraphInv, [Next]_vars PROVE GraphInv'
  OBVIOUS
<1>1. (\E p \in DOMAIN frames : Step(p)) \/ UNCHANGED graphVars
  BY DEF Next, Walks, GraphNext, vars
<1>2. CASE UNCHANGED graphVars
  <2>1. wf' = wf /\ frames' = frames /\ graphFaults' = graphFaults
    BY <1>2 DEF graphVars
  <2>2. FramesTyped'
    BY <2>1 DEF GraphInv, FramesTyped, Frames, Paths, Ids
  <2>3. ASSUME NEW p \in DOMAIN frames
        PROVE  Begun(p)'
    <3>1. Begun(p) /\ Children(p)' = Children(p) /\ Node(p)' = Node(p) /\ Ordered(p)' = Ordered(p)
      BY <2>1 DEF GraphInv, Children, Node, Ordered
    <3>2. (Idle(p) <=> Idle(p)') /\ (Well(p) <=> Well(p)') /\ (MapKids(p) <=> MapKids(p)') /\ (LoopKids(p) <=> LoopKids(p)')
      BY <2>1, <3>1 DEF Idle, Well, MapKids, LoopKids, Live
    <3> QED
      BY <2>1, <3>1, <3>2 DEF Begun
  <2> QED
    BY <2>1, <2>2, <2>3 DEF GraphInv
<1> QED
  BY <1>1, <1>2, GraphStep

\* A failure in a workflow's graph reaches its root, and a node answers only when everything it
\* began has: for any graph, handlers, hooks and expressions that throw, and any order in which
\* the lanes of parallel loops go on (executeNode, executeNodeMap, executeLoopNode).
THEOREM FailuresRise == Spec => []NothingIsSwallowed
<1>1. GraphInv => NothingIsSwallowed
  <2> SUFFICES ASSUME GraphInv PROVE NothingIsSwallowed
    OBVIOUS
  <2>1. GraphTypeOK
    BY DEF GraphInv, FramesTyped, Frames, GraphTypeOK, Live, Ids
  <2>2. \A p \in DOMAIN frames : ~Live(p) => Idle(p) /\ frames[p].status \in {"succeeded", "skipped", "failed"}
    BY DEF GraphInv, FramesTyped, Frames, Begun, Live, Statuses
  <2>3. NothingOutlivesItsNode
    BY <2>2 DEF NothingOutlivesItsNode, Idle
  <2>4. \A p \in DOMAIN frames : frames[p].status \in {"succeeded", "skipped"} => Well(p)
    BY DEF GraphInv, Begun
  <2>5. FailuresReachTheRoot
    BY <2>2, <2>4 DEF FailuresReachTheRoot, Well
  <2> QED
    BY <2>1, <2>3, <2>5 DEF NothingIsSwallowed
<1> QED
  BY <1>1, InitGraph, NextGraph, PTL DEF Spec

-----------------------------------------------------------------------------
(* Merges and refusals *)

\* Below a frame, or there: a worktree that succeeded with effects.
Effects(q) == Node(q).kind = "git.worktree" /\ frames[q].status = "succeeded" /\ frames[q].result.effects
Deep(p) == \E q \in Below(p) : Effects(q)
Claims(r) == r.effects \/ \E c \in r.collected : c.effects

\* Only a reference is executed as another node, the root of a pipeline; what a frame needs has
\* ended beside it; nothing is answered or refused before its body.
Placed(p) ==
  \/ frames[p].node = Last(p)[1]
  \/ wf[Last(p)[1]].kind = "$ref" /\ Node(p).kind \notin {"$ref", "git.merge"}
Supplied(p) ==
  \A d \in frames[p].needs :
    LET i == Kid(Front(p), d.id, 0)
    IN /\ d.id \in wf[Last(p)[1]].needs /\ d.status \in {"succeeded", "skipped"}
       /\ i \in DOMAIN frames /\ frames[i].status = d.status /\ frames[i].result = d.result
Unanswered(p) ==
  /\ frames[p].phase \in {"entering", "before", "body"} => frames[p].result = NoResult /\ frames[p].why = "none"
  /\ frames[p].status = "skipped" => frames[p].result = NoResult
  /\ frames[p].phase \in {"before", "body"} => ~SkippedNeed(p)

\* What a result and a refusal are worth.
ResultFits(p, r) ==
  /\ Node(p).kind = "git.worktree" => r = Workspace(r.effects)
  /\ Node(p).kind # "git.worktree" /\ Claims(r) => Deep(p)
MergeFits(p, r) == r.type = "GitMergeResult" => CanMerge(p)
RefusalFits(p, why) ==
  /\ why = "shape" => \/ ~Known(p) /\ Node(p).kind # "$ref"
                      \/ Node(p).kind \in Owners /\ BadMap(p)
                      \/ Node(p).kind = "loop" /\ ~LoopIsDefined(Node(p))
  /\ why = "merge" => Node(p).kind = "git.merge" /\ ~CanMerge(p) /\ ~SkippedNeed(p)
Fits(p) ==
  /\ Placed(p) /\ Supplied(p) /\ Unanswered(p)
  /\ frames[p].phase = "after" \/ frames[p].status = "succeeded" => ResultFits(p, frames[p].result)
  /\ MergeFits(p, frames[p].result) /\ RefusalFits(p, frames[p].why)
SoundInv == \A p \in DOMAIN frames : Fits(p)

LEMMA LastOfKid ==
  ASSUME FramesTyped, NEW p \in DOMAIN frames, NEW n \in Ids
  PROVE  Last(Kid(Front(p), n, 0)) = <<n, 0>>
<1>1. p \in Seq(Ids \X Nat) /\ p # <<>> /\ <<n, 0>> \in Ids \X Nat
  BY DEF FramesTyped, Paths
<1>2. Front(p) \in Seq(Ids \X Nat)
  BY <1>1 DEF Front
<1> QED
  BY <1>1, <1>2, PathAppend DEF Kid

LEMMA PathOf ==
  ASSUME FramesTyped, NEW p \in DOMAIN frames
  PROVE  p \in Seq(Ids \X Nat) /\ p # <<>> /\ Len(p) \in Nat \ {0}
<1>1. p \in Seq(Ids \X Nat) /\ p # <<>>
  BY DEF FramesTyped, Paths
<1> QED
  BY <1>1
LEMMA Prefix ==
  ASSUME NEW S, NEW s \in Seq(S), NEW n \in 0..Len(s)
  PROVE  /\ SubSeq(s, 1, n) \in Seq(S) /\ Len(SubSeq(s, 1, n)) = n
         /\ \A j \in 1..n : SubSeq(s, 1, n)[j] = s[j]
OBVIOUS

\* What is below a child, or the child, is below its parent.
LEMMA BelowChild ==
  ASSUME FramesTyped, NEW p \in DOMAIN frames, NEW q \in Children(p)
  PROVE  q \in Below(p) /\ Below(q) \subseteq Below(p)
<1>1. /\ p \in Seq(Ids \X Nat) /\ q \in Seq(Ids \X Nat) /\ q \in DOMAIN frames /\ Len(q) = Len(p) + 1
      /\ SubSeq(q, 1, Len(p)) = p /\ Len(p) \in Nat
  <2>1. q \in DOMAIN frames /\ Len(q) = Len(p) + 1 /\ Front(q) = p
    BY DEF Children
  <2>2. p \in Seq(Ids \X Nat) /\ q \in Seq(Ids \X Nat) /\ Len(p) \in Nat
    BY <2>1, PathOf
  <2>3. Len(q) - 1 = Len(p)
    BY <2>1, <2>2
  <2> QED
    BY <2>1, <2>2, <2>3 DEF Front
<1>2. ASSUME NEW r \in Below(q)
      PROVE  r \in Below(p)
  <2>1. r \in DOMAIN frames /\ r \in Seq(Ids \X Nat) /\ Len(r) > Len(q) /\ SubSeq(r, 1, Len(q)) = q
    BY DEF FramesTyped, Paths, Below
  <2>2. /\ Len(SubSeq(r, 1, Len(p))) = Len(p) /\ SubSeq(r, 1, Len(p)) \in Seq(Ids \X Nat)
        /\ \A j \in 1..Len(p) : SubSeq(r, 1, Len(p))[j] = r[j]
    BY <1>1, <2>1
  <2>3. \A j \in 1..Len(p) : r[j] = SubSeq(r, 1, Len(q))[j]
    BY <1>1, <2>1
  <2>4. \A j \in 1..Len(p) : q[j] = SubSeq(q, 1, Len(p))[j]
    BY <1>1
  <2>5. \A j \in 1..Len(p) : r[j] = p[j]
    BY <1>1, <2>1, <2>3, <2>4
  <2>6. SubSeq(r, 1, Len(p)) = p
    BY <1>1, <2>2, <2>5, SeqEqual
  <2> QED
    BY <1>1, <2>1, <2>6 DEF Below
<1> QED
  BY <1>1, <1>2 DEF Below

\* The parent of what is below a frame is the frame, or below it.
LEMMA ParentBelow ==
  ASSUME FramesTyped, NEW p \in DOMAIN frames, NEW q \in Below(p)
  PROVE  /\ Front(q) = p \/ Front(q) \in Below(p)
         /\ Front(q) \in DOMAIN frames /\ q \in Children(Front(q)) /\ Len(Front(q)) + 1 = Len(q)
<1>1. /\ p \in Seq(Ids \X Nat) /\ p # <<>> /\ q \in Seq(Ids \X Nat) /\ q \in DOMAIN frames /\ Len(q) > Len(p)
      /\ SubSeq(q, 1, Len(p)) = p /\ Len(p) \in Nat \ {0} /\ Len(q) \in Nat
  BY DEF FramesTyped, Paths, Below
<1> DEFINE f == SubSeq(q, 1, Len(q) - 1)
<1>2. Front(q) = f
  BY DEF Front
<1>3. f \in Seq(Ids \X Nat) /\ Len(f) = Len(q) - 1 /\ \A j \in 1..(Len(q) - 1) : f[j] = q[j]
  BY <1>1
<1>4. f \in DOMAIN frames /\ q \in Children(f)
  <2>1. Front(q) \in DOMAIN frames
    BY <1>1 DEF FramesTyped
  <2> QED
    BY <1>1, <1>2, <1>3, <2>1 DEF Children
<1> HIDE DEF f
<1>5. CASE Len(q) = Len(p) + 1
  <2>1. Len(q) - 1 = Len(p)
    BY <1>1, <1>5
  <2>2. f = p
    BY <1>1, <2>1 DEF f
  <2> QED
    BY <1>1, <1>2, <1>3, <1>4, <2>1, <2>2
<1>6. CASE Len(q) # Len(p) + 1
  <2>1. Len(f) > Len(p)
    BY <1>1, <1>3, <1>6
  <2>2. /\ Len(SubSeq(f, 1, Len(p))) = Len(p) /\ SubSeq(f, 1, Len(p)) \in Seq(Ids \X Nat)
        /\ \A j \in 1..Len(p) : SubSeq(f, 1, Len(p))[j] = f[j]
    <3>1. Len(p) \in 0..Len(f) /\ f \in Seq(Ids \X Nat)
      BY <1>1, <1>3, <2>1
    <3> QED
      BY <3>1, Prefix
  <2>3. \A j \in 1..Len(p) : SubSeq(q, 1, Len(p))[j] = q[j]
    BY <1>1
  <2>4. \A j \in 1..Len(p) : SubSeq(f, 1, Len(p))[j] = p[j]
    <3>1. \A j \in 1..Len(p) : j \in 1..(Len(q) - 1)
      BY <1>1
    <3>2. \A j \in 1..Len(p) : f[j] = q[j] /\ p[j] = q[j]
      BY <1>1, <1>3, <2>3, <3>1
    <3> QED
      BY <2>2, <3>2
  <2>5. SubSeq(f, 1, Len(p)) = p
    BY <1>1, <2>2, <2>4, SeqEqual
  <2> QED
    BY <1>2, <1>3, <1>4, <2>1, <2>5 DEF Below
<1> QED
  BY <1>2, <1>3, <1>4, <1>5, <1>6, <1>1

\* Below a frame that succeeded or was skipped everything did, at whatever depth.
LEMMA BelowEnded ==
  ASSUME GraphInv, NEW p \in DOMAIN frames, frames[p].status \in {"succeeded", "skipped"}, NEW q \in Below(p)
  PROVE  frames[q].status \in {"succeeded", "skipped"}
<1> DEFINE Good(r) == frames[r].status \in {"succeeded", "skipped"}
           N == Len(q)
           T == {n \in 0..N : \A r \in Below(p) : Len(r) = n => Good(r)}
<1>1. FramesTyped /\ Len(p) \in Nat \ {0} /\ q \in DOMAIN frames /\ N \in Nat
  <2>1. FramesTyped /\ q \in DOMAIN frames
    BY DEF GraphInv, Below
  <2> QED
    BY <2>1, PathOf
<1>2. 0 \in T
  BY <1>1 DEF Below
<1>3. ASSUME NEW n \in 0..N, n \in T, n < N
      PROVE  n + 1 \in T
  <2>1. SUFFICES ASSUME NEW r \in Below(p), Len(r) = n + 1
                 PROVE  Good(r)
    BY <1>1, <1>3
  <2>2. /\ Front(r) = p \/ Front(r) \in Below(p)
        /\ Front(r) \in DOMAIN frames /\ r \in Children(Front(r)) /\ Len(Front(r)) + 1 = Len(r)
    BY <1>1, ParentBelow
  <2>3. Len(Front(r)) = n
    <3>1. Len(Front(r)) \in Nat
      BY <1>1, <2>2 DEF FramesTyped, Paths
    <3> QED
      BY <1>3, <2>1, <2>2, <3>1
  <2>4. Good(Front(r))
    BY <1>3, <2>2, <2>3
  <2>5. Well(Front(r))
    BY <2>2, <2>4 DEF GraphInv, Begun
  <2>6. r \in DOMAIN frames /\ frames[r].status \in Statuses
    BY <1>1 DEF Below, FramesTyped, Frames
  <2> QED
    BY <2>2, <2>5, <2>6 DEF Well, Live, Statuses
<1> HIDE DEF T
<1>4. 0..N \subseteq T
  BY <1>1, <1>2, <1>3, Counting
<1> QED
  BY <1>1, <1>4 DEF T

\* A frame that succeeded and whose result claims effects has a worktree with effects.
LEMMA Claimed ==
  ASSUME NEW q \in DOMAIN frames, Fits(q), frames[q].status = "succeeded", Claims(frames[q].result)
  PROVE  Effects(q) \/ Deep(q)
<1>1. CASE Node(q).kind = "git.worktree"
  <2>1. frames[q].result = Workspace(frames[q].result.effects)
    BY <1>1 DEF Fits, ResultFits
  <2>2. frames[q].result.collected = {[type |-> "WorkspaceResult", effects |-> frames[q].result.effects]}
    BY <2>1 DEF Workspace, Result
  <2> QED
    BY <1>1, <2>2 DEF Effects, Claims
<1>2. CASE Node(q).kind # "git.worktree"
  BY <1>2 DEF Fits, ResultFits
<1> QED
  BY <1>1, <1>2

\* What a node collects from children that are well claims no effects that are not there.
LEMMA CollectedFits ==
  ASSUME GraphInv, SoundInv, NEW p \in DOMAIN frames, Well(p), NEW c \in Collected(p), c.effects
  PROVE  Deep(p)
<1>1. PICK q \in Children(p) : c \in frames[q].result.collected
  BY DEF Collected
<1>2. /\ q \in DOMAIN frames /\ FramesTyped /\ Fits(q) /\ frames[q].status \in {"succeeded", "skipped"}
  BY DEF Children, SoundInv, Well, Live, GraphInv, FramesTyped, Frames, Statuses
<1>3. frames[q].status = "succeeded"
  BY <1>1, <1>2 DEF Fits, Unanswered, NoResult, Result
<1>4. Effects(q) \/ Deep(q)
  BY <1>1, <1>2, <1>3, Claimed DEF Claims
<1> QED
  BY <1>2, <1>4, BelowChild DEF Deep

\* What has ended stays as it is, and with it all that a frame that did not change says of others.
Grows == wf' = wf /\ DOMAIN frames \subseteq DOMAIN frames' /\ \A q \in DOMAIN frames : ~Live(q) => frames'[q] = frames[q]
LEMMA DeepStays ==
  ASSUME Grows, NEW p \in DOMAIN frames, Deep(p)
  PROVE  Deep(p)'
<1>1. PICK q \in Below(p) : Effects(q)
  BY DEF Deep
<1>2. q \in DOMAIN frames /\ frames'[q] = frames[q]
  BY <1>1 DEF Grows, Below, Effects, Live
<1>3. q \in Below(p)' /\ Effects(q)'
  BY <1>1, <1>2 DEF Grows, Below, Effects, Node
<1> QED
  BY <1>3 DEF Deep
LEMMA SuppliedStays ==
  ASSUME Grows, NEW p \in DOMAIN frames, Supplied(p), frames'[p].needs = frames[p].needs
  PROVE  Supplied(p)'
<1>1. ASSUME NEW d \in frames[p].needs
      PROVE  LET i == Kid(Front(p), d.id, 0)
             IN /\ d.id \in wf'[Last(p)[1]].needs /\ d.status \in {"succeeded", "skipped"}
                /\ i \in DOMAIN frames' /\ frames'[i].status = d.status /\ frames'[i].result = d.result
  <2> DEFINE i == Kid(Front(p), d.id, 0)
  <2>1. /\ d.id \in wf[Last(p)[1]].needs /\ d.status \in {"succeeded", "skipped"}
        /\ i \in DOMAIN frames /\ frames[i].status = d.status /\ frames[i].result = d.result
    BY <1>1 DEF Supplied
  <2> HIDE DEF i
  <2>2. frames'[i] = frames[i] /\ i \in DOMAIN frames' /\ wf' = wf
    BY <2>1 DEF Grows, Live
  <2> QED
    BY <2>1, <2>2 DEF i
<1> QED
  BY <1>1 DEF Supplied, Kid
LEMMA FitsStays ==
  ASSUME Grows, NEW r \in DOMAIN frames, Fits(r), frames'[r] = frames[r]
  PROVE  Fits(r)'
<1>1. /\ Node(r)' = Node(r) /\ (CanMerge(r)' <=> CanMerge(r)) /\ (SkippedNeed(r)' <=> SkippedNeed(r))
      /\ (BadMap(r)' <=> BadMap(r)) /\ (Known(r)' <=> Known(r))
  BY DEF Grows, Node, CanMerge, MergeInputs, SkippedNeed, BadMap, NeedsSiblings, Known
<1>2. Supplied(r)'
  BY SuppliedStays DEF Fits
<1>3. ResultFits(r, frames[r].result) => ResultFits(r, frames[r].result)'
  BY <1>1, DeepStays DEF ResultFits, Claims
<1>4. Placed(r)' /\ Unanswered(r)'
  BY <1>1 DEF Grows, Fits, Placed, Unanswered
<1>5. MergeFits(r, frames[r].result)' /\ RefusalFits(r, frames[r].why)'
  BY <1>1 DEF Fits, MergeFits, RefusalFits
<1> QED
  BY <1>2, <1>3, <1>4, <1>5 DEF Fits

\* What a step leaves of its frame, whatever it does to the order of its children.
Retold(p, phase, st, r, why) ==
  /\ Changes(p) /\ frames'[p].node = frames[p].node /\ frames'[p].needs = frames[p].needs
  /\ frames'[p].phase = phase /\ frames'[p].status = st /\ frames'[p].result = r /\ frames'[p].why = why
\* A step that only changes its frame.
LEMMA AmendsFits ==
  ASSUME SoundInv, GraphInv, wf' = wf, NEW p \in DOMAIN frames, Live(p),
         NEW phase, NEW st, NEW r, NEW why, Retold(p, phase, st, r, why),
         phase \in {"entering", "before", "body"} => r = NoResult /\ why = "none",
         st = "skipped" => r = NoResult,
         phase \in {"before", "body"} => ~SkippedNeed(p),
         phase = "after" \/ st = "succeeded" => ResultFits(p, r),
         MergeFits(p, r), RefusalFits(p, why)
  PROVE  SoundInv'
<1>1. Grows /\ DOMAIN frames' = DOMAIN frames
  BY DEF Retold, Changes, Grows
<1>2. \A q \in DOMAIN frames : q # p => Fits(q)'
  <2> TAKE q \in DOMAIN frames
  <2> HAVE q # p
  <2>1. frames'[q] = frames[q] /\ Fits(q)
    BY DEF Retold, Changes, SoundInv
  <2> QED
    BY <1>1, <2>1, FitsStays
<1>3. Fits(p)'
  <2> DEFINE g == frames'[p]
  <2>1. /\ g.node = frames[p].node /\ g.needs = frames[p].needs /\ g.phase = phase /\ g.status = st
        /\ g.result = r /\ g.why = why
    BY DEF Retold
  <2>2. /\ Node(p)' = Node(p) /\ (CanMerge(p)' <=> CanMerge(p)) /\ (SkippedNeed(p)' <=> SkippedNeed(p))
        /\ (BadMap(p)' <=> BadMap(p)) /\ (Known(p)' <=> Known(p))
    BY <2>1 DEF Node, CanMerge, MergeInputs, SkippedNeed, BadMap, NeedsSiblings, Known
  <2>3. Fits(p)
    BY DEF SoundInv
  <2>4. Supplied(p)'
    BY <1>1, <2>1, <2>3, SuppliedStays DEF Fits
  <2>5. Placed(p)' /\ Unanswered(p)'
    BY <2>1, <2>2, <2>3 DEF Fits, Placed, Unanswered
  <2>6. phase = "after" \/ st = "succeeded" => ResultFits(p, frames[p].result)'
    BY <1>1, <2>1, <2>2, DeepStays DEF ResultFits, Claims
  <2>7. MergeFits(p, frames[p].result)' /\ RefusalFits(p, frames[p].why)'
    BY <2>1, <2>2 DEF MergeFits, RefusalFits
  <2> QED
    BY <2>1, <2>4, <2>5, <2>6, <2>7 DEF Fits
<1> QED
  BY <1>1, <1>2, <1>3 DEF SoundInv

\* A child is begun with the answers of its needs.
LEMMA BeginsFits ==
  ASSUME SoundInv, GraphInv, wf' = wf, NEW p \in DOMAIN frames, NEW k \in Ids, NEW i \in Nat, NEW needs,
         Begin(p, Kid(p, k, i), k, needs), Kid(p, k, i) \notin DOMAIN frames,
         \A d \in needs : LET j == Kid(p, d.id, 0)
                          IN /\ d.id \in wf[k].needs /\ d.status \in {"succeeded", "skipped"}
                             /\ j \in DOMAIN frames /\ frames[j].status = d.status /\ frames[j].result = d.result
  PROVE  SoundInv'
<1> DEFINE new == Kid(p, k, i)
<1>1. /\ new \in Seq(Ids \X Nat) /\ Front(new) = p /\ Last(new) = <<k, i>>
  <2>1. p \in Seq(Ids \X Nat) /\ <<k, i>> \in Ids \X Nat
    BY PathOf DEF GraphInv
  <2> QED
    BY <2>1, PathAppend DEF Kid
<1>2. /\ DOMAIN frames' = DOMAIN frames \union {new}
      /\ \A r \in DOMAIN frames : frames'[r] = frames[r]
      /\ frames'[new] = Frame(k, frames[p].refs, needs)
  BY DEF Begin
<1>3. Grows
  BY <1>2 DEF Grows
<1>4. \A r \in DOMAIN frames : Fits(r)'
  BY <1>2, <1>3, FitsStays DEF SoundInv
<1>5. Fits(new)'
  <2> HIDE DEF new
  <2>1. /\ frames'[new].node = k /\ frames'[new].needs = needs /\ frames'[new].phase = "entering"
        /\ frames'[new].status = "live" /\ frames'[new].result = NoResult /\ frames'[new].why = "none"
    BY <1>2 DEF Frame
  <2>2. Placed(new)' /\ Unanswered(new)'
    BY <1>1, <2>1 DEF Placed, Unanswered, new
  <2>3. ASSUME NEW d \in needs
        PROVE  LET j == Kid(Front(new), d.id, 0)
               IN /\ d.id \in wf'[Last(new)[1]].needs /\ d.status \in {"succeeded", "skipped"}
                  /\ j \in DOMAIN frames' /\ frames'[j].status = d.status /\ frames'[j].result = d.result
    <3> DEFINE j == Kid(p, d.id, 0)
    <3>1. /\ d.id \in wf[k].needs /\ d.status \in {"succeeded", "skipped"}
          /\ j \in DOMAIN frames /\ frames[j].status = d.status /\ frames[j].result = d.result
      BY <2>3
    <3>2. j \in DOMAIN frames' /\ frames'[j] = frames[j] /\ Front(new) = p /\ Last(new)[1] = k
      BY <1>1, <1>2, <3>1 DEF new
    <3> QED
      BY <3>1, <3>2
  <2>4. Supplied(new)'
    BY <2>1, <2>3 DEF Supplied, Kid
  <2>5. MergeFits(new, frames[new].result)' /\ RefusalFits(new, frames[new].why)'
    BY <2>1 DEF MergeFits, RefusalFits, NoResult, Result
  <2> QED
    BY <2>1, <2>2, <2>4, <2>5 DEF Fits
<1> QED
  BY <1>2, <1>4, <1>5 DEF SoundInv

LEMMA SoundStep ==
  ASSUME GraphInv, SoundInv, NEW p \in DOMAIN frames, Step(p)
  PROVE  SoundInv'
<1> DEFINE f == frames[p]
<1>0. /\ Live(p) /\ wf' = wf /\ FramesTyped /\ Frames(f) /\ Begun(p) /\ Fits(p) /\ f.status = "live"
  BY DEF Step, EnterRef, EnterNode, BeforeHooks, AfterHooks, ErrorHooks, RunLeaf, RunMerge, StartChild, ChildEnds,
         FinishMap, WorktreeThrows, StartIteration, FinishLoop, HandlerThrows, At, Live, Sound, Fault,
         GraphInv, FramesTyped, SoundInv
<1>1. /\ Supplied(p) /\ Unanswered(p) /\ MergeFits(p, f.result) /\ RefusalFits(p, f.why) /\ Placed(p)
      /\ f.phase = "after" => ResultFits(p, f.result)
  BY <1>0 DEF Fits
<1>2. /\ \A x : Set(p, x) => Retold(p, x, "live", f.result, f.why)
      /\ \A s : End(p, s) => Retold(p, "ended", s, f.result, f.why)
      /\ \A w, x : Throw(p, w, x) =>
           Retold(p, "ended", "failed", f.result, w) \/ (x # "ended" /\ Retold(p, x, "live", f.result, w))
      /\ \A r : Return(p, r) => Retold(p, "ended", "succeeded", r, f.why) \/ Retold(p, "after", "live", r, f.why)
  <2>1. ASSUME NEW phase, NEW st, NEW r, NEW why, To(p, phase, st, r, why)
        PROVE  Retold(p, phase, st, r, why)
    BY <2>1 DEF To, Retold, Amended
  <2> QED
    BY <1>0, <2>1, Amends
\* What does not answer, and what does.
<1>3. ASSUME NEW phase \in {"before", "body"}, f.phase \in {"entering", "before", "body"}, ~SkippedNeed(p),
             Retold(p, phase, "live", f.result, f.why)
      PROVE  SoundInv'
  BY <1>0, <1>1, <1>3, AmendsFits DEF Unanswered
<1>4. ASSUME NEW why, NEW to \in {"ended", "onError"}, Throw(p, why, to), RefusalFits(p, why)
      PROVE  SoundInv'
  <2>1. CASE Retold(p, "ended", "failed", f.result, why)
    BY <1>0, <1>1, <1>4, <2>1, AmendsFits
  <2>2. CASE Retold(p, "onError", "live", f.result, why)
    BY <1>0, <1>1, <1>4, <2>2, AmendsFits
  <2> QED
    BY <1>2, <1>4, <2>1, <2>2
<1>5. ASSUME f.phase = "body", NEW r, Return(p, r), ResultFits(p, r), MergeFits(p, r)
      PROVE  SoundInv'
  <2>1. CASE Retold(p, "ended", "succeeded", r, f.why)
    BY <1>0, <1>1, <1>5, <2>1, AmendsFits
  <2>2. CASE Retold(p, "after", "live", r, f.why)
    BY <1>0, <1>1, <1>5, <2>2, AmendsFits
  <2> QED
    BY <1>2, <1>5, <2>1, <2>2
<1>6. \A why : why \notin {"shape", "merge"} => RefusalFits(p, why)
  BY DEF RefusalFits
<1>7. CASE EnterRef(p)
  <2>1. f.phase = "entering" /\ Node(p).kind = "$ref" /\ f.result = NoResult /\ f.why = "none"
    BY <1>1, <1>7 DEF EnterRef, At, Unanswered
  <2>2. CASE Throw(p, "ref", "ended")
    BY <1>4, <1>6, <2>2
  <2>3. CASE ~Throw(p, "ref", "ended")
    <3>1. PICK t \in DOMAIN Pipelines : frames' = [frames EXCEPT ![p].node = Pipelines[t], ![p].refs = Append(@, t)]
      BY <1>7, <2>3 DEF EnterRef
    <3>2. Changes(p) /\ frames'[p] = [f EXCEPT !.node = Pipelines[t], !.refs = Append(@, t)]
      BY <3>1 DEF Changes
    <3>3. frames'[p] = [node |-> Pipelines[t], refs |-> Append(f.refs, t), needs |-> f.needs, phase |-> f.phase,
                        order |-> f.order, status |-> f.status, result |-> f.result, why |-> f.why]
      BY <1>0, <3>2 DEF Frames
    <3>4. Grows /\ DOMAIN frames' = DOMAIN frames
      BY <1>0, <3>2 DEF Changes, Grows
    <3>5. \A q \in DOMAIN frames : q # p => Fits(q)'
      <4> TAKE q \in DOMAIN frames
      <4> HAVE q # p
      <4>1. frames'[q] = frames[q] /\ Fits(q)
        BY <3>2 DEF Changes, SoundInv
      <4> QED
        BY <3>4, <4>1, FitsStays
    <3>6. wf[Pipelines[t]].kind \notin {"$ref", "git.merge"}
      BY <1>0, GraphAssumption DEF FramesTyped
    <3> DEFINE g == frames'[p]
    <3>7. /\ g.node = Pipelines[t] /\ g.needs = f.needs /\ g.phase = "entering" /\ g.status = "live"
          /\ g.result = NoResult /\ g.why = "none"
      BY <1>0, <2>1, <3>3
    <3> HIDE DEF g
    <3>8. Placed(p)'
      BY <1>0, <1>1, <2>1, <3>6, <3>7 DEF Placed, Node, g
    <3>9. Supplied(p)' /\ Unanswered(p)'
      BY <1>1, <3>4, <3>7, SuppliedStays DEF Unanswered, g
    <3>10. MergeFits(p, frames[p].result)' /\ RefusalFits(p, frames[p].why)'
      BY <3>7 DEF MergeFits, RefusalFits, NoResult, Result, g
    <3>11. Fits(p)'
      BY <3>7, <3>8, <3>9, <3>10 DEF Fits, g
    <3> QED
      BY <3>4, <3>5, <3>11 DEF SoundInv
  <2> QED
    BY <2>2, <2>3
<1>8. CASE EnterNode(p)
  <2>1. f.phase = "entering" /\ Node(p).kind # "$ref" /\ f.result = NoResult
    BY <1>1, <1>8 DEF EnterNode, At, Unanswered
  <2>2. CASE End(p, "skipped")
    <3>1. Retold(p, "ended", "skipped", f.result, f.why)
      BY <1>2, <2>2
    <3> QED
      BY <1>0, <1>1, <2>1, <3>1, AmendsFits
  <2>3. CASE ~Known(p) /\ Throw(p, "shape", "ended")
    <3>1. RefusalFits(p, "shape")
      BY <2>1, <2>3 DEF RefusalFits
    <3> QED
      BY <1>4, <2>3, <3>1
  <2>4. CASE ~SkippedNeed(p) /\ Set(p, IF Node(p).kind = "iteration" THEN "body" ELSE "before")
    BY <1>2, <1>3, <2>1, <2>4
  <2>5. CASE Throw(p, "fault", "ended")
    BY <1>4, <1>6, <2>5
  <2> QED
    BY <1>8, <2>2, <2>3, <2>4, <2>5 DEF EnterNode
<1>9. CASE BeforeHooks(p)
  <2>1. f.phase = "before" /\ ~SkippedNeed(p)
    BY <1>1, <1>9 DEF BeforeHooks, At, Unanswered
  <2>2. CASE Set(p, "body")
    BY <1>2, <1>3, <2>1, <2>2
  <2>3. CASE Throw(p, "fault", "ended")
    BY <1>4, <1>6, <2>3
  <2> QED
    BY <1>9, <2>2, <2>3 DEF BeforeHooks
<1>10. CASE AfterHooks(p)
  <2>1. f.phase = "after"
    BY <1>10 DEF AfterHooks, At
  <2>2. CASE End(p, "succeeded")
    <3>1. Retold(p, "ended", "succeeded", f.result, f.why)
      BY <1>2, <2>2
    <3> QED
      BY <1>0, <1>1, <2>1, <3>1, AmendsFits
  <2>3. CASE Throw(p, "fault", "onError")
    BY <1>4, <1>6, <2>3
  <2> QED
    BY <1>10, <2>2, <2>3 DEF AfterHooks
<1>11. CASE ErrorHooks(p)
  <2>1. Retold(p, "ended", "failed", f.result, f.why)
    BY <1>2, <1>11 DEF ErrorHooks, Rethrown
  <2> QED
    BY <1>0, <1>1, <2>1, AmendsFits
<1>12. CASE RunLeaf(p)
  <2>1. f.phase = "body" /\ Node(p).kind \in Leaves
    BY <1>12 DEF RunLeaf, At
  <2>2. CASE Return(p, Result("LeafResult", FALSE, {}))
    <3> DEFINE r == Result("LeafResult", FALSE, {})
    <3>1. ResultFits(p, r) /\ MergeFits(p, r)
      BY <2>1 DEF ResultFits, MergeFits, Claims, Result, Leaves
    <3> QED
      BY <1>5, <2>1, <2>2, <3>1
  <2>3. CASE Throw(p, "fault", "onError")
    BY <1>4, <1>6, <2>3
  <2> QED
    BY <1>12, <2>2, <2>3 DEF RunLeaf, HandlerThrows
<1>13. CASE RunMerge(p)
  <2>1. f.phase = "body" /\ Node(p).kind = "git.merge" /\ ~SkippedNeed(p)
    BY <1>1, <1>13 DEF RunMerge, At, Unanswered
  <2>2. CASE CanMerge(p) /\ Return(p, Result("GitMergeResult", FALSE, {}))
    <3> DEFINE r == Result("GitMergeResult", FALSE, {})
    <3>1. ResultFits(p, r) /\ MergeFits(p, r)
      BY <2>1, <2>2 DEF ResultFits, MergeFits, Claims, Result
    <3> QED
      BY <1>5, <2>1, <2>2, <3>1
  <2>3. CASE Throw(p, "fault", "onError")
    BY <1>4, <1>6, <2>3
  <2>4. CASE ~CanMerge(p) /\ Throw(p, "merge", "onError")
    <3>1. RefusalFits(p, "merge")
      BY <2>1, <2>4 DEF RefusalFits
    <3> QED
      BY <1>4, <2>4, <3>1
  <2> QED
    BY <1>13, <2>2, <2>3, <2>4 DEF RunMerge, HandlerThrows
<1>14. CASE StartChild(p)
  <2>1. /\ At(p, "body") /\ Node(p).kind \in Owners /\ MapKids(p)
        /\ {Last(q)[1] : q \in Children(p)} = Ordered(p)
    BY <1>0, <1>14 DEF StartChild, At, Begun
  <2>2. CASE BadMap(p) /\ Throw(p, "shape", "onError")
    <3>1. RefusalFits(p, "shape")
      BY <2>1, <2>2 DEF RefusalFits
    <3> QED
      BY <1>4, <2>2, <3>1
  <2>3. CASE Throw(p, "cycle", "onError")
    BY <1>4, <1>6, <2>3
  <2>4. CASE Ready(p) # {} /\ Begin(p, Kid(p, NextKid(p), 0), NextKid(p), NeedsOf(p, NextKid(p)))
    <3> DEFINE k == NextKid(p)
    <3>1. k \in Ready(p)
      BY <1>0, <2>4, NextIsReady
    <3>2. k \in ToSet(Node(p).kids) \ Ordered(p) /\ wf[k].needs \subseteq Ordered(p)
      BY <3>1 DEF Ready
    <3> HIDE DEF k
    <3>3. k \in Ids
      <4>1. Node(p).kids \in Seq(Ids)
        BY <1>0, GraphAssumption DEF FramesTyped, Frames, Node, Ids
      <4> QED
        BY <3>2, <4>1 DEF ToSet
    <3>4. Kid(p, k, 0) \notin DOMAIN frames
      <4>1. \A q \in Children(p) : Last(q)[1] \in Ordered(p)
        BY <2>1
      <4> QED
        BY <2>1, <3>2, <3>3, <4>1, NotBegun
    <3>5. ASSUME NEW d \in NeedsOf(p, k)
          PROVE  LET j == Kid(p, d.id, 0)
                 IN /\ d.id \in wf[k].needs /\ d.status \in {"succeeded", "skipped"}
                    /\ j \in DOMAIN frames /\ frames[j].status = d.status /\ frames[j].result = d.result
      <4>1. PICK n \in wf[k].needs : d = [id |-> n, status |-> ChildOf(p, n).status, result |-> ChildOf(p, n).result]
        BY <3>5 DEF NeedsOf
      <4>2. d.id = n /\ d.status = frames[Kid(p, n, 0)].status /\ d.result = frames[Kid(p, n, 0)].result
        BY <4>1 DEF ChildOf
      <4>3. PICK q \in Children(p) : Last(q)[1] = n
        BY <2>1, <3>2
      <4>4. q = Kid(p, n, 0) /\ ~Live(q) /\ frames[q].status # "failed"
        BY <2>1, <3>2, <4>3 DEF MapKids
      <4>5. q \in DOMAIN frames /\ frames[q].status \in {"succeeded", "skipped"}
        BY <1>0, <4>3, <4>4 DEF Children, Live, FramesTyped, Frames, Statuses
      <4> QED
        BY <4>2, <4>4, <4>5
    <3> QED
      BY <1>0, <2>4, <3>3, <3>4, <3>5, BeginsFits DEF k
  <2> QED
    BY <1>14, <2>2, <2>3, <2>4 DEF StartChild
<1>15. CASE ChildEnds(p)
  <2>1. PICK q \in Children(p) :
          IF frames[q].status = "failed" THEN Throw(p, "child", "onError")
          ELSE frames' = [frames EXCEPT ![p].order = Append(@, Last(q)[1])]
    BY <1>15 DEF ChildEnds
  <2>2. CASE Throw(p, "child", "onError")
    BY <1>4, <1>6, <2>2
  <2>3. CASE frames' = [frames EXCEPT ![p].order = Append(@, Last(q)[1])]
    <3>1. f.phase = "body"
      BY <1>15 DEF ChildEnds, At
    <3>2. Changes(p) /\ frames'[p] = [f EXCEPT !.order = Append(@, Last(q)[1])]
      BY <2>3 DEF Changes
    <3>3. frames'[p] = [node |-> f.node, refs |-> f.refs, needs |-> f.needs, phase |-> f.phase,
                        order |-> Append(f.order, Last(q)[1]), status |-> f.status, result |-> f.result, why |-> f.why]
      BY <1>0, <3>2 DEF Frames
    <3>4. Retold(p, "body", "live", f.result, f.why)
      BY <1>0, <3>1, <3>2, <3>3 DEF Retold
    <3>5. ~SkippedNeed(p)
      BY <1>1, <3>1 DEF Unanswered
    <3> QED
      BY <1>3, <3>1, <3>4, <3>5
  <2> QED
    BY <2>1, <2>2, <2>3
<1>16. CASE FinishMap(p)
  <2>1. f.phase = "body" /\ Node(p).kind \in Owners /\ Ordered(p) = ToSet(Node(p).kids)
    BY <1>16 DEF FinishMap, At
  <2>2. Well(p)
    BY <1>0, <2>1 DEF Begun, MapKids, Well
  <2>3. CASE Node(p).kind # "git.worktree" /\ Return(p, Result("CompositeResult", FALSE, Collected(p)))
    <3> DEFINE r == Result("CompositeResult", FALSE, Collected(p))
    <3>1. Claims(r) => Deep(p)
      BY <2>2, CollectedFits DEF Claims, Result
    <3>2. ResultFits(p, r) /\ MergeFits(p, r)
      BY <2>3, <3>1 DEF ResultFits, MergeFits, Result
    <3> QED
      BY <1>5, <2>1, <2>3, <3>2
  <2>4. CASE Node(p).kind = "git.worktree" /\ \E e \in BOOLEAN : Return(p, Workspace(e))
    <3>1. PICK e \in BOOLEAN : Return(p, Workspace(e))
      BY <2>4
    <3>2. ResultFits(p, Workspace(e)) /\ MergeFits(p, Workspace(e))
      BY <2>4 DEF ResultFits, MergeFits, Workspace, Result
    <3> QED
      BY <1>5, <2>1, <3>1, <3>2
  <2> QED
    BY <1>16, <2>3, <2>4 DEF FinishMap
<1>17. CASE WorktreeThrows(p)
  BY <1>4, <1>6, <1>17 DEF WorktreeThrows, HandlerThrows
<1>18. CASE StartIteration(p)
  <2>1. At(p, "body") /\ Node(p).kind = "loop" /\ LoopKids(p)
    BY <1>0, <1>18 DEF StartIteration, At, Begun, Owners
  <2>2. CASE LoopIsDefined(Node(p))
    <3> DEFINE k == Node(p).kids[1]
               i == Cardinality(Children(p)) + 1
    <3>1. Begin(p, Kid(p, k, i), k, {})
      BY <1>18, <2>2 DEF StartIteration
    <3>2. k \in Ids
      <4>1. Node(p).kids \in Seq(Ids) /\ Node(p).kids # <<>>
        BY <1>0, <2>2, GraphAssumption DEF FramesTyped, Frames, Node, Ids, LoopIsDefined
      <4> QED
        BY <4>1
    <3>3. i \in Nat
      BY <2>1, FS_CardinalityType DEF LoopKids
    <3>4. Kid(p, k, i) \notin DOMAIN frames
      BY <2>1, <2>2, <3>2, <3>3, NotBegun
    <3> QED
      BY <1>0, <3>1, <3>2, <3>3, <3>4, BeginsFits
  <2>3. CASE ~LoopIsDefined(Node(p))
    <3>1. Throw(p, "shape", "onError") /\ RefusalFits(p, "shape")
      BY <1>18, <2>1, <2>3 DEF StartIteration, RefusalFits
    <3> QED
      BY <1>4, <3>1
  <2> QED
    BY <2>2, <2>3
<1>19. CASE FinishLoop(p)
  <2>1. f.phase = "body" /\ Node(p).kind = "loop"
    BY <1>19 DEF FinishLoop, At
  <2>2. CASE Throw(p, "child", "onError")
    BY <1>4, <1>6, <2>2
  <2>3. CASE ~Breaking(p) /\ Return(p, LoopResult(p))
    <3>1. Well(p)
      BY <1>19, <2>3 DEF FinishLoop, Settled, Running, Breaking, Well
    <3>2. (\E c \in Collected(p) : c.effects) => Deep(p)
      BY <3>1, CollectedFits
    <3>3. ResultFits(p, LoopResult(p)) /\ MergeFits(p, LoopResult(p))
      BY <2>1, <3>2 DEF ResultFits, MergeFits, LoopResult, Result, Claims
    <3> QED
      BY <1>5, <2>1, <2>3, <3>3
  <2> QED
    BY <1>19, <2>2, <2>3 DEF FinishLoop
<1> QED
  BY <1>7, <1>8, <1>9, <1>10, <1>11, <1>12, <1>13, <1>14, <1>15, <1>16, <1>17, <1>18, <1>19 DEF Step

LEMMA InitSound == Init => SoundInv
<1> SUFFICES ASSUME Init PROVE SoundInv
  OBVIOUS
<1>1. DOMAIN frames = {Root} /\ frames[Root] = Frame("root", <<>>, {})
  BY DEF Init, GraphInit
<1>2. Last(Root) = <<"root", 0>>
  BY DEF Root, Last
<1>3. Fits(Root)
  BY <1>1, <1>2 DEF Fits, Frame, Placed, Supplied, Unanswered, MergeFits, RefusalFits, NoResult, Result
<1> QED
  BY <1>1, <1>3 DEF SoundInv

LEMMA NextSound == GraphInv /\ SoundInv /\ [Next]_vars => SoundInv'
<1> SUFFICES ASSUME GraphInv, SoundInv, [Next]_vars PROVE SoundInv'
  OBVIOUS
<1>1. (\E p \in DOMAIN frames : Step(p)) \/ UNCHANGED graphVars
  BY DEF Next, Walks, GraphNext, vars
<1>2. CASE UNCHANGED graphVars
  <2>1. wf' = wf /\ frames' = frames
    BY <1>2 DEF graphVars
  <2>2. Grows
    BY <2>1 DEF Grows
  <2> QED
    BY <2>1, <2>2, FitsStays DEF SoundInv
<1> QED
  BY <1>1, <1>2, SoundStep

\* What the validator calls mergeable is a worktree or one of what inherits from its children:
\* the recursion has a least solution, also when kids lead back to their node.
LEMMA MergeableKinds ==
  ASSUME NEW w \in Workflows, NEW n \in Mergeable(w)
  PROVE  w[n].kind = "git.worktree" \/ Inherits(w[n].kind)
<1> DEFINE D == DOMAIN w
           Takes(k, X) == \/ w[k].kind = "git.worktree"
                          \/ Inherits(w[k].kind) /\ \E j \in ToSet(w[k].kids) : j \in X
           Closed(X) == \A k \in D : Takes(k, X) => k \in X
           Least == {k \in D : \A X \in SUBSET D : Closed(X) => k \in X}
           Body(f) == [k \in D |-> \/ w[k].kind = "git.worktree"
                                   \/ Inherits(w[k].kind) /\ \E j \in ToSet(w[k].kids) : f[j]]
           m == [k \in D |-> k \in Least]
<1>1. \A k \in D : ToSet(w[k].kids) \subseteq D
  BY GraphAssumption DEF ToSet
<1>2. ASSUME NEW k \in D
      PROVE  k \in Least <=> Takes(k, Least)
  <2>1. \A X \in SUBSET D : Closed(X) => Least \subseteq X
    OBVIOUS
  <2>2. ASSUME NEW j \in D, Takes(j, Least)
        PROVE  j \in Least
    <3>1. ASSUME NEW X \in SUBSET D, Closed(X)
          PROVE  j \in X
      <4>1. Takes(j, X)
        BY <2>1, <2>2, <3>1
      <4> QED
        BY <3>1, <4>1
    <3> QED
      BY <3>1
  <2>3. ASSUME k \in Least, ~Takes(k, Least)
        PROVE  FALSE
    <3> DEFINE Y == Least \ {k}
    <3>1. Closed(Y)
      <4>1. ASSUME NEW j \in D, Takes(j, Y)
            PROVE  j \in Y
        <5>1. Takes(j, Least)
          BY <4>1
        <5> QED
          BY <2>2, <2>3, <5>1
      <4> QED
        BY <4>1
    <3>2. Y \in SUBSET D
      OBVIOUS
    <3> QED
      BY <2>3, <3>1, <3>2
  <2> QED
    BY <2>2, <2>3
<1> HIDE DEF Least
<1>3. m = Body(m)
  <2>1. \A k \in D : m[k] = (\/ w[k].kind = "git.worktree"
                             \/ Inherits(w[k].kind) /\ \E j \in ToSet(w[k].kids) : m[j])
    <3> TAKE k \in D
    <3>1. \A j \in ToSet(w[k].kids) : m[j] = (j \in Least)
      BY <1>1
    <3>2. m[k] = (k \in Least)
      OBVIOUS
    <3>3. (\E j \in ToSet(w[k].kids) : m[j]) <=> \E j \in ToSet(w[k].kids) : j \in Least
      BY <3>1
    <3> HIDE DEF m
    <3>4. k \in Least <=> (w[k].kind = "git.worktree" \/ (Inherits(w[k].kind) /\ \E j \in ToSet(w[k].kids) : j \in Least))
      BY <1>2
    <3>5. m[k] <=> (w[k].kind = "git.worktree" \/ (Inherits(w[k].kind) /\ \E j \in ToSet(w[k].kids) : m[j]))
      BY <3>2, <3>3, <3>4
    <3>6. m[k] \in BOOLEAN
      BY <3>2
    <3> QED
      BY <3>5, <3>6
  <2> QED
    BY <2>1
<1> DEFINE c == CHOOSE f : f = Body(f)
<1>4. c = Body(c)
  BY <1>3
<1>5. n \in D /\ c[n]
  BY DEF Mergeable
<1> HIDE DEF c
<1>6. Body(c)[n]
  BY <1>4, <1>5
<1> QED
  BY <1>5, <1>6

\* Merges take finished work with effects only, and a graph that a validator accepted is refused
\* for what that validator does not look at: for any workflows, named pipelines and depth, and
\* whatever throws or is skipped (executeMergeNode, validateWorkflowModel, validateConfigGraphNodes).
THEOREM SoundGraphs == Spec => []GraphsAreSound
<1>1. GraphInv /\ SoundInv => MergesOnlyFinishedWork
  <2> SUFFICES ASSUME GraphInv, SoundInv, NEW p \in DOMAIN frames, Node(p).kind = "git.merge",
                      frames[p].result.type = "GitMergeResult", NEW n \in MergeInputs(p)
               PROVE  LET i == Kid(Front(p), n, 0)
                      IN /\ i \in DOMAIN frames
                         /\ \A q \in {i} \union Below(i) : frames[q].status \in {"succeeded", "skipped"}
                         /\ \E q \in {i} \union Below(i) :
                              Node(q).kind = "git.worktree" /\ frames[q].status = "succeeded" /\ frames[q].result.effects
    BY DEF MergesOnlyFinishedWork, Merged
  <2>1. Fits(p) /\ CanMerge(p)
    BY DEF SoundInv, Fits, MergeFits
  <2>2. PICK d \in frames[p].needs : d.id = n /\ IsMergeable(d.result) /\ d.result.effects
    BY <2>1 DEF CanMerge, HasMergeEffects
  <2> DEFINE i == Kid(Front(p), n, 0)
  <2>3. i \in DOMAIN frames /\ frames[i].status \in {"succeeded", "skipped"} /\ frames[i].result = d.result
    BY <2>1, <2>2 DEF Fits, Supplied
  <2> HIDE DEF i
  <2>4. Fits(i) /\ Claims(frames[i].result) /\ frames[i].result # NoResult
    BY <2>2, <2>3 DEF SoundInv, Claims, IsMergeable, NoResult, Result
  <2>5. frames[i].status = "succeeded"
    BY <2>3, <2>4 DEF Fits, Unanswered
  <2>6. Effects(i) \/ Deep(i)
    BY <2>3, <2>4, <2>5, Claimed
  <2>7. \A q \in {i} \union Below(i) : frames[q].status \in {"succeeded", "skipped"}
    BY <2>3, BelowEnded
  <2> QED
    BY <2>3, <2>6, <2>7 DEF Effects, Deep, i
<1>2. GraphInv /\ SoundInv => AcceptedGraphsAreSound
  <2> SUFFICES ASSUME GraphInv, SoundInv, Accepted(wf), NEW p \in DOMAIN frames, frames[p].why \in {"shape", "merge"},
                      frames[p].why = "merge" => MergeInputs(p) \subseteq {d.id : d \in frames[p].needs}
               PROVE  frames[p].why = "merge" /\ Excused(p) # {}
    BY DEF AcceptedGraphsAreSound
  <2>1. /\ Fits(p) /\ wf \in Workflows /\ frames[p].node \in Ids /\ ValidNode(wf, frames[p].node)
    BY DEF SoundInv, GraphInv, FramesTyped, Frames, Accepted, Ids
  <2>2. frames[p].why # "shape"
    <3>1. Known(p) \/ Node(p).kind = "$ref"
      BY <2>1 DEF Known, Node, ValidNode
    <3>2. Node(p).kind \in Owners => ~BadMap(p)
      BY <2>1 DEF BadMap, Node, ValidNode, ValidChildren
    <3>3. Node(p).kind = "loop" => LoopIsDefined(Node(p))
      BY <2>1 DEF Node, ValidNode
    <3> QED
      BY <2>1, <3>1, <3>2, <3>3 DEF Fits, RefusalFits
  <2>3. /\ Node(p).kind = "git.merge" /\ ~CanMerge(p) /\ ~SkippedNeed(p)
        /\ MergeInputs(p) \subseteq {d.id : d \in frames[p].needs}
    BY <2>1, <2>2 DEF Fits, RefusalFits
  <2>4. frames[p].node = Last(p)[1] /\ Node(p).needs # {} /\ Node(p).needs \subseteq Mergeable(wf)
    BY <2>1, <2>3 DEF Fits, Placed, Node, ValidNode, ValidMerge
  <2>5. PICK d \in frames[p].needs : ~(IsMergeable(d.result) /\ d.result.effects)
    <3>1. MergeInputs(p) # {}
      BY <2>4 DEF MergeInputs
    <3>2. PICK n \in MergeInputs(p) : \A d \in frames[p].needs :
                                        d.id = n => ~(IsMergeable(d.result) /\ d.result.effects)
      BY <2>3, <3>1 DEF CanMerge, HasMergeEffects
    <3> QED
      BY <2>3, <3>2
  <2> DEFINE i == Kid(Front(p), d.id, 0)
  <2>6. /\ d.id \in Node(p).needs /\ d.status \in {"succeeded", "skipped"}
        /\ i \in DOMAIN frames /\ frames[i].status = d.status /\ frames[i].result = d.result
    BY <2>1, <2>4, <2>5 DEF Fits, Supplied, Node
  <2>7. d.id \in Mergeable(wf) /\ d.id \in Ids /\ wf[d.id].kind \in {"git.worktree", "loop"}
    <3>1. d.id \in Mergeable(wf) /\ d.id \in Ids
      BY <2>4, <2>6 DEF Mergeable, Ids
    <3>2. wf[d.id].kind = "git.worktree" \/ Inherits(wf[d.id].kind)
      BY <2>1, <3>1, MergeableKinds
    <3>3. wf[d.id].kind # "iteration"
      BY <2>1, <2>6, <3>1, GraphAssumption DEF Node, Ids
    <3> QED
      BY <3>1, <3>2, <3>3 DEF Inherits
  <2>8. CASE wf[d.id].kind = "git.worktree"
    <3>1. Last(i) = <<d.id, 0>>
      BY <2>6, <2>7, LastOfKid DEF GraphInv
    <3>2. frames[i].status = "succeeded"
      BY <2>3, <2>5, <2>6 DEF SkippedNeed
    <3>3. Fits(i)
      BY <2>6 DEF SoundInv
    <3>4. frames[i].node = d.id
      BY <2>8, <3>1, <3>3 DEF Fits, Placed
    <3>5. d.result = Workspace(d.result.effects)
      BY <2>6, <2>8, <3>2, <3>3, <3>4 DEF Fits, ResultFits, Node
    <3>6. IsMergeable(d.result)
      BY <3>5 DEF IsMergeable, Workspace, Result
    <3> QED
      BY <2>2, <2>5, <2>8, <3>6 DEF Excused
  <2>9. CASE wf[d.id].kind = "loop"
    BY <2>2, <2>9 DEF Excused
  <2> QED
    BY <2>7, <2>8, <2>9
<1>3. GraphInv /\ SoundInv => ConfiguredGraphsAreSound
  <2> SUFFICES ASSUME GraphInv, SoundInv, ConfigAccepts(wf), NEW p \in DOMAIN frames, frames[p].why = "shape"
               PROVE  \/ ~Known(p) \/ ~NeedsSiblings(wf, frames[p].node)
                      \/ Node(p).kind = "iteration" /\ Node(p).kids = <<>>
    BY DEF ConfiguredGraphsAreSound
  <2>1. Fits(p) /\ frames[p].node \in Ids
    BY DEF SoundInv, GraphInv, FramesTyped, Frames
  <2>2. /\ Node(p).kind = "loop" => LoopIsDefined(Node(p))
        /\ Node(p).kind \in {"composite", "git.worktree"} => Node(p).kids # <<>>
    BY <2>1 DEF ConfigAccepts, Node, Ids
  <2> QED
    BY <2>1, <2>2 DEF Fits, RefusalFits, BadMap, Owners
<1> QED
  BY <1>1, <1>2, <1>3, InitGraph, NextGraph, InitSound, NextSound, PTL DEF Spec, GraphsAreSound

-----------------------------------------------------------------------------
(* The agents and their images *)

AgentNext == PipelineNext \/ RoleNext \/ ChildNext \/ Using(Rebuilds)
AgentSpec == AgentInit /\ [][AgentNext]_agentVars

Builders == Jobs \union Rebuilds
JobStates == [pc : Stages \union Builders, attempt : Nat, repaired : BOOLEAN, saw : Nat]

\* There is a build exactly while there is one to join.
ImagesTyped ==
  /\ scaffold \in [there : BOOLEAN, version : Nat, outdated : BOOLEAN]
  /\ image \in [there : BOOLEAN, of : Nat, stale : BOOLEAN]
  /\ inFlight \in Builders \union {NoOne}
  /\ builds \in [IF inFlight = NoOne THEN {} ELSE {inFlight} -> Nat]
  /\ job \in [Jobs -> JobStates]
  /\ missed \in BOOLEAN

\* Unless a change was missed an image that is not stale, or is being built, is of the
\* scaffold there is; and so is what anybody saw since the last change.
ImagesTrue ==
  /\ ~missed /\ image.there /\ ~image.stale => image.of = scaffold.version
  /\ ~missed => \A b \in DOMAIN builds : builds[b] = scaffold.version
  /\ \A j \in Jobs :
       /\ job[j].saw > 0 => job[j].saw = scaffold.version
       /\ job[j].pc = "ready" /\ job[j].saw > 0 /\ scaffold.there /\ ~missed =>
            image.there /\ ~image.stale

\* What closes was repaired.
Repaired == \A j \in Jobs : job[j].pc = "close" => job[j].repaired

AgentInv == ImagesTyped /\ ImagesTrue /\ Repaired

-----------------------------------------------------------------------------
(* The steps *)

LEMMA InitAgents == AgentInit => AgentInv
<1> SUFFICES ASSUME AgentInit PROVE AgentInv
  OBVIOUS
<1>1. ImagesTyped
  <2>1. Fresh \in JobStates
    BY DEF Fresh, JobStates, Stages
  <2>2. inFlight = NoOne /\ missed = FALSE /\ job = [j \in Jobs |-> Fresh]
    BY DEF AgentInit
  <2>3. builds \in [IF inFlight = NoOne THEN {} ELSE {inFlight} -> Nat]
    BY <2>2 DEF AgentInit
  <2>4. /\ scaffold \in [there : BOOLEAN, version : Nat, outdated : BOOLEAN]
        /\ image \in [there : BOOLEAN, of : Nat, stale : BOOLEAN]
    <3>1. scaffold = [there |-> TRUE, version |-> 1, outdated |-> FALSE]
      BY DEF AgentInit
    <3>2. image \in [there : BOOLEAN, of : {1}, stale : {FALSE}]
      BY DEF AgentInit
    <3>3. {1} \subseteq Nat /\ {FALSE} \subseteq BOOLEAN
      OBVIOUS
    <3>4. image \in [there : BOOLEAN, of : Nat, stale : BOOLEAN]
      BY <3>2, <3>3
    <3>5. scaffold \in [there : BOOLEAN, version : Nat, outdated : BOOLEAN]
      BY <3>1
    <3> QED
      BY <3>4, <3>5
  <2> QED
    BY <2>1, <2>2, <2>3, <2>4 DEF ImagesTyped
<1> QED
  BY <1>1 DEF AgentInit, AgentInv, ImagesTrue, Repaired, Fresh

LEMMA Same == AgentInv /\ UNCHANGED <<scaffold, image, builds, inFlight, job, missed>> => AgentInv'
BY DEF AgentInv, ImagesTyped, ImagesTrue, Repaired

\* A step that only moves j on, to a stage that is not what its image decides.
LEMMA Moving ==
  ASSUME AgentInv, ImageSame, NEW j \in Jobs, NEW r \in JobStates, job' = [job EXCEPT ![j] = r],
         r.saw \in {0, job[j].saw}, r.pc # "ready", r.pc = "close" => r.repaired
  PROVE  AgentInv'
<1>1. job' \in [Jobs -> JobStates] /\ \A i \in Jobs : job'[i] = IF i = j THEN r ELSE job[i]
  BY DEF AgentInv, ImagesTyped
<1>2. ImagesTyped'
  BY <1>1 DEF AgentInv, ImagesTyped, ImageSame
<1>3. ImagesTrue'
  BY <1>1 DEF AgentInv, ImagesTrue, ImageSame
<1>4. Repaired'
  BY <1>1 DEF AgentInv, Repaired
<1> QED
  BY <1>2, <1>3, <1>4 DEF AgentInv

\* The same for the two ways to do so.
LEMMA Going ==
  ASSUME AgentInv, ImageSame, NEW j \in Jobs, NEW s \in Stages \ {"ready", "close"}, Go(j, s) \/ Done(j, s)
  PROVE  AgentInv'
<1>1. job[j] \in JobStates
  BY DEF AgentInv, ImagesTyped
<1>2. CASE Go(j, s)
  <2> DEFINE r == [job[j] EXCEPT !.pc = s]
  <2>1. r \in JobStates /\ r.pc = s /\ r.saw = job[j].saw
    BY <1>1 DEF JobStates
  <2>2. job' = [job EXCEPT ![j] = r]
    BY <1>2 DEF Go
  <2> HIDE DEF r
  <2> QED
    BY <2>1, <2>2, Moving
<1>3. CASE Done(j, s)
  <2> DEFINE r == [Fresh EXCEPT !.pc = s]
  <2>1. r \in JobStates /\ r.pc = s /\ r.saw = 0
    BY DEF JobStates, Fresh
  <2>2. job' = [job EXCEPT ![j] = r]
    BY <1>3 DEF Done
  <2> HIDE DEF r
  <2> QED
    BY <2>1, <2>2, Moving
<1> QED
  BY <1>2, <1>3

\* A step that changes the scaffold, of which nobody is told.
LEMMA Changing ==
  ASSUME AgentInv, Changed, UNCHANGED <<builds, inFlight>>,
         scaffold' \in [there : BOOLEAN, version : Nat, outdated : BOOLEAN],
         \/ scaffold'.version = scaffold.version /\ UNCHANGED image
         \/ image' = [image EXCEPT !.stale = TRUE]
  PROVE  AgentInv'
<1>1. \A j \in Jobs : job'[j] \in JobStates /\ job'[j].saw = 0 /\ job'[j].pc = job[j].pc /\ job'[j].repaired = job[j].repaired
  BY DEF Changed, AgentInv, ImagesTyped, JobStates
<1>2. ImagesTyped'
  BY <1>1 DEF Changed, AgentInv, ImagesTyped
<1>3. ~missed' => ~missed /\ DOMAIN builds' = {}
  BY DEF Changed, AgentInv, ImagesTyped
<1>4. image'.there /\ ~image'.stale /\ ~missed' => image'.of = scaffold'.version
  BY <1>3 DEF AgentInv, ImagesTrue, ImagesTyped
<1>5. ImagesTrue'
  BY <1>1, <1>3, <1>4 DEF ImagesTrue
<1>6. Repaired'
  BY <1>1 DEF AgentInv, Repaired
<1> QED
  BY <1>2, <1>5, <1>6 DEF AgentInv

\* Whoever needs the image joins the build there is, or starts one of what it sees.
LEMMA Joining ==
  ASSUME AgentInv, NEW who \in Builders, BuildOnce(who), UNCHANGED <<scaffold, missed>>
  PROVE  /\ WaitsFor(who) \in Builders /\ inFlight' \in Builders \union {NoOne}
         /\ builds' \in [IF inFlight' = NoOne THEN {} ELSE {inFlight'} -> Nat]
         /\ ~missed' => \A b \in DOMAIN builds' : builds'[b] = scaffold'.version
<1>1. NoOne \notin Builders
  BY BuildersAssumption DEF Builders, Rebuilds, NoOne
<1>2. CASE Joins
  BY <1>2 DEF BuildOnce, WaitsFor, Joins, AgentInv, ImagesTyped, ImagesTrue
<1>3. CASE ~Joins
  <2>1. inFlight = NoOne /\ DOMAIN builds = {}
    BY <1>3 DEF Joins, AgentInv, ImagesTyped
  <2>2. inFlight' = who /\ builds' = [b \in {who} |-> scaffold.version]
    BY <1>3, <2>1 DEF BuildOnce
  <2>3. scaffold.version \in Nat
    BY DEF AgentInv, ImagesTyped
  <2> QED
    BY <1>1, <1>3, <2>1, <2>2, <2>3 DEF WaitsFor
<1> QED
  BY <1>2, <1>3

LEMMA BuildKeeps == AgentInv /\ BuildEnds => AgentInv'
<1> SUFFICES ASSUME AgentInv, BuildEnds PROVE AgentInv'
  OBVIOUS
<1>1. PICK b \in DOMAIN builds, ok \in BOOLEAN :
        /\ image' = IF ok THEN [there |-> TRUE, of |-> builds[b], stale |-> FALSE] ELSE image
        /\ builds' = [c \in DOMAIN builds \ {b} |-> builds[c]]
        /\ inFlight' = IF inFlight = b THEN NoOne ELSE inFlight
        /\ job' = [j \in Jobs |-> IF j \notin {i \in Jobs : job[i].pc = b} THEN job[j]
                                  ELSE IF ok THEN [job[j] EXCEPT !.pc = "ready"] ELSE [Fresh EXCEPT !.pc = "broken"]]
        /\ UNCHANGED <<scaffold, missed>>
  BY DEF BuildEnds
<1>2. b = inFlight /\ inFlight # NoOne /\ DOMAIN builds = {b} /\ builds[b] \in Nat
  BY <1>1 DEF AgentInv, ImagesTyped
<1>3. inFlight' = NoOne /\ builds' \in [{} -> Nat] /\ DOMAIN builds' = {}
  BY <1>1, <1>2
<1>4. \A j \in Jobs :
        \/ job'[j] = job[j] /\ job[j].pc # b
        \/ ok /\ job'[j] = [job[j] EXCEPT !.pc = "ready"]
        \/ ~ok /\ job'[j] = [Fresh EXCEPT !.pc = "broken"]
  BY <1>1
<1>5. \A j \in Jobs : job[j] \in JobStates
  BY DEF AgentInv, ImagesTyped
<1>6. \A j \in Jobs :
        /\ job'[j] \in JobStates
        /\ job'[j].saw \in {0, job[j].saw}
        /\ job'[j].pc = "ready" => ok \/ (job[j].pc = "ready" /\ job'[j] = job[j])
        /\ job'[j].pc = "close" => job[j].pc = "close" /\ job'[j] = job[j]
  <2> TAKE j \in Jobs
  <2>1. job[j] \in JobStates
    BY <1>5
  <2>2. CASE job'[j] = job[j]
    BY <2>1, <2>2
  <2>3. CASE ok /\ job'[j] = [job[j] EXCEPT !.pc = "ready"]
    BY <2>1, <2>3 DEF JobStates, Stages
  <2>4. CASE ~ok /\ job'[j] = [Fresh EXCEPT !.pc = "broken"]
    <3>1. job'[j] = [pc |-> "broken", attempt |-> 0, repaired |-> FALSE, saw |-> 0]
      BY <2>4 DEF Fresh
    <3>2. "broken" \in Stages \union Builders
      BY DEF Stages
    <3> QED
      BY <3>1, <3>2 DEF JobStates
  <2> QED
    BY <1>4, <2>2, <2>3, <2>4
<1>7. image' \in [there : BOOLEAN, of : Nat, stale : BOOLEAN]
  BY <1>1, <1>2 DEF AgentInv, ImagesTyped
<1>8. ImagesTyped'
  BY <1>1, <1>3, <1>6, <1>7 DEF AgentInv, ImagesTyped
<1>9. ~missed' /\ image'.there /\ ~image'.stale => image'.of = scaffold'.version
  BY <1>1, <1>2 DEF AgentInv, ImagesTrue
<1>10. ImagesTrue'
  <2>1. ok => image'.there /\ ~image'.stale
    BY <1>1
  <2>2. ~ok => UNCHANGED image
    BY <1>1
  <2>3. \A j \in Jobs : job'[j].saw > 0 => job'[j].saw = scaffold'.version
    <3> TAKE j \in Jobs
    <3>1. job'[j].saw = 0 \/ job'[j].saw = job[j].saw
      BY <1>6
    <3>2. job[j].saw > 0 => job[j].saw = scaffold.version
      BY DEF AgentInv, ImagesTrue
    <3> QED
      BY <1>1, <3>1, <3>2
  <2>4. ASSUME NEW j \in Jobs, job'[j].pc = "ready", job'[j].saw > 0, scaffold'.there, ~missed'
        PROVE  image'.there /\ ~image'.stale
    BY <1>1, <1>6, <2>1, <2>2, <2>4 DEF AgentInv, ImagesTrue
  <2> QED
    BY <1>3, <1>9, <2>3, <2>4 DEF ImagesTrue
<1>11. Repaired'
  BY <1>6 DEF AgentInv, Repaired
<1> QED
  BY <1>8, <1>10, <1>11 DEF AgentInv

LEMMA JobKeeps ==
  ASSUME AgentInv, NEW j \in Jobs, JobStep(j)
  PROVE  AgentInv'
<1>0. job[j] \in JobStates
  BY DEF AgentInv, ImagesTyped
<1>1. CASE Ensure(j)
  <2> DEFINE r == [job[j] EXCEPT !.pc = IF scaffold.there THEN "inspect" ELSE "ready", !.saw = scaffold.version]
  <2>1. r \in JobStates /\ r.saw = scaffold.version /\ (r.pc = "ready" => ~scaffold.there) /\ r.pc # "close"
    BY <1>0 DEF JobStates, Stages, AgentInv, ImagesTyped
  <2>2. job' = [job EXCEPT ![j] = r]
    BY <1>1 DEF Ensure
  <2>3. ImageSame
    BY <1>1 DEF Ensure
  <2> HIDE DEF r
  <2>4. job' \in [Jobs -> JobStates] /\ \A i \in Jobs : job'[i] = IF i = j THEN r ELSE job[i]
    BY <2>1, <2>2 DEF AgentInv, ImagesTyped
  <2>5. ImagesTyped'
    BY <2>3, <2>4 DEF AgentInv, ImagesTyped, ImageSame
  <2>6. ImagesTrue'
    BY <2>1, <2>3, <2>4 DEF AgentInv, ImagesTrue, ImageSame
  <2>7. Repaired'
    BY <2>1, <2>4 DEF AgentInv, Repaired
  <2> QED
    BY <2>5, <2>6, <2>7 DEF AgentInv
<1>2. CASE Inspect(j)
  <2>1. UNCHANGED <<scaffold, image, missed>>
    BY <1>2 DEF Inspect
  <2>2. CASE Needed
    <3> DEFINE r == [job[j] EXCEPT !.pc = WaitsFor(j)]
    <3>1. BuildOnce(j) /\ job' = [job EXCEPT ![j] = r]
      BY <1>2, <2>2 DEF Inspect, Go
    <3>2. /\ WaitsFor(j) \in Builders /\ inFlight' \in Builders \union {NoOne}
          /\ builds' \in [IF inFlight' = NoOne THEN {} ELSE {inFlight'} -> Nat]
          /\ ~missed' => \A b \in DOMAIN builds' : builds'[b] = scaffold'.version
      BY <2>1, <3>1, Joining DEF Builders
    <3>3. r \in JobStates /\ r.saw = job[j].saw /\ r.pc \in Builders
      BY <1>0, <3>2 DEF JobStates
    <3>4. r.pc # "ready" /\ r.pc # "close"
      BY <3>3, BuildersAssumption DEF Builders, Rebuilds, Stages
    <3> HIDE DEF r
    <3>5. job' \in [Jobs -> JobStates] /\ \A i \in Jobs : job'[i] = IF i = j THEN r ELSE job[i]
      BY <3>1, <3>3 DEF AgentInv, ImagesTyped
    <3>6. ImagesTyped'
      BY <2>1, <3>2, <3>5 DEF AgentInv, ImagesTyped
    <3>7. ImagesTrue'
      BY <2>1, <3>2, <3>3, <3>4, <3>5 DEF AgentInv, ImagesTrue
    <3>8. Repaired'
      BY <3>4, <3>5 DEF AgentInv, Repaired
    <3> QED
      BY <3>6, <3>7, <3>8 DEF AgentInv
  <2>3. CASE ~Needed
    <3> DEFINE r == [job[j] EXCEPT !.pc = "ready"]
    <3>1. ImageSame /\ job' = [job EXCEPT ![j] = r]
      BY <1>2, <2>3 DEF Inspect, Go, ImageSame
    <3>2. r \in JobStates /\ r.saw = job[j].saw /\ r.pc = "ready"
      BY <1>0 DEF JobStates, Stages
    <3> HIDE DEF r
    <3>3. job' \in [Jobs -> JobStates] /\ \A i \in Jobs : job'[i] = IF i = j THEN r ELSE job[i]
      BY <3>1, <3>2 DEF AgentInv, ImagesTyped
    <3>4. image.there /\ ~image.stale
      BY <2>3 DEF Needed
    <3>5. ImagesTyped'
      BY <3>1, <3>3 DEF AgentInv, ImagesTyped, ImageSame
    <3>6. ImagesTrue'
      BY <3>1, <3>2, <3>3, <3>4 DEF AgentInv, ImagesTrue, ImageSame
    <3>7. Repaired'
      BY <3>2, <3>3 DEF AgentInv, Repaired
    <3> QED
      BY <3>5, <3>6, <3>7 DEF AgentInv
  <2> QED
    BY <2>2, <2>3
<1>3. CASE StartAgent(j)
  <2> DEFINE r == [job[j] EXCEPT !.pc = "agent", !.saw = 0]
  <2>1. r \in JobStates /\ r.saw = 0 /\ r.pc = "agent"
    BY <1>0 DEF JobStates, Stages
  <2>2. job' = [job EXCEPT ![j] = r] /\ ImageSame
    BY <1>3 DEF StartAgent
  <2> HIDE DEF r
  <2> QED
    BY <2>1, <2>2, Moving
<1> QED
  BY <1>1, <1>2, <1>3 DEF JobStep

LEMMA RebuildKeeps ==
  ASSUME AgentInv, NEW r \in Rebuilds, RebuildStep(r)
  PROVE  AgentInv'
<1>0. scaffold \in [there : BOOLEAN, version : Nat, outdated : BOOLEAN] /\ missed \in BOOLEAN
  BY DEF AgentInv, ImagesTyped
<1>1. CASE RemoveScaffold(r)
  <2>1. CASE UNCHANGED <<scaffold, job, missed>>
    BY <1>1, <2>1, Same DEF RemoveScaffold
  <2>2. CASE ~UNCHANGED <<scaffold, job, missed>>
    <3>1. scaffold' = [scaffold EXCEPT !.there = FALSE] /\ Changed /\ UNCHANGED <<image, builds, inFlight>>
      BY <1>1, <2>2 DEF RemoveScaffold
    <3> QED
      BY <1>0, <3>1, Changing
  <2> QED
    BY <2>1, <2>2
<1>2. CASE InitScaffold(r)
  <2>1. CASE UNCHANGED <<scaffold, image, job, missed>>
    BY <1>2, <2>1, Same DEF InitScaffold
  <2>2. CASE ~UNCHANGED <<scaffold, image, job, missed>>
    <3>1. /\ scaffold' = [there |-> TRUE, version |-> scaffold.version + 1, outdated |-> FALSE]
          /\ image' = [image EXCEPT !.stale = TRUE] /\ Changed /\ UNCHANGED <<builds, inFlight>>
      BY <1>2, <2>2 DEF InitScaffold
    <3> QED
      BY <1>0, <3>1, Changing
  <2> QED
    BY <2>1, <2>2
<1>3. CASE Build(r)
  <2>1. BuildOnce(r) /\ UNCHANGED <<scaffold, image, job, missed>>
    BY <1>3 DEF Build
  <2>2. /\ inFlight' \in Builders \union {NoOne}
        /\ builds' \in [IF inFlight' = NoOne THEN {} ELSE {inFlight'} -> Nat]
        /\ ~missed' => \A b \in DOMAIN builds' : builds'[b] = scaffold'.version
    BY <2>1, Joining DEF Builders
  <2> QED
    BY <2>1, <2>2 DEF AgentInv, ImagesTyped, ImagesTrue, Repaired
<1> QED
  BY <1>1, <1>2, <1>3 DEF RebuildStep

LEMMA LaneKeeps ==
  ASSUME AgentInv, NEW lane \in Lanes, LaneStep(lane)
  PROVE  AgentInv'
<1>0. lane \in Jobs /\ job[lane] \in JobStates
  BY DEF AgentInv, ImagesTyped, Jobs
<1>1. CASE StartStep(lane)
  BY <1>0, <1>1, Going DEF StartStep, Stages
<1>2. CASE NoWorktree(lane)
  BY <1>0, <1>2, Going DEF NoWorktree, Stages
<1>3. CASE AgentNodeEnds(lane)
  <2>1. CASE Done(lane, "broken")
    BY <1>0, <1>3, <2>1, Going DEF AgentNodeEnds, Stages
  <2>2. CASE ~Done(lane, "broken")
    <3> DEFINE r == [job[lane] EXCEPT !.pc = "close", !.repaired = TRUE]
    <3>1. r \in JobStates /\ r.pc = "close" /\ r.repaired /\ r.saw = job[lane].saw
      BY <1>0 DEF JobStates, Stages
    <3>2. ImageSame /\ job' = [job EXCEPT ![lane] = r]
      BY <1>3, <2>2 DEF AgentNodeEnds
    <3> HIDE DEF r
    <3> QED
      BY <1>0, <3>1, <3>2, Moving
  <2> QED
    BY <2>1, <2>2
<1>4. CASE Close(lane)
  <2>1. CASE \E s \in {"settled", "broken"} : Done(lane, s)
    BY <1>0, <1>4, <2>1, Going DEF Close, Stages
  <2>2. CASE ~\E s \in {"settled", "broken"} : Done(lane, s)
    <3> DEFINE r == [job[lane] EXCEPT !.pc = "finalize", !.attempt = @ + 1, !.repaired = FALSE]
    <3>1. r \in JobStates /\ r.pc = "finalize" /\ r.saw = job[lane].saw
      <4>1. job[lane].attempt + 1 \in Nat
        BY <1>0 DEF JobStates
      <4>2. "finalize" \in Stages \union Builders
        BY DEF Stages
      <4> QED
        BY <1>0, <4>1, <4>2 DEF JobStates
    <3>2. ImageSame /\ job' = [job EXCEPT ![lane] = r]
      BY <1>4, <2>2 DEF Close, AfterRejection
    <3> HIDE DEF r
    <3> QED
      BY <1>0, <3>1, <3>2, Moving
  <2> QED
    BY <2>1, <2>2
<1> QED
  BY <1>1, <1>2, <1>3, <1>4 DEF LaneStep

LEMMA NextAgents == AgentInv /\ [AgentNext]_agentVars => AgentInv'
<1> SUFFICES ASSUME AgentInv, [AgentNext]_agentVars PROVE AgentInv'
  OBVIOUS
<1>1. CASE PipelineNext
  <2>1. CASE StartPipeline \/ EndPipeline
    BY <2>1, Same DEF StartPipeline, EndPipeline, ImageSame
  <2> QED
    BY <1>1, <2>1, LaneKeeps DEF PipelineNext
<1>2. CASE RoleNext
  <2>1. PICK j \in Roles : StartRole(j) \/ RoleEnds(j)
    BY <1>2 DEF RoleNext
  <2>2. j \in Jobs
    BY DEF Jobs
  <2> QED
    BY <2>1, <2>2, Going DEF StartRole, RoleEnds, Stages
<1>3. CASE ChildNext
  <2>1. PICK j \in Dispatched : Dispatch(j) \/ Report(j) \/ ChildCloses(j)
    BY <1>3 DEF ChildNext
  <2>2. j \in Jobs
    BY DEF Jobs
  <2>3. CASE Report(j)
    BY <2>3, Same DEF Report, ImageSame
  <2>4. CASE Dispatch(j) \/ ChildCloses(j)
    BY <2>2, <2>4, Going DEF Dispatch, ChildCloses, Stages
  <2> QED
    BY <2>1, <2>3, <2>4
<1>4. CASE Using(Rebuilds)
  <2>1. CASE EditScaffold
    <3>1. /\ scaffold' = [scaffold EXCEPT !.version = @ + 1] /\ image' = [image EXCEPT !.stale = TRUE]
          /\ Changed /\ UNCHANGED <<builds, inFlight>>
      BY <2>1 DEF EditScaffold
    <3>2. scaffold \in [there : BOOLEAN, version : Nat, outdated : BOOLEAN]
      BY DEF AgentInv, ImagesTyped
    <3> QED
      BY <3>1, <3>2, Changing
  <2>2. CASE SaveConfig
    <3>1. scaffold' = [scaffold EXCEPT !.outdated = TRUE] /\ UNCHANGED <<image, builds, inFlight, job, missed>>
      BY <2>2 DEF SaveConfig
    <3> QED
      BY <3>1 DEF AgentInv, ImagesTyped, ImagesTrue, Repaired
  <2>3. CASE BuildImage
    BY <2>3, Same DEF BuildImage
  <2> QED
    BY <1>4, <2>1, <2>2, <2>3, BuildKeeps, JobKeeps, RebuildKeeps DEF Using
<1>5. CASE UNCHANGED agentVars
  BY <1>5, Same DEF agentVars
<1> QED
  BY <1>1, <1>2, <1>3, <1>4, <1>5 DEF AgentNext

\* The image, its builds and what jobs saw of the scaffold agree at all times, and a close waits
\* only for what was repaired (ensureSandboxImage, buildSandboxImageOnce, runCloseFinalizer).
THEOREM AgentsTyped == AgentSpec => []AgentInv
BY InitAgents, NextAgents, PTL DEF AgentSpec

\* The image of one scaffold is never built twice at a time, whoever asks for it
\* (buildSandboxImageOnce).
THEOREM BuiltOnce == AgentSpec => []OneBuild
<1>1. AgentInv => OneBuild
  <2> SUFFICES ASSUME AgentInv PROVE OneBuild
    OBVIOUS
  <2>1. DOMAIN builds = {} \/ DOMAIN builds = {inFlight}
    BY DEF AgentInv, ImagesTyped
  <2>2. Cardinality(DOMAIN builds) = 0 \/ Cardinality(DOMAIN builds) = 1
    BY <2>1, FS_EmptySet, FS_Singleton
  <2> QED
    BY <2>2 DEF OneBuild
<1> QED
  BY <1>1, AgentsTyped, PTL

\* Whoever starts an agent gets the image of the scaffold that it saw, unless the scaffold was
\* changed while the image was built (ensureSandboxImage, buildSandboxImageOnce).
THEOREM ImagesFit == AgentSpec => AgentsGetTheirImage
<1>1. AgentInv /\ [AgentNext]_agentVars =>
        [\A j \in Jobs : job[j].pc = "ready" /\ job'[j].pc = "agent" /\ scaffold.there /\ job[j].saw > 0 /\ ~missed
           => image.there /\ image.of = job[j].saw]_agentVars
  BY DEF AgentInv, ImagesTrue
<1> QED
  BY <1>1, AgentsTyped, PTL DEF AgentSpec, AgentsGetTheirImage

\* A rejected close is tried again only after its finalizer completed (runCloseFinalizer).
THEOREM ClosesAreRepaired == AgentSpec => RetriedAfterRepair
<1>1. AgentInv /\ [AgentNext]_agentVars =>
        [\A lane \in Lanes : job[lane].pc = "close" /\ job'[lane].pc # "close" => job[lane].repaired]_agentVars
  BY DEF AgentInv, Repaired, Jobs
<1> QED
  BY <1>1, AgentsTyped, PTL DEF AgentSpec, RetriedAfterRepair

-----------------------------------------------------------------------------
(* The pipeline's record *)

\* Between the record of its step and its outcome a lane works on the step.
Working == {"ensure", "inspect", "ready", "agent"} \union Builders
Resting == {"idle", "settled", "broken"}
StepRecord == [lane : Lanes, status : {"running", "completed", "failed"}]
RecordTyped ==
  /\ file = record /\ record = [status |-> record.status, steps |-> record.steps]
  /\ record.status \in {"none", "running", "completed", "failed"} /\ record.steps \in Seq(StepRecord)

\* A lane that works has a running step, a running step is the last of a lane that works or
\* broke, and a lane whose step failed is broken.
HasRunning(lane) == \E i \in DOMAIN record.steps : record.steps[i] = [lane |-> lane, status |-> "running"]
LastOfItsLane(i) == \A k \in DOMAIN record.steps : record.steps[k].lane = record.steps[i].lane => k =< i
StepFits(i) ==
  /\ record.steps[i].status = "running" =>
       LastOfItsLane(i) /\ job[record.steps[i].lane].pc \in Working \union {"broken"}
  /\ record.steps[i].status = "failed" => job[record.steps[i].lane].pc = "broken"
LanesFit ==
  \A lane \in Lanes :
    /\ job[lane].pc \in Working => HasRunning(lane)
    /\ record.status = "none" => job[lane].pc = "idle"
    /\ record.status \in {"completed", "failed"} => job[lane].pc \in Resting
    /\ record.status = "completed" => job[lane].pc = "settled"
StepsFit ==
  /\ \A i \in DOMAIN record.steps : StepFits(i)
  /\ record.status = "failed" => \A i \in DOMAIN record.steps : record.steps[i].status = "running" => i # Len(record.steps)
RecordInv == RecordTyped /\ LanesFit /\ StepsFit

LEMMA StepAt ==
  ASSUME RecordTyped, NEW i \in DOMAIN record.steps
  PROVE  /\ record.steps[i] \in StepRecord /\ record.steps[i].lane \in Lanes
         /\ record.steps[i].status \in {"running", "completed", "failed"}
         /\ i \in 1..Len(record.steps) /\ Len(record.steps) \in Nat
<1>1. record.steps \in Seq(StepRecord)
  BY DEF RecordTyped
<1>2. record.steps[i] \in StepRecord /\ i \in 1..Len(record.steps) /\ Len(record.steps) \in Nat
  BY <1>1
<1> QED
  BY <1>2 DEF StepRecord

LEMMA LanesApart ==
  /\ \A lane \in Lanes : lane \in Jobs /\ lane \notin Roles /\ lane \notin Dispatched
  /\ Working \intersect (Resting \union {"close", "finalize"}) = {}
  /\ \A w \in Working : w \in Stages \union Builders
<1>1. Working \intersect (Resting \union {"close", "finalize"}) = {}
  BY BuildersAssumption DEF Working, Resting, Builders, Rebuilds, Stages
<1> QED
  BY <1>1, AgentRunsAssumption DEF Jobs, Working, Stages

\* A step without a record moves a lane on with its image, or before its step or after it.
LaneMoves(lane) ==
  \/ job'[lane].pc = job[lane].pc
  \/ job[lane].pc \in Working /\ job'[lane].pc \in Working \union {"broken"}
  \/ record.status = "running" /\ job[lane].pc \notin Working \union {"broken"} /\ job'[lane].pc \notin Working

LEMMA RecordStays ==
  ASSUME RecordInv, UNCHANGED <<record, file>>, \A lane \in Lanes : LaneMoves(lane)
  PROVE  RecordInv'
<1>1. RecordTyped'
  BY DEF RecordInv, RecordTyped
<1>2. LanesFit'
  <2> SUFFICES ASSUME NEW lane \in Lanes
               PROVE  /\ job'[lane].pc \in Working => HasRunning(lane)
                      /\ record.status = "none" => job'[lane].pc = "idle"
                      /\ record.status \in {"completed", "failed"} => job'[lane].pc \in Resting
                      /\ record.status = "completed" => job'[lane].pc = "settled"
    BY DEF LanesFit, HasRunning
  <2>1. /\ job[lane].pc \in Working => HasRunning(lane)
        /\ record.status = "none" => job[lane].pc = "idle"
        /\ record.status \in {"completed", "failed"} => job[lane].pc \in Resting
        /\ record.status = "completed" => job[lane].pc = "settled"
    BY DEF RecordInv, LanesFit
  <2>2. "idle" \notin Working /\ (\A s \in Resting : s \notin Working) /\ "broken" \notin Working
    BY LanesApart DEF Resting
  <2>3. record.status \in {"none", "running", "completed", "failed"} /\ LaneMoves(lane)
    BY DEF RecordInv, RecordTyped
  <2> QED
    BY <2>1, <2>2, <2>3 DEF LaneMoves
<1>3. StepsFit'
  <2>1. ASSUME NEW i \in DOMAIN record.steps
        PROVE  StepFits(i)'
    <3>1. record.steps[i].lane \in Lanes /\ StepFits(i)
      BY <2>1, StepAt DEF RecordInv, StepsFit
    <3>2. LaneMoves(record.steps[i].lane)
      BY <3>1
    <3>3. "broken" \notin Working
      BY LanesApart DEF Resting
    <3> QED
      BY <3>1, <3>2, <3>3 DEF StepFits, LaneMoves, LastOfItsLane
  <2> QED
    BY <2>1 DEF RecordInv, StepsFit
<1> QED
  BY <1>1, <1>2, <1>3 DEF RecordInv

\* A step that begins is the last one, and no other one of its lane runs.
LEMMA BeginsStep ==
  ASSUME AgentInv, RecordInv, NEW lane \in Lanes, StartStep(lane)
  PROVE  RecordInv'
<1> DEFINE x == [lane |-> lane, status |-> "running"]
           n == Len(record.steps)
<1>1. /\ record.status = "running" /\ job[lane].pc \in {"idle", "finalize"}
      /\ record' = [record EXCEPT !.steps = Append(@, x)] /\ file' = record'
      /\ job' = [job EXCEPT ![lane].pc = "ensure"]
  BY DEF StartStep, Write, Go
<1>2. record = [status |-> "running", steps |-> record.steps] /\ record.steps \in Seq(StepRecord)
  BY <1>1 DEF RecordInv, RecordTyped
<1>3. record' = [status |-> "running", steps |-> Append(record.steps, x)]
  BY <1>1, <1>2
<1>4. /\ record'.status = "running" /\ record'.steps = Append(record.steps, x)
      /\ record'.steps \in Seq(StepRecord) /\ n \in Nat
      /\ DOMAIN record.steps = 1..n /\ DOMAIN record'.steps = 1..(n + 1)
      /\ record'.steps[n + 1] = x /\ \A i \in 1..n : record'.steps[i] = record.steps[i]
  <2>1. x \in StepRecord
    BY DEF StepRecord
  <2> QED
    BY <1>2, <1>3, <2>1
<1>5. \A l \in Lanes : job'[l].pc = IF l = lane THEN "ensure" ELSE job[l].pc
  <2>1. job \in [Jobs -> JobStates] /\ lane \in Jobs
    BY LanesApart DEF AgentInv, ImagesTyped
  <2> QED
    BY <1>1, <2>1, LanesApart DEF JobStates
<1>6. job[lane].pc \notin Working \union {"broken"}
  BY <1>1, LanesApart DEF Resting
<1>7. RecordTyped'
  BY <1>1, <1>3, <1>4 DEF RecordTyped
<1>8. LanesFit'
  <2> SUFFICES ASSUME NEW l \in Lanes, job'[l].pc \in Working
               PROVE  \E i \in DOMAIN record'.steps : record'.steps[i] = [lane |-> l, status |-> "running"]
    BY <1>4 DEF LanesFit, HasRunning
  <2>1. CASE l = lane
    BY <1>4, <2>1
  <2>2. CASE l # lane
    <3>1. PICK i \in DOMAIN record.steps : record.steps[i] = [lane |-> l, status |-> "running"]
      BY <1>5, <2>2 DEF RecordInv, LanesFit, HasRunning
    <3>2. i \in 1..(n + 1)
      BY <1>4
    <3> QED
      BY <1>4, <3>1, <3>2
  <2> QED
    BY <2>1, <2>2
<1>9. StepsFit'
  <2>1. ASSUME NEW i \in 1..n
        PROVE  StepFits(i)'
    <3>1. StepFits(i) /\ record.steps[i].lane \in Lanes
      BY <1>4, StepAt DEF RecordInv, StepsFit
    <3>2. CASE record.steps[i].lane = lane
      <4>1. record.steps[i].status # "running" /\ record.steps[i].status # "failed"
        BY <1>6, <3>1, <3>2 DEF StepFits
      <4> QED
        BY <1>4, <4>1 DEF StepFits
    <3>3. CASE record.steps[i].lane # lane
      <4>1. \A k \in 1..(n + 1) : record'.steps[k].lane = record'.steps[i].lane => k \in 1..n
        BY <1>4, <3>3
      <4>2. LastOfItsLane(i) => LastOfItsLane(i)'
        BY <1>4, <4>1 DEF LastOfItsLane
      <4>3. job'[record'.steps[i].lane].pc = job[record.steps[i].lane].pc
        BY <1>4, <1>5, <3>1, <3>3
      <4> QED
        BY <1>4, <3>1, <4>2, <4>3 DEF StepFits
    <3> QED
      BY <3>2, <3>3
  <2>2. ASSUME NEW i \in 1..(n + 1), i = n + 1
        PROVE  StepFits(i)'
    <3>1. LastOfItsLane(i)'
      BY <1>4, <2>2 DEF LastOfItsLane
    <3>2. job'[lane].pc = "ensure" /\ "ensure" \in Working
      BY <1>5 DEF Working
    <3>3. record'.steps[i].lane = lane /\ record'.steps[i].status = "running"
      BY <1>4, <2>2
    <3> QED
      BY <3>1, <3>2, <3>3 DEF StepFits
  <2>3. \A i \in 1..(n + 1) : StepFits(i)'
    BY <1>4, <2>1, <2>2
  <2> QED
    BY <1>4, <2>3 DEF StepsFit
<1> QED
  BY <1>7, <1>8, <1>9 DEF RecordInv

\* The outcome of an agent node goes to the step that runs, the last of its lane.
LEMMA EndsStep ==
  ASSUME AgentInv, RecordInv, NEW lane \in Lanes, AgentNodeEnds(lane)
  PROVE  RecordInv'
<1>1. PICK s \in {"completed", "failed"} :
        /\ record' = StepIs(lane, s) /\ file' = record'
        /\ \/ s = "completed" /\ job' = [job EXCEPT ![lane].pc = "close", ![lane].repaired = TRUE]
           \/ s = "failed" /\ job' = [job EXCEPT ![lane] = [Fresh EXCEPT !.pc = "broken"]]
  BY DEF AgentNodeEnds, Write, Done
<1>2. job[lane].pc = "agent" /\ "agent" \in Working
  BY DEF AgentNodeEnds, Working
<1>3. PICK r \in DOMAIN record.steps : record.steps[r] = [lane |-> lane, status |-> "running"]
  BY <1>2 DEF RecordInv, LanesFit, HasRunning
<1>4. record = [status |-> record.status, steps |-> record.steps] /\ record.steps \in Seq(StepRecord)
  BY DEF RecordInv, RecordTyped
<1>5. DOMAIN record.steps = 1..Len(record.steps) /\ Len(record.steps) \in Nat
  BY <1>4
<1>6. LastOf(lane) = r
  <2>1. \A k \in DOMAIN record.steps : record.steps[k].lane = lane => k =< r
    BY <1>3 DEF RecordInv, StepsFit, StepFits, LastOfItsLane
  <2>2. \A i \in DOMAIN record.steps :
          record.steps[i].lane = lane /\ (\A k \in DOMAIN record.steps : record.steps[k].lane = lane => k <= i) => i = r
    BY <1>3, <1>5, <2>1
  <2> QED
    BY <1>3, <2>1, <2>2 DEF LastOf
<1>7. record' = [status |-> record.status, steps |-> [record.steps EXCEPT ![r] = [lane |-> lane, status |-> s]]]
  <2>1. record' = [record EXCEPT !.steps = [record.steps EXCEPT ![r] = [record.steps[r] EXCEPT !.status = s]]]
    BY <1>1, <1>6 DEF StepIs
  <2>2. [record.steps[r] EXCEPT !.status = s] = [lane |-> lane, status |-> s]
    BY <1>3
  <2> QED
    BY <1>4, <2>1, <2>2
<1>8. /\ record'.status = record.status /\ record'.steps \in Seq(StepRecord)
      /\ DOMAIN record'.steps = DOMAIN record.steps /\ Len(record'.steps) = Len(record.steps)
      /\ record'.steps[r] = [lane |-> lane, status |-> s]
      /\ \A i \in DOMAIN record.steps : i # r => record'.steps[i] = record.steps[i]
  <2>1. [lane |-> lane, status |-> s] \in StepRecord
    BY DEF StepRecord
  <2> QED
    BY <1>3, <1>4, <1>5, <1>7, <2>1
<1>9. \A l \in Lanes : job'[l].pc = IF l # lane THEN job[l].pc ELSE IF s = "completed" THEN "close" ELSE "broken"
  <2>1. job \in [Jobs -> JobStates] /\ lane \in Jobs
    BY LanesApart DEF AgentInv, ImagesTyped
  <2> QED
    BY <1>1, <2>1, LanesApart DEF JobStates, Fresh
<1>10. record.status = "running"
  <2>1. "agent" \notin Resting /\ "agent" # "idle"
    BY DEF Resting
  <2> QED
    BY <1>2, <2>1 DEF RecordInv, RecordTyped, LanesFit
<1>11. RecordTyped'
  BY <1>1, <1>7, <1>8, <1>10 DEF RecordTyped
<1>12. LanesFit'
  <2> SUFFICES ASSUME NEW l \in Lanes, job'[l].pc \in Working
               PROVE  \E i \in DOMAIN record'.steps : record'.steps[i] = [lane |-> l, status |-> "running"]
    BY <1>8, <1>10 DEF LanesFit, HasRunning
  <2>1. l # lane
    BY <1>9, LanesApart DEF Resting
  <2>2. PICK i \in DOMAIN record.steps : record.steps[i] = [lane |-> l, status |-> "running"]
    BY <1>9, <2>1 DEF RecordInv, LanesFit, HasRunning
  <2> QED
    BY <1>3, <1>8, <2>1, <2>2
<1>13. StepsFit'
  <2>1. ASSUME NEW i \in DOMAIN record.steps
        PROVE  StepFits(i)'
    <3>1. StepFits(i) /\ record.steps[i].lane \in Lanes
      BY StepAt DEF RecordInv, StepsFit
    <3>2. \A k \in DOMAIN record.steps : record'.steps[k].lane = record.steps[k].lane
      BY <1>3, <1>8
    <3>3. LastOfItsLane(i) => LastOfItsLane(i)'
      BY <1>8, <3>2 DEF LastOfItsLane
    <3>4. CASE i = r
      BY <1>8, <1>9, <3>4 DEF StepFits
    <3>5. CASE i # r /\ record.steps[i].lane = lane
      <4>1. ~(LastOfItsLane(i) /\ LastOfItsLane(r))
        BY <1>3, <1>5, <3>5 DEF LastOfItsLane
      <4>2. LastOfItsLane(r)
        BY <1>3 DEF RecordInv, StepsFit, StepFits
      <4>3. job[lane].pc # "broken"
        BY <1>2
      <4>4. record.steps[i].status \notin {"running", "failed"}
        BY <3>1, <3>5, <4>1, <4>2, <4>3 DEF StepFits
      <4> QED
        BY <1>8, <3>5, <4>4 DEF StepFits
    <3>6. CASE record.steps[i].lane # lane
      <4>1. i # r
        BY <1>3, <3>6
      <4> QED
        BY <1>8, <1>9, <3>1, <3>3, <3>6, <4>1 DEF StepFits
    <3> QED
      BY <3>4, <3>5, <3>6
  <2> QED
    BY <1>8, <1>10, <2>1 DEF StepsFit
<1> QED
  BY <1>11, <1>12, <1>13 DEF RecordInv

\* The pipeline ends when no lane works: what still runs is what a broken lane left.
LEMMA EndsRecord ==
  ASSUME RecordInv, EndPipeline
  PROVE  RecordInv'
<1>1. /\ record.status = "running" /\ job' = job /\ file' = record'
      /\ \A lane \in Lanes : job[lane].pc \in Resting
      /\ \/ /\ \A lane \in Lanes : job[lane].pc = "settled"
            /\ record' = [record EXCEPT !.status = "completed"]
         \/ record' = [status |-> "failed", steps |-> LastFailed(record.steps)]
  <2>1. /\ record.status = "running" /\ job' = job /\ file' = record'
        /\ \A lane \in Lanes : job[lane].pc \in Resting
    BY DEF EndPipeline, Write, Resting
  <2>2. \/ /\ \A lane \in Lanes : job[lane].pc = "settled"
           /\ record' = [record EXCEPT !.status = "completed"]
        \/ record' = [status |-> "failed", steps |-> LastFailed(record.steps)]
    BY DEF EndPipeline, Write
  <2> QED
    BY <2>1, <2>2
<1>2. record = [status |-> record.status, steps |-> record.steps] /\ record.steps \in Seq(StepRecord)
  BY DEF RecordInv, RecordTyped
<1>3. \A lane \in Lanes : job[lane].pc \notin Working
  BY <1>1, LanesApart
<1>4. \A i \in DOMAIN record.steps :
        /\ record.steps[i].lane \in Lanes /\ StepFits(i)
        /\ record.steps[i].status # "completed" => job[record.steps[i].lane].pc = "broken"
  <2> TAKE i \in DOMAIN record.steps
  <2>1. /\ record.steps[i].lane \in Lanes /\ StepFits(i)
        /\ record.steps[i].status \in {"running", "completed", "failed"}
    BY StepAt DEF RecordInv, StepsFit
  <2> QED
    BY <1>3, <2>1 DEF StepFits
<1>5. CASE record' = [record EXCEPT !.status = "completed"] /\ \A lane \in Lanes : job[lane].pc = "settled"
  <2>1. record' = [status |-> "completed", steps |-> record.steps]
    BY <1>2, <1>5
  <2> QED
    BY <1>1, <1>2, <1>3, <2>1 DEF RecordInv, RecordTyped, LanesFit, StepsFit, StepFits, LastOfItsLane, Resting
<1>6. CASE record' = [status |-> "failed", steps |-> LastFailed(record.steps)]
  <2>1. record'.status = "failed" /\ record'.steps = LastFailed(record.steps)
    BY <1>6
  <2>2. DOMAIN record.steps = 1..Len(record.steps) /\ Len(record.steps) \in Nat
    BY <1>2
  <2>3. \A i \in DOMAIN record.steps :
          /\ record'.steps[i] \in StepRecord /\ record'.steps[i].lane = record.steps[i].lane
          /\ record'.steps[i].status = "running" => record.steps[i].status = "running" /\ i # Len(record.steps)
          /\ record'.steps[i].status = "failed" => record.steps[i].status # "completed"
    <3> TAKE i \in DOMAIN record.steps
    <3>1. record.steps[i] \in StepRecord
      BY <1>2
    <3>2. record'.steps[i] = IF i = Len(record.steps) /\ record.steps[i].status = "running"
                             THEN [record.steps[i] EXCEPT !.status = "failed"] ELSE record.steps[i]
      BY <2>1 DEF LastFailed
    <3> QED
      BY <3>1, <3>2 DEF StepRecord
  <2>4. DOMAIN record'.steps = DOMAIN record.steps
    BY <2>1 DEF LastFailed
  <2>5. record'.steps \in Seq(StepRecord) /\ Len(record'.steps) = Len(record.steps)
    <3>1. record'.steps = [i \in 1..Len(record.steps) |-> record'.steps[i]]
      BY <2>1, <2>2 DEF LastFailed
    <3> QED
      BY <2>2, <2>3, <3>1
  <2>6. RecordTyped'
    BY <1>1, <1>6, <2>1, <2>5 DEF RecordTyped
  <2>7. LanesFit'
    BY <1>1, <1>3, <2>1 DEF LanesFit
  <2>8. \A i \in DOMAIN record.steps : StepFits(i)'
    BY <1>1, <1>4, <2>3, <2>4 DEF StepFits, LastOfItsLane
  <2> QED
    BY <2>3, <2>4, <2>5, <2>6, <2>7, <2>8 DEF RecordInv, StepsFit
<1> QED
  BY <1>1, <1>5, <1>6

LEMMA InitRecord == AgentInit => RecordInv
<1> SUFFICES ASSUME AgentInit PROVE RecordInv
  OBVIOUS
<1>1. record = [status |-> "none", steps |-> <<>>] /\ file = record
  BY DEF AgentInit
<1>2. \A lane \in Lanes : job[lane].pc = "idle"
  BY LanesApart DEF AgentInit, Fresh
<1> QED
  BY <1>1, <1>2, LanesApart DEF RecordInv, RecordTyped, LanesFit, StepsFit, Resting

LEMMA NextRecord == AgentInv /\ RecordInv /\ [AgentNext]_agentVars => RecordInv'
<1> SUFFICES ASSUME AgentInv, RecordInv, [AgentNext]_agentVars PROVE RecordInv'
  OBVIOUS
<1>0. job \in [Jobs -> JobStates] /\ \A lane \in Lanes : lane \in Jobs
  BY LanesApart DEF AgentInv, ImagesTyped
<1>1. CASE PipelineNext
  <2>1. CASE StartPipeline
    <3>1. /\ record.status = "none" /\ job' = job /\ file' = record'
          /\ record' = [record EXCEPT !.status = "running"]
      BY <2>1 DEF StartPipeline, Write
    <3>2. record' = [status |-> "running", steps |-> record.steps]
      BY <3>1 DEF RecordInv, RecordTyped
    <3> QED
      BY <3>1, <3>2 DEF RecordInv, RecordTyped, LanesFit, HasRunning, StepsFit, StepFits, LastOfItsLane
  <2>2. ASSUME NEW lane \in Lanes, NoWorktree(lane) \/ Close(lane)
        PROVE  RecordInv'
    <3>1. UNCHANGED <<record, file>> /\ job[lane].pc \in {"idle", "close"}
      BY <2>2 DEF NoWorktree, Close, RecordsSame
    <3>2. \A l \in Lanes \ {lane} : job'[l] = job[l]
      BY <1>0, <2>2 DEF NoWorktree, Close, Done
    <3>3. job'[lane].pc \in {"settled", "broken", "finalize"}
      <4>1. job[lane] \in JobStates
        BY <1>0
      <4> QED
        BY <1>0, <2>2, <4>1 DEF NoWorktree, Close, Done, Fresh, JobStates, AfterRejection
    <3>4. record.status = "running"
      <4>1. CASE NoWorktree(lane)
        BY <4>1 DEF NoWorktree
      <4>2. CASE job[lane].pc = "close"
        BY <4>2 DEF RecordInv, RecordTyped, LanesFit, Resting
      <4> QED
        BY <2>2, <4>1, <4>2 DEF Close
    <3>5. LaneMoves(lane)
      BY <3>1, <3>3, <3>4, LanesApart DEF LaneMoves, Resting
    <3> QED
      BY <3>1, <3>2, <3>5, RecordStays DEF LaneMoves
  <2> QED
    BY <1>1, <2>1, <2>2, BeginsStep, EndsStep, EndsRecord DEF PipelineNext, LaneStep
<1>2. CASE RoleNext \/ ChildNext
  <2>1. UNCHANGED <<record, file>> /\ \A l \in Lanes : job'[l] = job[l]
    <3>1. PICK j \in Roles \union Dispatched :
            /\ UNCHANGED <<record, file>>
            /\ \/ job' = job \/ \E s \in Stages : Go(j, s) \/ Done(j, s)
      BY <1>2 DEF RoleNext, ChildNext, StartRole, RoleEnds, Dispatch, Report, ChildCloses, Stages
    <3>2. \A l \in Lanes : l # j
      BY LanesApart
    <3> QED
      BY <1>0, <3>1, <3>2 DEF Go, Done
  <2> QED
    BY <2>1, RecordStays DEF LaneMoves
<1>3. CASE Using(Rebuilds)
  <2>1. ASSUME Changed \/ job' = job, UNCHANGED <<record, file>>
        PROVE  RecordInv'
    <3>1. \A l \in Lanes : job'[l].pc = job[l].pc
      BY <1>0, <2>1 DEF Changed, JobStates
    <3> QED
      BY <2>1, <3>1, RecordStays DEF LaneMoves
  <2>2. CASE EditScaffold \/ SaveConfig \/ BuildImage \/ \E r \in Rebuilds : RebuildStep(r)
    BY <2>1, <2>2 DEF EditScaffold, SaveConfig, BuildImage, RebuildStep, RemoveScaffold, InitScaffold, Build, RecordsSame
  <2>3. CASE BuildEnds
    <3>1. PICK b \in DOMAIN builds, ok \in BOOLEAN :
            /\ job' = [j \in Jobs |-> IF j \notin {i \in Jobs : job[i].pc = b} THEN job[j]
                                      ELSE IF ok THEN [job[j] EXCEPT !.pc = "ready"] ELSE [Fresh EXCEPT !.pc = "broken"]]
            /\ UNCHANGED <<record, file>>
      BY <2>3 DEF BuildEnds
    <3>2. b \in Working
      BY <3>1 DEF AgentInv, ImagesTyped, Working
    <3>3. \A l \in Lanes : \/ job'[l] = job[l]
                           \/ job[l].pc = b /\ job'[l].pc \in {"ready", "broken"}
      BY <1>0, <3>1 DEF JobStates, Fresh
    <3>4. \A l \in Lanes : LaneMoves(l)
      BY <3>2, <3>3 DEF LaneMoves, Working
    <3> QED
      BY <3>1, <3>4, RecordStays
  <2>4. ASSUME NEW j \in Jobs, JobStep(j)
        PROVE  RecordInv'
    <3>1. UNCHANGED <<record, file>> /\ job[j].pc \in Working
      BY <2>4 DEF JobStep, Ensure, Inspect, StartAgent, RecordsSame, Working
    <3>2. \A l \in Lanes \ {j} : job'[l] = job[l]
      BY <1>0, <2>4 DEF JobStep, Ensure, Inspect, StartAgent, Go
    <3>3. job'[j].pc \in Working
      <4>1. job[j] \in JobStates /\ WaitsFor(j) \in Builders
        BY <1>0 DEF AgentInv, ImagesTyped, WaitsFor, Joins, Builders
      <4> QED
        BY <1>0, <2>4, <4>1 DEF JobStep, Ensure, Inspect, StartAgent, Go, Working, JobStates
    <3> QED
      BY <3>1, <3>2, <3>3, RecordStays DEF LaneMoves
  <2> QED
    BY <1>3, <2>2, <2>3, <2>4 DEF Using
<1>4. CASE UNCHANGED agentVars
  BY <1>4, RecordStays DEF agentVars, LaneMoves
<1> QED
  BY <1>1, <1>2, <1>3, <1>4 DEF AgentNext

\* A record that says "completed" has only completed steps; one that says "failed" has a running
\* step only for a lane whose image could not be built, and not as its last (runAgentNode,
\* failRunningStep of the pipeline's catch), for any number of lanes, attempts and failures.
THEOREM SettledRecords == AgentSpec => []RecordIsSettled
<1>1. RecordInv => RecordIsSettled
  <2> SUFFICES ASSUME RecordInv PROVE RecordIsSettled
    OBVIOUS
  <2>1. DOMAIN record.steps = 1..Len(record.steps) /\ Len(record.steps) \in Nat
    BY DEF RecordInv, RecordTyped
  <2>2. \A i \in DOMAIN record.steps :
          /\ record.steps[i].lane \in Lanes /\ record.steps[i].status \in {"running", "completed", "failed"}
          /\ StepFits(i)
    BY StepAt DEF RecordInv, StepsFit
  <2>3. \A lane \in Lanes : /\ record.status = "completed" => job[lane].pc = "settled"
                            /\ record.status = "failed" => job[lane].pc \notin Working
    BY LanesApart DEF RecordInv, LanesFit
  <2>4. "settled" \notin Working
    BY LanesApart DEF Resting
  <2>5. file = record /\ (record.status = "failed" =>
          \A i \in DOMAIN record.steps : record.steps[i].status = "running" => i # Len(record.steps))
    BY DEF RecordInv, RecordTyped, StepsFit
  <2> QED
    BY <2>1, <2>2, <2>3, <2>4, <2>5 DEF RecordIsSettled, StepFits
<1>2. AgentInv /\ AgentInv' /\ RecordInv /\ [AgentNext]_agentVars => RecordInv'
  BY NextRecord
<1>3. AgentSpec => []RecordInv
  BY InitRecord, AgentsTyped, <1>2, PTL DEF AgentSpec
<1> QED
  BY <1>1, <1>3, PTL

-----------------------------------------------------------------------------
(* As they are seen *)

\* Whichever part of the system is seen, its agents go on as AgentSpec says; so what the
\* theorems say of AgentSpec holds of the whole.
LEMMA AgentsGoOn == Spec => AgentSpec
<1>1. Init => AgentInit
  BY DEF Init
<1>2. [Next]_vars => [AgentNext]_agentVars
  <2> SUFFICES ASSUME [Next]_vars PROVE AgentNext \/ UNCHANGED agentVars
    OBVIOUS
  <2>1. Using({"config"}) => Using(Rebuilds)
    BY DEF Using, Rebuilds
  <2>2. CASE UNCHANGED vars
    BY <2>2 DEF vars
  <2> QED
    BY <2>1, <2>2 DEF Next, Walks, AgentNext
<1> QED
  BY <1>1, <1>2, PTL DEF Spec, AgentSpec

\* What holds of the agents holds wherever they are seen: there is one build at a time, and a
\* settled pipeline's record is settled (buildSandboxImageOnce and executePipeline).
THEOREM SeenAgents == Spec => [](OneBuild /\ RecordIsSettled) /\ AgentsGetTheirImage /\ RetriedAfterRepair
BY AgentsGoOn, BuiltOnce, SettledRecords, ImagesFit, ClosesAreRepaired, PTL

-----------------------------------------------------------------------------
(* Lanes, plans and rows *)

PlanRecords == [kind : {"work-plan", "invalid-work-plan"}, source : Sources, plan : Artifacts]
LaneSteps == [lane : Nat, status : {"running", "completed", "failed", "stuck"}]
LanesTyped ==
  /\ plans \in Seq(PlanRecords) /\ source \in Sources
  /\ stage \in [Processes -> {"idle", "running", "threw", "returned"}]
  /\ DOMAIN origin = Processes /\ DOMAIN lanes = Processes
  /\ steps \in [Processes -> Seq(LaneSteps)]
  /\ \A p \in Processes : DOMAIN lanes[p] \subseteq Nat

\* A process has nothing before it begins, nothing that runs once it has ended, and lanes
\* with contexts of its own.
OwnLanes(p) ==
  /\ stage[p] = "idle" => origin[p] = NoOrigin /\ steps[p] = <<>>
  /\ stage[p] \in {"threw", "returned"} => \A k \in DOMAIN steps[p] : steps[p][k].status # "running"
  /\ \A k \in DOMAIN lanes[p] : lanes[p][k] = Context(p, lanes[p][k].item, lanes[p][k].group, k)

\* A row is that of an agent, or of a step, and shows what it has come to as far as that was
\* told: a step that nothing was sent about runs until its process ends.
Shows(of, s) ==
  CASE s = "running" -> "running" [] s = "completed" -> "done" [] s = "failed" -> "error"
    [] OTHER -> IF of = "running" THEN "running" ELSE "error"
RowFits(r) ==
  \/ r = Agent /\ rows[r] \in {"running"} \union Terminal
  \/ \E p \in Processes : \E k \in DOMAIN steps[p] :
       r = <<p, k>> /\ rows[r] = Shows(stage[p], steps[p][k].status)
RowsFit == \A r \in DOMAIN rows : RowFits(r)
LanesInv == LanesTyped /\ (\A p \in Processes : OwnLanes(p)) /\ RowsFit /\ PlansAreVetted

\* What no step does to the rows (RowsEndOnce).
RowsKept ==
  \A r \in DOMAIN rows :
    IF r \in DOMAIN rows' THEN rows[r] \in Terminal => rows'[r] = rows[r] ELSE rows[r] \in Terminal

\* The section of a usable plan that is executed is listed by the artifact itself, or by the
\* one section of a forecast.
LEMMA FlattenOne ==
  ASSUME NEW e, NEW s, s = [k \in 1..1 |-> e]
  PROVE  FlattenSeq(s) = e
<1> DEFINE Body(f) == [i \in 1..1 |-> IF i = 1 THEN s[i] ELSE f[i - 1] \o s[i]]
           flat == CHOOSE f : f = Body(f)
<1>1. Len(s) = 1 /\ s[1] = e
  OBVIOUS
<1>2. s = Body(s)
  OBVIOUS
<1>3. flat = Body(flat)
  BY <1>2
<1>4. FlattenSeq(s) = flat[1]
  BY <1>1 DEF FlattenSeq
<1> HIDE DEF flat
<1>5. flat[1] = Body(flat)[1]
  BY <1>3
<1> QED
  BY <1>1, <1>4, <1>5

LEMMA ActionableIsListed ==
  ASSUME NEW a \in Artifacts, Actionable(a) # <<>>
  PROVE  /\ Actionable(a) \in Seq(PlanIterations)
         /\ \E b \in (IF a.scope = "forecast" THEN ToSet(a.actionable) ELSE {a}) : Actionable(a) = b.iterations
<1>1. /\ a.iterations \in Seq(PlanIterations) /\ a.actionable \in Seq(Artifacts) /\ Len(a.actionable) <= 1
      /\ \A b \in Artifacts : b.iterations \in Seq(PlanIterations)
  BY LanesAssumption
<1>2. CASE a.scope # "forecast"
  BY <1>1, <1>2 DEF Actionable, Scope
<1>3. CASE a.scope = "forecast"
  <2> DEFINE s == [k \in DOMAIN a.actionable |-> a.actionable[k].iterations]
  <2>1. Actionable(a) = FlattenSeq(s)
    BY <1>3 DEF Actionable, Scope
  <2> DEFINE n == Len(a.actionable)
  <2>2. n \in Nat /\ n <= 1 /\ DOMAIN a.actionable = 1..n
    BY <1>1, LenProperties
  <2> HIDE DEF n
  <2>3. n \in {0, 1}
    BY <2>2
  <2>4. n = 1
    <3> SUFFICES ASSUME n = 0 PROVE FALSE
      BY <2>3
    <3>1. s = <<>> /\ Len(s) = 0
      BY <2>2
    <3> HIDE DEF s
    <3>2. FlattenSeq(s) = s
      BY <3>1 DEF FlattenSeq
    <3> QED
      BY <2>1, <3>1, <3>2
  <2>5. s = [k \in 1..1 |-> a.actionable[1].iterations]
    <3>1. DOMAIN a.actionable = 1..1 /\ \A k \in 1..1 : k = 1
      BY <2>2, <2>4
    <3>2. s = [k \in 1..1 |-> a.actionable[k].iterations]
      BY <3>1, Zenon
    <3>3. [k \in 1..1 |-> a.actionable[k].iterations] = [k \in 1..1 |-> a.actionable[1].iterations]
      BY <3>1, Zenon
    <3> QED
      BY <3>2, <3>3, Zenon
  <2>6. Actionable(a) = a.actionable[1].iterations
    <3> HIDE DEF s
    <3> QED
      BY <2>1, <2>5, FlattenOne
  <2>7. 1 \in DOMAIN a.actionable /\ a.actionable[1] \in Artifacts
    BY <1>1, <2>2, <2>4
  <2>8. a.actionable[1] \in ToSet(a.actionable)
    BY <2>7 DEF ToSet
  <2> QED
    BY <1>1, <1>3, <2>6, <2>7, <2>8
<1> QED
  BY <1>2, <1>3

\* What a process begins with: each lane has one of the iteration's items, and the context
\* that it gets from it.
Refused(p) == stage' = [stage EXCEPT ![p] = "threw"] /\ UNCHANGED <<origin, lanes, rows>>
Began(p, items, from) ==
  /\ stage' = [stage EXCEPT ![p] = "running"] /\ origin' = [origin EXCEPT ![p] = from]
  /\ rows' = Pruned
  /\ DOMAIN lanes' = Processes /\ \A q \in Processes : q # p => lanes'[q] = lanes[q]
  /\ DOMAIN lanes'[p] \subseteq Nat
  /\ \A k \in DOMAIN lanes'[p] :
       /\ lanes'[p][k] = Context(p, lanes'[p][k].item, lanes'[p][k].group, k)
       /\ \E x \in ToSet(items) : x.id = lanes'[p][k].item

LEMMA LanesBegin ==
  ASSUME NEW i \in PlanIterations, NEW ready, NEW p \in Processes, NEW from,
         DOMAIN lanes = Processes, Begins(p, i, ready, from)
  PROVE  Refused(p) \/ Began(p, i.items, from)
<1> DEFINE t == Trimmed(i)
           items == Filtered(t, ready)
           par == Parallel(i, Len(items))
<1>1. i.items \in Seq([id : Names \union {"blank"}])
  BY DEF PlanIterations
<1>2. t \in Seq({x.id : x \in ToSet(i.items)})
  BY <1>1 DEF Trimmed, ToSet
<1>3. items \in Seq(ready \intersect {x.id : x \in ToSet(i.items)})
  <2> HIDE DEF t
  <2> QED
    BY <1>2, FilterKeeps
<1>4. CASE items = <<>>
  BY <1>4 DEF Begins, Refused
<1>5. CASE items # <<>>
  <2>1. /\ stage' = [stage EXCEPT ![p] = "running"] /\ origin' = [origin EXCEPT ![p] = from]
        /\ lanes' = [lanes EXCEPT ![p] = ExecutionContexts(p, items, par)]
        /\ rows' = Pruned
    BY <1>5 DEF Begins
  <2> HIDE DEF items, par
  <2>2. lanes'[p] = [k \in DOMAIN items |-> Context(p, items[k], IF par THEN 1 ELSE k, k)]
    BY <2>1 DEF ExecutionContexts
  <2>3. DOMAIN items = 1..Len(items) /\ Len(items) \in Nat
        /\ \A k \in DOMAIN items : \E x \in ToSet(i.items) : x.id = items[k]
    BY <1>3
  <2>4. ASSUME NEW k \in DOMAIN lanes'[p]
        PROVE  /\ lanes'[p][k] = Context(p, lanes'[p][k].item, lanes'[p][k].group, k)
               /\ \E x \in ToSet(i.items) : x.id = lanes'[p][k].item
    <3>1. k \in DOMAIN items /\ lanes'[p][k] = Context(p, items[k], IF par THEN 1 ELSE k, k)
      BY <2>2
    <3>2. lanes'[p][k].item = items[k] /\ lanes'[p][k].group = IF par THEN 1 ELSE k
      BY <3>1 DEF Context
    <3> QED
      BY <2>3, <3>1, <3>2
  <2>5. DOMAIN lanes'[p] \subseteq Nat
    BY <2>2, <2>3
  <2> QED
    BY <2>1, <2>4, <2>5 DEF Began
<1> QED
  BY <1>4, <1>5

\* A plan that is kept, edited or made obsolete by a new registration: no process that goes on
\* is touched.
LEMMA PlansChange ==
  ASSUME LanesInv, UNCHANGED <<stage, origin, lanes, steps, rows>>, plans' \in Seq(PlanRecords), source' \in Sources
  PROVE  LanesInv' /\ RowsKept
<1>1. LanesTyped' /\ \A p \in Processes : OwnLanes(p)'
  BY DEF LanesInv, LanesTyped, OwnLanes, NoOrigin, Context, Branch
<1>2. RowsFit'
  BY DEF LanesInv, RowsFit, RowFits
<1>3. PlansAreVetted'
  BY DEF LanesInv, PlansAreVetted
<1>4. RowsKept
  BY DEF RowsKept
<1> QED
  BY <1>1, <1>2, <1>3, <1>4 DEF LanesInv

LEMMA Planned ==
  ASSUME LanesInv, PlanWork \/ EditPlan \/ Reconfigure
  PROVE  plans' \in Seq(PlanRecords) /\ source' \in Sources /\ UNCHANGED <<stage, origin, lanes, steps, rows>>
<1>0. plans \in Seq(PlanRecords) /\ source \in Sources
  BY DEF LanesInv, LanesTyped
<1>1. CASE PlanWork
  <2>1. PICK a \in Artifacts :
          plans' = Append(plans, [kind |-> IF Executable(a) THEN "work-plan" ELSE "invalid-work-plan",
                                  source |-> source, plan |-> a])
    BY <1>1 DEF PlanWork
  <2>2. [kind |-> IF Executable(a) THEN "work-plan" ELSE "invalid-work-plan", source |-> source, plan |-> a]
          \in PlanRecords
    BY <1>0 DEF PlanRecords
  <2> QED
    BY <1>0, <1>1, <2>1, <2>2 DEF PlanWork
<1>2. CASE EditPlan
  <2>1. PICK n \in DOMAIN plans, a \in Artifacts : plans' = [plans EXCEPT ![n].plan = a]
    BY <1>2 DEF EditPlan
  <2>2. plans[n] \in PlanRecords
    BY <1>0
  <2>3. [plans[n] EXCEPT !.plan = a] \in PlanRecords
    BY <2>2 DEF PlanRecords
  <2>4. plans' = [plans EXCEPT ![n] = [plans[n] EXCEPT !.plan = a]]
    BY <2>1
  <2> QED
    BY <1>0, <1>2, <2>3, <2>4 DEF EditPlan
<1>3. CASE Reconfigure
  BY <1>0, <1>3 DEF Reconfigure
<1> QED
  BY <1>1, <1>2, <1>3

\* What a process was given is vetted, and stays so.
Given(o, ls) ==
  LET a == o[1].plan
      owners == IF a.scope = "forecast" THEN ToSet(a.actionable) ELSE {a}
  IN /\ o[1].kind = "work-plan" /\ o[1].source = o[2]
     /\ \A b \in Sections(a) : ~b.authors
     /\ \A l \in ToSet(ls) : \E b \in owners : \E i \in ToSet(b.iterations) : \E x \in ToSet(i.items) : x.id = l.item

LEMMA UsableIsVetted ==
  ASSUME LanesInv, NEW p \in Processes, NEW n \in DOMAIN plans, NEW ready, Usable(plans[n]),
         LET i == Head(Actionable(plans[n].plan))
         IN  \A k \in DOMAIN lanes'[p] : \E x \in ToSet(i.items) : x.id = lanes'[p][k].item
  PROVE  Given(<<plans[n], source>>, lanes'[p])
<1> DEFINE a == plans[n].plan
           i == Head(Actionable(a))
<1>1. a \in Artifacts /\ plans[n].kind = "work-plan" /\ plans[n].source = source /\ Executable(a)
      /\ Actionable(a) # <<>>
  <2>1. plans[n] \in PlanRecords
    BY DEF LanesInv, LanesTyped
  <2> QED
    BY <2>1 DEF PlanRecords, Usable
<1>2. PICK b \in (IF a.scope = "forecast" THEN ToSet(a.actionable) ELSE {a}) : Actionable(a) = b.iterations
  BY <1>1, ActionableIsListed
<1>3. i \in ToSet(b.iterations)
  <2>1. Actionable(a) \in Seq(PlanIterations)
    BY <1>1, ActionableIsListed
  <2>2. i = Actionable(a)[1] /\ 1 \in DOMAIN Actionable(a)
    BY <1>1, <2>1
  <2> QED
    BY <1>2, <2>2 DEF ToSet
<1>4. \A l \in ToSet(lanes'[p]) : \E x \in ToSet(i.items) : x.id = l.item
  BY DEF ToSet
<1>5. \A c \in Sections(a) : ~c.authors
  BY <1>1 DEF Executable, AuthorsExecution
<1> HIDE DEF i
<1> QED
  BY <1>1, <1>2, <1>3, <1>4, <1>5 DEF Given

LEMMA ProcessBegins ==
  ASSUME LanesInv, NEW p \in Processes, Process(p)
  PROVE  LanesInv' /\ RowsKept
<1>1. /\ stage[p] = "idle" /\ UNCHANGED <<plans, source, steps>>
      /\ origin[p] = NoOrigin /\ steps[p] = <<>> /\ DOMAIN lanes = Processes
  BY DEF Process, LanesInv, LanesTyped, OwnLanes
<1>2. Refused(p) \/ \E o, is : Began(p, is, o) /\ (o # NoOrigin => Given(o, lanes'[p]))
  <2>1. CASE \E i \in LivePlans : Begins(p, i, Names, NoOrigin)
    <3>1. PICK i \in LivePlans : Begins(p, i, Names, NoOrigin)
      BY <2>1
    <3>2. i \in PlanIterations
      BY LanesAssumption
    <3>3. Refused(p) \/ Began(p, i.items, NoOrigin)
      BY <1>1, <3>1, <3>2, LanesBegin
    <3> QED
      BY <3>3
  <2>2. ASSUME NEW n \in DOMAIN plans, NEW ready, Usable(plans[n]),
               Begins(p, Head(Actionable(plans[n].plan)), ready, <<plans[n], source>>)
        PROVE  Refused(p) \/ \E o, is : Began(p, is, o) /\ (o # NoOrigin => Given(o, lanes'[p]))
    <3> DEFINE i == Head(Actionable(plans[n].plan))
               o == <<plans[n], source>>
    <3>1. plans[n] \in PlanRecords
      BY DEF LanesInv, LanesTyped
    <3>2. plans[n].plan \in Artifacts /\ Actionable(plans[n].plan) # <<>>
      BY <2>2, <3>1 DEF PlanRecords, Usable
    <3>3. i \in PlanIterations
      BY <3>2, ActionableIsListed
    <3>4. Begins(p, i, ready, o)
      BY <2>2
    <3>5. Began(p, i.items, o) => Given(o, lanes'[p])
      BY <2>2, UsableIsVetted DEF Began
    <3> HIDE DEF i, o
    <3>6. Refused(p) \/ Began(p, i.items, o)
      BY <1>1, <3>3, <3>4, LanesBegin
    <3> QED
      BY <3>5, <3>6
  <2>3. CASE Refused(p)
    BY <2>3
  <2> QED
    BY <2>1, <2>2, <2>3 DEF Process, Refused
<1>3. LanesTyped'
  BY <1>1, <1>2 DEF LanesInv, LanesTyped, Refused, Began
<1>4. ASSUME NEW q \in Processes
      PROVE  OwnLanes(q)'
  <2>1. CASE q # p
    <3>1. stage'[q] = stage[q] /\ origin'[q] = origin[q] /\ lanes'[q] = lanes[q] /\ steps'[q] = steps[q]
      BY <1>1, <1>2, <2>1 DEF LanesInv, LanesTyped, Refused, Began
    <3> QED
      BY <3>1 DEF LanesInv, OwnLanes, Context, Branch, NoOrigin
  <2>2. CASE q = p
    <3>1. stage'[p] # "idle" /\ steps'[p] = <<>>
      BY <1>1, <1>2 DEF LanesInv, LanesTyped, Refused, Began
    <3>2. \A k \in DOMAIN lanes'[p] : lanes'[p][k] = Context(p, lanes'[p][k].item, lanes'[p][k].group, k)
      BY <1>2 DEF LanesInv, OwnLanes, Refused, Began
    <3> QED
      BY <2>2, <3>1, <3>2 DEF OwnLanes, Context, Branch
  <2> QED
    BY <2>1, <2>2
<1>5. DOMAIN rows' \subseteq DOMAIN rows
      /\ \A r \in DOMAIN rows : IF r \in DOMAIN rows' THEN rows'[r] = rows[r] ELSE rows[r] \in Terminal
  BY <1>2 DEF Pruned, Restrict, Refused, Began
<1>6. RowsFit'
  <2> SUFFICES ASSUME NEW r \in DOMAIN rows' PROVE RowFits(r)'
    BY DEF RowsFit
  <2>1. RowFits(r) /\ rows'[r] = rows[r]
    BY <1>5 DEF LanesInv, RowsFit
  <2>2. CASE r = Agent /\ rows[r] \in {"running"} \union Terminal
    BY <2>1, <2>2 DEF RowFits, Agent, Terminal
  <2>3. ASSUME NEW q \in Processes, NEW k \in DOMAIN steps[q], r = <<q, k>>,
               rows[r] = Shows(stage[q], steps[q][k].status)
        PROVE  RowFits(r)'
    <3>1. q # p
      BY <1>1, <2>3
    <3>2. stage'[q] = stage[q] /\ steps'[q] = steps[q]
      BY <1>1, <1>2, <3>1 DEF LanesInv, LanesTyped, Refused, Began
    <3> QED
      BY <2>1, <2>3, <3>2 DEF RowFits
  <2> QED
    BY <2>1, <2>2, <2>3 DEF RowFits
<1>7. PlansAreVetted'
  <2> SUFFICES ASSUME NEW q \in Processes, origin'[q] # NoOrigin
               PROVE  Given(origin'[q], lanes'[q])
    BY DEF PlansAreVetted, Given, NoOrigin
  <2>1. CASE origin'[q] = origin[q] /\ lanes'[q] = lanes[q]
    BY <2>1 DEF LanesInv, PlansAreVetted, Given
  <2>2. CASE ~(origin'[q] = origin[q] /\ lanes'[q] = lanes[q])
    <3>1. ~Refused(p)
      BY <2>2 DEF Refused
    <3>2. PICK o, is : Began(p, is, o) /\ (o # NoOrigin => Given(o, lanes'[p]))
      BY <1>2, <3>1
    <3>3. q = p /\ origin'[p] = o
      BY <2>2, <3>2 DEF Began, LanesInv, LanesTyped
    <3> QED
      BY <3>2, <3>3
  <2> QED
    BY <2>1, <2>2
<1>8. RowsKept
  BY <1>5 DEF RowsKept
<1> QED
  BY <1>3, <1>4, <1>6, <1>7, <1>8 DEF LanesInv

\* Only one step and its row change, and no process ends.
OneStep(p, k) ==
  /\ stage[p] = "running" /\ UNCHANGED <<plans, source, stage, origin, lanes>>
  /\ steps' \in [Processes -> Seq(LaneSteps)]
  /\ k \in DOMAIN steps'[p] /\ DOMAIN steps[p] \subseteq DOMAIN steps'[p]
  /\ \A q \in Processes : q # p => steps'[q] = steps[q]
  /\ \A i \in DOMAIN steps[p] : i # k => steps'[p][i] = steps[p][i]
  /\ DOMAIN rows' \subseteq DOMAIN rows \union {<<p, k>>}
  /\ \A r \in DOMAIN rows' : r # <<p, k>> => rows'[r] = rows[r]
  /\ <<p, k>> \in DOMAIN rows' => rows'[<<p, k>>] = Shows("running", steps'[p][k].status)

LEMMA StepMoves == ASSUME LanesInv, NEW p \in Processes, NEW k, OneStep(p, k) PROVE LanesInv'
<1> USE DEF OneStep
<1>1. LanesTyped'
  BY DEF LanesInv, LanesTyped
<1>2. ASSUME NEW q \in Processes
      PROVE  OwnLanes(q)'
  <2>1. stage[q] # "running" => steps'[q] = steps[q]
    OBVIOUS
  <2>2. stage[p] # "idle"
    OBVIOUS
  <2> QED
    BY <2>1, <2>2 DEF LanesInv, OwnLanes, Context, Branch, NoOrigin
<1>3. RowsFit'
  <2> SUFFICES ASSUME NEW r \in DOMAIN rows' PROVE RowFits(r)'
    BY DEF RowsFit
  <2>1. CASE r = <<p, k>>
    BY <2>1 DEF RowFits
  <2>2. CASE r # <<p, k>>
    <3>1. r \in DOMAIN rows /\ rows'[r] = rows[r] /\ RowFits(r)
      BY <2>2 DEF LanesInv, RowsFit
    <3>2. CASE r = Agent /\ rows[r] \in {"running"} \union Terminal
      BY <3>1, <3>2 DEF RowFits, Agent, Terminal
    <3>3. ASSUME NEW q \in Processes, NEW i \in DOMAIN steps[q], r = <<q, i>>,
                 rows[r] = Shows(stage[q], steps[q][i].status)
          PROVE  RowFits(r)'
      <4>1. i \in DOMAIN steps'[q] /\ steps'[q][i] = steps[q][i]
        BY <2>2, <3>3
      <4> QED
        BY <3>1, <3>3, <4>1 DEF RowFits
    <3> QED
      BY <3>1, <3>2, <3>3 DEF RowFits
  <2> QED
    BY <2>1, <2>2
<1>4. PlansAreVetted'
  BY DEF LanesInv, PlansAreVetted
<1> QED
  BY <1>1, <1>2, <1>3, <1>4 DEF LanesInv

LEMMA RowOfStep ==
  ASSUME LanesInv, NEW p \in Processes, NEW k, <<p, k>> \in DOMAIN rows
  PROVE  k \in DOMAIN steps[p] /\ rows[<<p, k>>] = Shows(stage[p], steps[p][k].status)
<1>1. RowFits(<<p, k>>) /\ <<p, k>> # Agent
  BY LanesAssumption DEF LanesInv, RowsFit, Agent
<1> QED
  BY <1>1 DEF RowFits

LEMMA StepBegins == ASSUME LanesInv, NEW p \in Processes, StepStarts(p) PROVE LanesInv' /\ RowsKept
<1> DEFINE k == Len(steps[p]) + 1
<1>1. PICK l \in DOMAIN lanes[p] :
        /\ steps' = [steps EXCEPT ![p] = Append(@, [lane |-> l, status |-> "running"])]
        /\ Shown(<<p, k>>, "running")
  BY DEF StepStarts
<1>2. /\ stage[p] = "running" /\ UNCHANGED <<plans, source, stage, origin, lanes>>
      /\ steps \in [Processes -> Seq(LaneSteps)] /\ l \in Nat
  BY DEF StepStarts, LanesInv, LanesTyped
<1> DEFINE e == [lane |-> l, status |-> "running"]
<1>3. e \in LaneSteps /\ steps[p] \in Seq(LaneSteps)
  BY <1>2 DEF LaneSteps
<1>4. steps'[p] = Append(steps[p], e) /\ DOMAIN steps' = Processes
      /\ \A q \in Processes : q # p => steps'[q] = steps[q]
  BY <1>1, <1>2
<1> HIDE DEF e
<1>5. /\ steps'[p] \in Seq(LaneSteps) /\ DOMAIN steps'[p] = 1..k /\ DOMAIN steps[p] = 1..Len(steps[p])
      /\ Len(steps[p]) \in Nat
      /\ steps'[p][k] = e /\ \A i \in DOMAIN steps[p] : steps'[p][i] = steps[p][i]
  BY <1>3, <1>4
<1>6. k \in Nat /\ k \in DOMAIN steps'[p] /\ k \notin DOMAIN steps[p] /\ DOMAIN steps[p] \subseteq DOMAIN steps'[p]
  BY <1>5
<1> HIDE DEF k
<1>7. <<p, k>> \notin DOMAIN rows
  BY <1>6, RowOfStep
<1>8. /\ DOMAIN rows' = DOMAIN rows \union {<<p, k>>} /\ rows'[<<p, k>>] = "running"
      /\ \A r \in DOMAIN rows' : r # <<p, k>> => rows'[r] = rows[r]
  BY <1>1 DEF Shown
<1>9. steps'[p][k].status = "running" /\ Shows("running", "running") = "running"
  BY <1>5 DEF e, Shows
<1>10. LanesInv'
  <2>1. steps' \in [Processes -> Seq(LaneSteps)]
    BY <1>1, <1>2, <1>4, <1>5
  <2>2. <<p, k>> \in DOMAIN rows' => rows'[<<p, k>>] = Shows("running", steps'[p][k].status)
    BY <1>8, <1>9
  <2>3. OneStep(p, k)
    BY <1>2, <1>4, <1>5, <1>6, <1>8, <2>1, <2>2 DEF OneStep
  <2> QED
    BY <2>3, StepMoves
<1>11. RowsKept
  BY <1>7, <1>8 DEF RowsKept
<1> QED
  BY <1>10, <1>11

\* What an update does to the row of a step that runs, if it has one.
LEMMA RowUpdates ==
  ASSUME LanesInv, NEW p \in Processes, stage[p] = "running", NEW k \in DOMAIN steps[p],
         steps[p][k].status = "running", NEW s \in {"running"} \union Terminal, Updated(<<p, k>>, s)
  PROVE  /\ DOMAIN rows' = DOMAIN rows /\ \A r \in DOMAIN rows : r # <<p, k>> => rows'[r] = rows[r]
         /\ <<p, k>> \in DOMAIN rows => rows[<<p, k>>] = "running" /\ rows'[<<p, k>>] = s
<1>1. <<p, k>> \in DOMAIN rows => rows[<<p, k>>] = "running"
  BY RowOfStep DEF Shows
<1>2. CASE <<p, k>> \in DOMAIN rows
  BY <1>1, <1>2 DEF Updated, Shown, Terminal
<1>3. CASE <<p, k>> \notin DOMAIN rows
  BY <1>3 DEF Updated
<1> QED
  BY <1>1, <1>2, <1>3

LEMMA StepSettles == ASSUME LanesInv, NEW p \in Processes, StepEnds(p) PROVE LanesInv' /\ RowsKept
<1>1. PICK k \in DOMAIN steps[p] :
        /\ steps[p][k].status = "running"
        /\ \/ StepBecomes(p, k, "completed") /\ Updated(<<p, k>>, "done")
           \/ StepBecomes(p, k, "failed") /\ Updated(<<p, k>>, "error")
           \/ StepBecomes(p, k, "stuck") /\ UNCHANGED rows
  BY DEF StepEnds
<1>2. /\ UNCHANGED <<plans, source, stage, origin, lanes>>
      /\ steps \in [Processes -> Seq(LaneSteps)] /\ stage \in [Processes -> {"idle", "running", "threw", "returned"}]
      /\ OwnLanes(p)
  BY DEF StepEnds, LanesInv, LanesTyped
<1>3. stage[p] = "running"
  <2>1. steps[p] # <<>>
    BY <1>1
  <2> QED
    BY <1>1, <1>2, <2>1 DEF OwnLanes
<1>4. steps[p] \in Seq(LaneSteps) /\ k \in Nat
  BY <1>1, <1>2
<1>5. PICK s \in {"completed", "failed", "stuck"} :
        /\ StepBecomes(p, k, s)
        /\ DOMAIN rows' = DOMAIN rows /\ \A r \in DOMAIN rows : r # <<p, k>> => rows'[r] = rows[r]
        /\ <<p, k>> \in DOMAIN rows => rows[<<p, k>>] = "running" /\ rows'[<<p, k>>] = Shows("running", s)
  <2>1. CASE StepBecomes(p, k, "completed") /\ Updated(<<p, k>>, "done")
    BY <1>1, <1>3, <2>1, RowUpdates DEF Terminal, Shows
  <2>2. CASE StepBecomes(p, k, "failed") /\ Updated(<<p, k>>, "error")
    BY <1>1, <1>3, <2>2, RowUpdates DEF Terminal, Shows
  <2>3. CASE StepBecomes(p, k, "stuck") /\ UNCHANGED rows
    BY <1>1, <1>3, <2>3, RowOfStep DEF Shows
  <2> QED
    BY <1>1, <2>1, <2>2, <2>3
<1>6. /\ steps'[p] = [steps[p] EXCEPT ![k] = [steps[p][k] EXCEPT !.status = s]]
      /\ DOMAIN steps' = Processes /\ \A q \in Processes : q # p => steps'[q] = steps[q]
  BY <1>2, <1>5 DEF StepBecomes
<1>7. [steps[p][k] EXCEPT !.status = s] \in LaneSteps /\ [steps[p][k] EXCEPT !.status = s].status = s
  <2>1. steps[p][k] \in LaneSteps
    BY <1>1, <1>4
  <2> QED
    BY <2>1 DEF LaneSteps
<1>8. /\ steps'[p] \in Seq(LaneSteps) /\ DOMAIN steps'[p] = DOMAIN steps[p] /\ steps'[p][k].status = s
      /\ \A i \in DOMAIN steps[p] : i # k => steps'[p][i] = steps[p][i]
  BY <1>1, <1>4, <1>6, <1>7
<1>9. LanesInv'
  <2>1. steps' \in [Processes -> Seq(LaneSteps)]
    BY <1>2, <1>5, <1>6, <1>8 DEF StepBecomes
  <2>2. <<p, k>> \in DOMAIN rows' => rows'[<<p, k>>] = Shows("running", steps'[p][k].status)
    BY <1>5, <1>8
  <2>3. DOMAIN rows' \subseteq DOMAIN rows \union {<<p, k>>}
        /\ \A r \in DOMAIN rows' : r # <<p, k>> => rows'[r] = rows[r]
    BY <1>5
  <2>4. OneStep(p, k)
    BY <1>2, <1>3, <1>6, <1>8, <2>1, <2>2, <2>3 DEF OneStep
  <2> QED
    BY <2>4, StepMoves
<1>10. RowsKept
  BY <1>5 DEF RowsKept, Terminal
<1> QED
  BY <1>9, <1>10

LEMMA RowStreams == ASSUME LanesInv, NEW p \in Processes, Streams(p) PROVE LanesInv' /\ RowsKept
<1>1. PICK k \in DOMAIN steps[p] : steps[p][k].status = "running" /\ Updated(<<p, k>>, "running")
  BY DEF Streams
<1>2. stage[p] = "running" /\ UNCHANGED <<plans, source, stage, origin, lanes, steps>>
  BY DEF Streams
<1>3. /\ DOMAIN rows' = DOMAIN rows /\ \A r \in DOMAIN rows : r # <<p, k>> => rows'[r] = rows[r]
      /\ <<p, k>> \in DOMAIN rows => rows[<<p, k>>] = "running" /\ rows'[<<p, k>>] = "running"
  BY <1>1, <1>2, RowUpdates
<1>4. steps \in [Processes -> Seq(LaneSteps)] /\ k \in Nat
  <2>1. steps \in [Processes -> Seq(LaneSteps)] /\ steps[p] \in Seq(LaneSteps)
    BY DEF LanesInv, LanesTyped
  <2> QED
    BY <1>1, <2>1
<1>5. LanesInv'
  <2>1. OneStep(p, k)
    BY <1>1, <1>2, <1>3, <1>4 DEF OneStep, Shows
  <2> QED
    BY <2>1, StepMoves
<1>6. RowsKept
  BY <1>3 DEF RowsKept
<1> QED
  BY <1>5, <1>6

LEMMA ProcessSettles == ASSUME LanesInv, NEW p \in Processes, ProcessEnds(p) PROVE LanesInv' /\ RowsKept
<1>1. /\ stage[p] = "running" /\ \A k \in DOMAIN steps[p] : steps[p][k].status # "running"
      /\ UNCHANGED <<plans, source, origin, lanes, steps>>
      /\ \/ stage' = [stage EXCEPT ![p] = "threw"] /\ rows' = ShownAsFailed(p)
         \/ stage' = [stage EXCEPT ![p] = "returned"] /\ rows' = rows /\ ~Failed(p)
  BY DEF ProcessEnds
<1>2. steps \in [Processes -> Seq(LaneSteps)] /\ steps[p] \in Seq(LaneSteps)
      /\ stage \in [Processes -> {"idle", "running", "threw", "returned"}]
  BY DEF LanesInv, LanesTyped
<1>3. LanesTyped'
  BY <1>1 DEF LanesInv, LanesTyped
<1>4. stage'[p] \in {"threw", "returned"} /\ \A q \in Processes : q # p => stage'[q] = stage[q]
  BY <1>1, <1>2
<1>5. ASSUME NEW q \in Processes
      PROVE  OwnLanes(q)'
  <2>1. CASE q # p
    BY <1>1, <1>4, <2>1 DEF LanesInv, OwnLanes, Context, Branch, NoOrigin
  <2>2. CASE q = p
    BY <1>1, <1>4, <2>2 DEF LanesInv, OwnLanes, Context, Branch
  <2> QED
    BY <2>1, <2>2
<1>6. /\ DOMAIN rows' = DOMAIN rows
      /\ \A r \in DOMAIN rows : r[1] # p \/ rows[r] # "running" => rows'[r] = rows[r]
      /\ \A r \in DOMAIN rows : r[1] = p /\ rows[r] = "running" /\ rows'[r] # "error" => ~Failed(p) /\ rows'[r] = rows[r]
  BY <1>1 DEF ShownAsFailed
<1>7. RowsFit'
  <2> SUFFICES ASSUME NEW r \in DOMAIN rows PROVE RowFits(r)'
    BY <1>6 DEF RowsFit
  <2>1. RowFits(r)
    BY DEF LanesInv, RowsFit
  <2>2. CASE r = Agent /\ rows[r] \in {"running"} \union Terminal
    <3>1. r[1] # p
      BY <2>2, LanesAssumption DEF Agent
    <3> QED
      BY <1>6, <2>2, <3>1 DEF RowFits, Agent, Terminal
  <2>3. ASSUME NEW q \in Processes, NEW k \in DOMAIN steps[q], r = <<q, k>>,
               rows[r] = Shows(stage[q], steps[q][k].status)
        PROVE  RowFits(r)'
    <3>1. CASE q # p
      <4>1. rows'[r] = rows[r] /\ stage'[q] = stage[q]
        BY <1>4, <1>6, <2>3, <3>1
      <4> QED
        BY <1>1, <2>3, <4>1 DEF RowFits
    <3>2. CASE q = p
      <4>1. steps[p][k].status \in {"completed", "failed", "stuck"}
        <5>1. steps[p][k] \in LaneSteps
          BY <1>2, <2>3, <3>2
        <5> QED
          BY <1>1, <2>3, <3>2, <5>1 DEF LaneSteps
      <4>2. rows'[r] = Shows(stage'[p], steps[p][k].status)
        <5>1. CASE steps[p][k].status = "completed"
          BY <1>1, <1>6, <2>3, <3>2, <5>1 DEF Shows
        <5>2. CASE steps[p][k].status = "failed"
          BY <1>1, <1>6, <2>3, <3>2, <5>2 DEF Shows
        <5>3. CASE steps[p][k].status = "stuck"
          <6>1. Failed(p)
            BY <2>3, <3>2, <5>3 DEF Failed
          <6>2. rows[r] = "running" /\ r[1] = p
            BY <1>1, <2>3, <3>2, <5>3 DEF Shows
          <6>3. rows'[r] = "error"
            BY <1>6, <6>1, <6>2
          <6> QED
            BY <1>4, <5>3, <6>3 DEF Shows
        <5> QED
          BY <4>1, <5>1, <5>2, <5>3
      <4> QED
        BY <1>1, <2>3, <3>2, <4>2 DEF RowFits
    <3> QED
      BY <3>1, <3>2
  <2> QED
    BY <2>1, <2>2, <2>3 DEF RowFits
<1>8. PlansAreVetted'
  BY <1>1 DEF LanesInv, PlansAreVetted
<1>9. RowsKept
  BY <1>6 DEF RowsKept, Terminal
<1> QED
  BY <1>3, <1>5, <1>7, <1>8, <1>9 DEF LanesInv

LEMMA AgentShows == ASSUME LanesInv, AgentRow PROVE LanesInv' /\ RowsKept
<1>1. UNCHANGED <<plans, source, stage, origin, lanes, steps>>
      /\ \/ Agent \notin DOMAIN rows /\ Shown(Agent, "running")
         \/ rows[Agent] = "running" /\ \E s \in Terminal : Shown(Agent, s)
  BY DEF AgentRow
<1>2. /\ DOMAIN rows' = DOMAIN rows \union {Agent} /\ rows'[Agent] \in {"running"} \union Terminal
      /\ \A r \in DOMAIN rows : r # Agent => rows'[r] = rows[r]
      /\ Agent \in DOMAIN rows => rows[Agent] = "running"
  BY <1>1 DEF Shown
<1>3. LanesTyped' /\ \A p \in Processes : OwnLanes(p)'
  BY <1>1 DEF LanesInv, LanesTyped, OwnLanes, NoOrigin, Context, Branch
<1>4. RowsFit'
  <2> SUFFICES ASSUME NEW r \in DOMAIN rows' PROVE RowFits(r)'
    BY DEF RowsFit
  <2>1. CASE r = Agent
    BY <1>2, <2>1 DEF RowFits, Agent, Terminal
  <2>2. CASE r # Agent
    BY <1>1, <1>2, <2>2 DEF LanesInv, RowsFit, RowFits
  <2> QED
    BY <2>1, <2>2
<1>5. PlansAreVetted'
  BY <1>1 DEF LanesInv, PlansAreVetted
<1>6. RowsKept
  BY <1>2 DEF RowsKept, Terminal
<1> QED
  BY <1>3, <1>4, <1>5, <1>6 DEF LanesInv

LEMMA InitLanes == Init => LanesInv
<1> SUFFICES ASSUME Init PROVE LanesInv
  OBVIOUS
<1>1. /\ plans = <<>> /\ source \in Sources
      /\ stage = [p \in Processes |-> "idle"] /\ origin = [p \in Processes |-> NoOrigin]
      /\ lanes = [p \in Processes |-> <<>>] /\ steps = lanes /\ DOMAIN rows = {}
  BY DEF Init, LanesInit
<1>2. <<>> \in Seq(PlanRecords) /\ <<>> \in Seq(LaneSteps) /\ DOMAIN <<>> = {}
  OBVIOUS
<1>3. LanesTyped
  BY <1>1, <1>2 DEF LanesTyped
<1>4. \A p \in Processes : OwnLanes(p)
  BY <1>1, <1>2 DEF OwnLanes
<1>5. RowsFit /\ PlansAreVetted
  BY <1>1 DEF RowsFit, PlansAreVetted
<1> QED
  BY <1>3, <1>4, <1>5 DEF LanesInv

LEMMA NextLanes == LanesInv /\ [Next]_vars => LanesInv' /\ (RowsKept \/ UNCHANGED laneVars)
<1> SUFFICES ASSUME LanesInv, [Next]_vars PROVE LanesInv' /\ (RowsKept \/ UNCHANGED laneVars)
  OBVIOUS
<1>1. Planning \/ Processing \/ UNCHANGED laneVars
  BY DEF Next, Walks, vars
<1>2. CASE UNCHANGED laneVars
  BY <1>2, PlansChange DEF laneVars, LanesInv, LanesTyped
<1>3. CASE Planning
  <2>1. CASE PlanWork \/ EditPlan \/ Reconfigure
    BY <2>1, Planned, PlansChange
  <2>2. CASE \E p \in Processes : Process(p)
    BY <2>2, ProcessBegins
  <2> QED
    BY <1>3, <2>1, <2>2 DEF Planning
<1>4. CASE Processing
  BY <1>4, AgentShows, ProcessBegins, StepBegins, StepSettles, RowStreams, ProcessSettles DEF Processing
<1> QED
  BY <1>1, <1>2, <1>3, <1>4

\* Two lanes never share a context, a process executes only what a vetted plan lists, and the
\* rows of a process that has ended say what came of its steps (deriveWorkExecutionContext,
\* runWorkProcess, executeBacklogProcessing): for any processes, plans and edits of them.
THEOREM LanesOwned == Spec => WorkIsOwned
<1>1. LanesInv => LanesAreApart
  <2> SUFFICES ASSUME LanesInv, NEW p \in Processes, NEW q \in Processes,
                      NEW k \in DOMAIN lanes[p], NEW l \in DOMAIN lanes[q], <<p, k>> # <<q, l>>
               PROVE  /\ lanes[p][k].id # lanes[q][l].id
                      /\ lanes[p][k].branch = lanes[q][l].branch =>
                           p = q /\ Segment[lanes[p][k].item] = Segment[lanes[q][l].item]
    BY DEF LanesAreApart
  <2>1. /\ lanes[p][k] = Context(p, lanes[p][k].item, lanes[p][k].group, k)
        /\ lanes[q][l] = Context(q, lanes[q][l].item, lanes[q][l].group, l)
    BY DEF LanesInv, OwnLanes
  <2>2. /\ lanes[p][k].id = <<p, Segment[lanes[p][k].item], lanes[p][k].group, k>>
        /\ lanes[q][l].id = <<q, Segment[lanes[q][l].item], lanes[q][l].group, l>>
        /\ lanes[p][k].branch = <<p, Segment[lanes[p][k].item]>>
        /\ lanes[q][l].branch = <<q, Segment[lanes[q][l].item]>>
    BY <2>1 DEF Context, Branch
  <2> QED
    BY <2>2
<1>2. LanesInv => PlansAreVetted
  BY DEF LanesInv
<1>3. LanesInv => RowsAreSettled
  <2> SUFFICES ASSUME LanesInv, NEW p \in Processes, stage[p] \in {"returned", "threw"},
                      NEW k \in DOMAIN steps[p], <<p, k>> \in DOMAIN rows
               PROVE  rows[<<p, k>>] = IF steps[p][k].status = "completed" THEN "done" ELSE "error"
    BY DEF RowsAreSettled
  <2>1. steps[p][k].status # "running" /\ rows[<<p, k>>] = Shows(stage[p], steps[p][k].status)
    BY RowOfStep DEF LanesInv, OwnLanes
  <2> QED
    BY <2>1 DEF Shows
<1>4. LanesInv /\ [Next]_vars =>
        [\A r \in DOMAIN rows :
           IF r \in DOMAIN rows' THEN rows[r] \in Terminal => rows'[r] = rows[r] ELSE rows[r] \in Terminal]_laneVars
  BY NextLanes DEF RowsKept
<1>5. Spec => []LanesInv
  BY InitLanes, NextLanes, PTL DEF Spec
<1>6. Spec => RowsEndOnce
  BY <1>4, <1>5, PTL DEF Spec, RowsEndOnce
<1> QED
  BY <1>1, <1>2, <1>3, <1>5, <1>6, PTL DEF WorkIsOwned
=============================================================================
