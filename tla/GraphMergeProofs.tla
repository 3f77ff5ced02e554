-------------------------- MODULE GraphMergeProofs --------------------------
(***************************************************************************)
(* What a git.merge node does to the target branch, for any branches, any  *)
(* number of candidates and failing Git commands: a node that fails leaves *)
(* nothing, a node that succeeds reports what it added, a rejected branch  *)
(* stays out, and no branch is deleted that the target does not contain.   *)
(***************************************************************************)
EXTENDS GraphMerge, FilteringProofs

-----------------------------------------------------------------------------
(* The invariant *)

Before == {"collect", "check"}
Cleaning == {"list", "status", "remove", "delete"}
UnderWay == {"resolve", "conflicts", "head"} \union Cleaning
Allowed == IF acceptedOnly THEN {b \in Branches : Accepted(b)} ELSE Branches

\* While a branch is under way it is the head of the queue.
MergeTyped == TypeOK /\ (pc \in UnderWay => queue # <<>>)

\* Between two candidates the target has the branches that the head read last has,
\* and nothing was merged as long as that head is the first one.
FailInv ==
  /\ pc \in Before => target \intersect Branches = {} /\ start = {} /\ Clean
  /\ pc \in {"merge"} \union Cleaning =>
       target \intersect Branches = previous \intersect Branches
  /\ merged = {} => previous = start
  /\ FailureMergesNothing

\* As long as nobody else commits and no merge is left open, the target is the
\* head read last with at most the current branch in addition.
ReportInv ==
  ~overtaken /\ Other \notin target =>
    /\ pc \in Before => merged = {} /\ target = {}
    /\ pc \in {"merge", "done", "resolve"} \union Cleaning => target = previous
    /\ pc \in {"conflicts", "head"} => target \in {previous, previous \union {branch}}
    /\ pc \in {"resolve", "conflicts"} => open \in {"none", branch}
    /\ pc \notin Before \union {"abort", "reset", "threw"} =>
         merged = previous \ start /\ start \subseteq previous

\* Only candidates that are allowed are queued, merged or left open.
SelectInv ==
  /\ queue \in Seq(Allowed) /\ open \in Allowed \union {"none"}
  /\ target \subseteq start \union Allowed \union {Other}

-----------------------------------------------------------------------------
(* Type correctness *)

LEMMA SuffixPointwise ==
  ASSUME NEW s \in Seq(Branches), NEW t \in Seq(Branches)
  PROVE  IsSuffix(s, t) <=>
           /\ Len(s) =< Len(t)
           /\ \A i \in 1..Len(s) : s[Len(s) - i + 1] = t[Len(t) - i + 1]
<1> DEFINE r == Reverse(s)
           u == Reverse(t)
<1>1. /\ r \in Seq(Branches) /\ Len(r) = Len(s)
      /\ \A i \in 1..Len(s) : r[i] = s[Len(s) - i + 1]
  BY DEF Reverse
<1>2. /\ u \in Seq(Branches) /\ Len(u) = Len(t)
      /\ \A i \in 1..Len(t) : u[i] = t[Len(t) - i + 1]
  BY DEF Reverse
<1> HIDE DEF r, u
<1>3. IsSuffix(s, t) <=> /\ Len(s) =< Len(t)
                         /\ SubSeq(r, 1, Len(s)) = SubSeq(u, 1, Len(s))
  BY <1>1, <1>2 DEF IsSuffix, IsPrefix, r, u
<1>4. Len(s) \in Nat /\ Len(t) \in Nat
  OBVIOUS
<1>5. ASSUME Len(s) =< Len(t)
      PROVE  SubSeq(r, 1, Len(s)) = SubSeq(u, 1, Len(s)) <=> \A i \in 1..Len(s) : r[i] = u[i]
  <2> DEFINE a == SubSeq(r, 1, Len(s))
             b == SubSeq(u, 1, Len(s))
  <2>1. /\ a \in Seq(Branches) /\ Len(a) = Len(s) /\ \A i \in 1..Len(s) : a[i] = r[i]
    BY <1>1, <1>4
  <2>2. /\ b \in Seq(Branches) /\ Len(b) = Len(s) /\ \A i \in 1..Len(s) : b[i] = u[i]
    BY <1>2, <1>4, <1>5
  <2> HIDE DEF a, b
  <2>3. a = b <=> \A i \in 1..Len(s) : a[i] = b[i]
    BY <2>1, <2>2, SeqEqual
  <2>4. a = b <=> \A i \in 1..Len(s) : r[i] = u[i]
    BY <2>1, <2>2, <2>3
  <2> QED
    BY <2>4 DEF a, b
<1>6. ASSUME Len(s) =< Len(t), NEW i \in 1..Len(s)
      PROVE  r[i] = s[Len(s) - i + 1] /\ u[i] = t[Len(t) - i + 1]
  BY <1>1, <1>2, <1>4, <1>6
<1> QED
  BY <1>3, <1>5, <1>6

LEMMA SuffixTail ==
  ASSUME NEW s \in Seq(Branches), NEW t \in Seq(Branches), s # <<>>, IsSuffix(s, t)
  PROVE  IsSuffix(Tail(s), t)
<1>1. /\ Len(s) =< Len(t)
      /\ \A i \in 1..Len(s) : s[Len(s) - i + 1] = t[Len(t) - i + 1]
  BY SuffixPointwise
<1>2. /\ Tail(s) \in Seq(Branches) /\ Len(Tail(s)) = Len(s) - 1 /\ Len(s) \in Nat \ {0}
      /\ \A i \in 1..(Len(s) - 1) : Tail(s)[i] = s[i + 1]
  BY HeadTailProperties, EmptySeq
<1>3. ASSUME NEW i \in 1..Len(Tail(s))
      PROVE  Tail(s)[Len(Tail(s)) - i + 1] = t[Len(t) - i + 1]
  <2>1. i \in 1..Len(s) /\ Len(s) - 1 - i + 1 \in 1..(Len(s) - 1)
    BY <1>2, <1>3
  <2>2. Tail(s)[Len(s) - 1 - i + 1] = s[(Len(s) - 1 - i + 1) + 1]
    BY <1>2, <2>1
  <2>3. (Len(s) - 1 - i + 1) + 1 = Len(s) - i + 1
    BY <1>2, <1>3
  <2> QED
    BY <1>1, <1>2, <2>1, <2>2, <2>3
<1> DEFINE u == Tail(s)
<1>4. /\ u \in Seq(Branches) /\ Len(u) =< Len(t)
      /\ \A i \in 1..Len(u) : u[Len(u) - i + 1] = t[Len(t) - i + 1]
  BY <1>1, <1>2, <1>3
<1> HIDE DEF u
<1>5. IsSuffix(u, t)
  BY <1>4, SuffixPointwise
<1> QED
  BY <1>5 DEF u

LEMMA SuffixEnds ==
  ASSUME NEW t \in Seq(Branches)
  PROVE  IsSuffix(<<>>, t) /\ IsSuffix(t, t)
<1>1. <<>> \in Seq(Branches) /\ Len(<<>>) = 0 /\ Len(t) \in Nat
  BY EmptySeq
<1>2. IsSuffix(<<>>, t)
  <2> DEFINE e == <<>>
  <2>1. e \in Seq(Branches) /\ Len(e) = 0
    BY <1>1
  <2> HIDE DEF e
  <2>2. /\ Len(e) =< Len(t)
        /\ \A i \in 1..Len(e) : e[Len(e) - i + 1] = t[Len(t) - i + 1]
    BY <1>1, <2>1
  <2>3. IsSuffix(e, t)
    BY <2>1, <2>2, SuffixPointwise
  <2> QED
    BY <2>3 DEF e
<1>3. IsSuffix(t, t)
  BY <1>1, SuffixPointwise
<1> QED
  BY <1>2, <1>3

\* What the handler merges is allowed, and the node's task does not change.
LEMMA CandidatesAllowed ==
  ASSUME TypeOK
  PROVE  Candidates \in Seq(Allowed) /\ Candidates \in Seq(Branches)
<1>1. CASE acceptedOnly
  <2> DEFINE S == {b \in Branches : Accepted(b)}
  <2>1. S \in SUBSET Branches /\ needed \in Seq(Branches)
    BY DEF TypeOK
  <2> HIDE DEF S
  <2>2. Filtered(needed, S) \in Seq(S)
    BY <2>1, FilterKeeps
  <2>3. Filtered(needed, S) \in Seq(Branches)
    BY <2>1, <2>2, SeqMonotonic
  <2> QED
    BY <1>1, <2>2, <2>3 DEF Candidates, Allowed, S
<1>2. CASE ~acceptedOnly
  BY <1>2 DEF Candidates, Allowed, TypeOK
<1> QED
  BY <1>1, <1>2

LEMMA TaskStays ==
  ASSUME UNCHANGED task
  PROVE  UNCHANGED <<needed, verdicts, acceptedOnly, deleteMerged, hasMerger, Candidates, Allowed>>
BY DEF task, Candidates, Allowed, Accepted

LEMMA QueueMoves ==
  ASSUME MergeTyped, UNCHANGED task,
         UNCHANGED queue \/ (queue # <<>> /\ queue' = Tail(queue))
  PROVE  queue' \in Seq(Branches) /\ IsSuffix(queue', Candidates')
<1>1. Candidates' = Candidates /\ Candidates \in Seq(Branches)
  BY TaskStays, CandidatesAllowed DEF MergeTyped
<1>2. queue \in Seq(Branches) /\ IsSuffix(queue, Candidates)
  BY DEF MergeTyped, TypeOK
<1>3. CASE UNCHANGED queue
  BY <1>1, <1>2, <1>3
<1>4. CASE queue # <<>> /\ queue' = Tail(queue)
  BY <1>1, <1>2, <1>4, SuffixTail, HeadTailProperties
<1> QED
  BY <1>3, <1>4

LEMMA BranchTyped == ASSUME MergeTyped, queue # <<>> PROVE branch \in Branches
  BY HeadTailProperties DEF MergeTyped, TypeOK, branch

\* The parts of the type that have nothing to do with the queue.
StateTyped ==
  /\ open \in Branches \union {"none"} /\ unmerged \in BOOLEAN
  /\ unmerged => open # "none"
  /\ {target, start, previous} \subseteq SUBSET (Branches \union {Other})
  /\ dirtyTrees \subseteq Branches /\ trees \subseteq Branches
  /\ sources \subseteq Branches /\ merged \subseteq Branches
  /\ pc \in Steps /\ faults \in 0..MaxFaults

LEMMA TypedByParts ==
  ASSUME MergeTyped, UNCHANGED task, StateTyped',
         queue' \in Seq(Branches), IsSuffix(queue', Candidates'),
         pc' \in UnderWay => queue' # <<>>,
         pc' \in Cleaning => branch' \in merged'
  PROVE  MergeTyped'
BY TaskStays DEF MergeTyped, TypeOK, StateTyped, Cleaning

LEMMA FaultTyped == ASSUME faults \in 0..MaxFaults, Fault PROVE faults' \in 0..MaxFaults /\ faults' # 0
  BY BoundsAssumption DEF Fault

LEMMA NextTyped == MergeTyped /\ [Next]_vars => MergeTyped'
<1> SUFFICES ASSUME MergeTyped, [Next]_vars
             PROVE  MergeTyped'
  OBVIOUS
<1>0. StateTyped /\ (pc \in UnderWay => queue # <<>>) /\ (pc \in Cleaning => branch \in merged)
  BY DEF MergeTyped, TypeOK, StateTyped, Cleaning
<1> USE DEF StateTyped, Steps, UnderWay, Cleaning
<1>1. CASE Collect
  <2>1. UNCHANGED task /\ StateTyped' /\ queue' = Candidates /\ pc' \in {"threw", "check"}
    BY <1>0, <1>1 DEF Collect, lanes, heads
  <2>2. Candidates' = Candidates /\ Candidates \in Seq(Branches)
    BY <2>1, TaskStays, CandidatesAllowed DEF MergeTyped
  <2>3. IsSuffix(queue', Candidates')
    BY <2>1, <2>2, SuffixEnds
  <2> QED
    BY <2>1, <2>2, <2>3, TypedByParts
<1>2. CASE Check
  <2>1. UNCHANGED task /\ UNCHANGED queue /\ StateTyped' /\ pc' \in {"merge", "threw"}
    BY <1>0, <1>2, FaultTyped DEF Check, lanes
  <2> QED
    BY <2>1, QueueMoves, TypedByParts
<1>3. CASE Merge
  <2>1. UNCHANGED task /\ UNCHANGED queue /\ pc' \in {"head", "resolve"} /\ queue # <<>>
    BY <1>3 DEF Merge
  <2>2. branch \in Branches
    BY <2>1, BranchTyped
  <2>3. StateTyped'
    <3>1. UNCHANGED <<lanes, heads>>
      BY <1>3 DEF Merge
    <3>2. /\ faults' \in 0..MaxFaults
          /\ open' \in Branches \union {"none"} /\ unmerged' \in BOOLEAN
          /\ unmerged' => open' # "none"
          /\ target' \in SUBSET (Branches \union {Other})
      <4>1. CASE target' = target \union {branch} /\ UNCHANGED <<open, unmerged, faults>>
        BY <1>0, <2>2, <4>1
      <4>2. CASE open' = branch /\ unmerged' = TRUE /\ UNCHANGED <<target, faults>>
        BY <1>0, <2>2, <4>2, BranchesAssumption
      <4>3. CASE (Fault \/ UNCHANGED faults) /\ UNCHANGED <<target, open, unmerged>>
        BY <1>0, <4>3, FaultTyped
      <4> QED
        BY <1>3, <4>1, <4>2, <4>3 DEF Merge
    <3> QED
      BY <1>0, <2>1, <3>1, <3>2 DEF lanes, heads
  <2> QED
    BY <2>1, <2>3, QueueMoves, TypedByParts
<1>4. CASE Resolve
  <2>1. UNCHANGED task /\ UNCHANGED queue /\ pc' \in {"conflicts", "abort", "threw"} /\ queue # <<>>
    BY <1>0, <1>4 DEF Resolve
  <2>2. UNCHANGED <<lanes, heads>> /\ faults' \in 0..MaxFaults
    BY <1>0, <1>4, FaultTyped DEF Resolve
  <2>3. /\ open' \in Branches \union {"none"} /\ unmerged' \in BOOLEAN
        /\ unmerged' => open' # "none"
        /\ target' \in SUBSET (Branches \union {Other})
    <3>1. UNCHANGED <<target, open, unmerged>> \/ Resolutions
      BY <1>4 DEF Resolve
    <3>2. CASE open # "none" /\ target' = target \union {open} /\ open' = "none" /\ unmerged' = FALSE
      BY <1>0, <3>2
    <3>3. CASE open # "none" /\ unmerged' = FALSE /\ UNCHANGED <<target, open>>
      BY <1>0, <3>3
    <3>4. CASE open' = "none" /\ unmerged' = FALSE /\ UNCHANGED target
      BY <1>0, <3>4
    <3>5. CASE UNCHANGED <<target, open, unmerged>>
      BY <1>0, <3>5
    <3> QED
      BY <3>1, <3>2, <3>3, <3>4, <3>5 DEF Resolutions
  <2>4. StateTyped'
    BY <1>0, <2>1, <2>2, <2>3 DEF lanes, heads
  <2> QED
    BY <2>1, <2>4, QueueMoves, TypedByParts
<1>5. CASE CheckConflicts
  <2>1. UNCHANGED task /\ UNCHANGED queue /\ pc' \in {"abort", "head", "threw"} /\ queue # <<>>
    BY <1>0, <1>5 DEF CheckConflicts
  <2>2. StateTyped'
    BY <1>0, <1>5, FaultTyped DEF CheckConflicts, lanes, heads
  <2> QED
    BY <2>1, <2>2, QueueMoves, TypedByParts
<1>6. CASE Abort
  <2>1. UNCHANGED task /\ UNCHANGED queue /\ pc' = "reset" /\ UNCHANGED <<target, lanes, heads>>
    BY <1>6 DEF Abort
  <2>2. /\ open' \in Branches \union {"none"} /\ unmerged' \in BOOLEAN
        /\ unmerged' => open' # "none"
        /\ faults' \in 0..MaxFaults
    <3>1. CASE open' = "none" /\ unmerged' = FALSE /\ UNCHANGED faults
      BY <1>0, <3>1
    <3>2. CASE Fault /\ UNCHANGED <<open, unmerged>>
      BY <1>0, <3>2, FaultTyped
    <3> QED
      BY <1>6, <3>1, <3>2 DEF Abort
  <2>3. StateTyped'
    BY <1>0, <2>1, <2>2 DEF lanes, heads
  <2> QED
    BY <2>1, <2>3, QueueMoves, TypedByParts
<1>7. CASE Reset
  <2>1. UNCHANGED task /\ UNCHANGED queue /\ pc' = "threw" /\ UNCHANGED <<lanes, heads>>
    BY <1>7 DEF Reset
  <2>2. /\ open' \in Branches \union {"none"} /\ unmerged' \in BOOLEAN
        /\ unmerged' => open' # "none"
        /\ target' \in SUBSET (Branches \union {Other})
        /\ faults' \in 0..MaxFaults
    <3>1. CASE target' = start /\ open' = "none" /\ unmerged' = FALSE /\ UNCHANGED faults
      BY <1>0, <3>1
    <3>2. CASE Fault /\ UNCHANGED <<target, open, unmerged>>
      BY <1>0, <3>2, FaultTyped
    <3> QED
      BY <1>7, <3>1, <3>2 DEF Reset, ResetTo
  <2>3. StateTyped'
    BY <1>0, <2>1, <2>2 DEF lanes, heads
  <2> QED
    BY <2>1, <2>3, QueueMoves, TypedByParts
<1>8. CASE ReadHead
  <2>1. UNCHANGED task /\ queue # <<>>
    BY <1>0, <1>8 DEF ReadHead
  <2>2. branch \in Branches
    BY <2>1, BranchTyped
  <2>3. StateTyped'
    BY <1>0, <1>8, <2>2, FaultTyped DEF ReadHead, NextCandidate, lanes
  <2>4. \/ pc' = "list" /\ UNCHANGED queue /\ merged' = merged \union {branch}
        \/ pc' = "merge" /\ queue' = Tail(queue)
        \/ pc' = "threw" /\ UNCHANGED queue
    BY <1>8 DEF ReadHead, NextCandidate
  <2>5. pc' = "list" => branch' \in merged'
    BY <2>4 DEF branch
  <2> QED
    BY <2>1, <2>3, <2>4, <2>5, QueueMoves, TypedByParts
<1>9. CASE FindSourceWorktree \/ CheckSource \/ RemoveSource \/ DeleteSource
  <2>1. UNCHANGED task /\ UNCHANGED merged /\ queue # <<>> /\ branch \in merged
    BY <1>0, <1>9 DEF FindSourceWorktree, CheckSource, RemoveSource, DeleteSource, heads
  <2>2. StateTyped'
    BY <1>0, <1>9, FaultTyped
       DEF FindSourceWorktree, CheckSource, RemoveSource, DeleteSource, NextCandidate, lanes, heads
  <2>3. \/ pc' \in Cleaning /\ UNCHANGED queue
        \/ pc' = "merge" /\ queue' = Tail(queue)
    BY <1>9 DEF FindSourceWorktree, CheckSource, RemoveSource, DeleteSource, NextCandidate
  <2>4. pc' \in Cleaning => branch' \in merged'
    BY <2>1, <2>3 DEF branch
  <2> QED
    BY <2>1, <2>2, <2>3, <2>4, QueueMoves, TypedByParts
<1>10. CASE Finish
  <2>1. UNCHANGED task /\ UNCHANGED queue /\ pc' \in {"threw", "done"} /\ StateTyped'
    BY <1>0, <1>10 DEF Finish, lanes, heads
  <2> QED
    BY <2>1, QueueMoves, TypedByParts
<1>11. CASE CommitByOthers
  <2>1. UNCHANGED task /\ UNCHANGED <<queue, pc, merged>> /\ StateTyped'
    BY <1>0, <1>11 DEF CommitByOthers, lanes, heads
  <2> QED
    BY <1>0, <2>1, QueueMoves, TypedByParts DEF branch
<1>12. CASE UNCHANGED vars
  <2>1. UNCHANGED task /\ UNCHANGED <<queue, pc, merged>> /\ StateTyped'
    BY <1>0, <1>12 DEF vars, lanes, heads
  <2> QED
    BY <1>0, <2>1, QueueMoves, TypedByParts DEF branch
<1> QED
  BY <1>1, <1>2, <1>3, <1>4, <1>5, <1>6, <1>7, <1>8, <1>9, <1>10, <1>11, <1>12 DEF Next, Handler

LEMMA InitTyped == Init => MergeTyped
<1> SUFFICES ASSUME Init
             PROVE  MergeTyped
  OBVIOUS
<1>1. needed \in Seq(Branches)
  <2>1. needed \in SeqOf(Branches, MaxCandidates)
    BY DEF Init
  <2>2. PICK n \in 0..MaxCandidates : needed \in [1..n -> Branches]
    BY <2>1 DEF SeqOf
  <2> QED
    BY <2>2, BoundsAssumption, SeqDef
<1>2. /\ queue = <<>> /\ queue \in Seq(Branches)
      /\ verdicts \in [Branches -> SUBSET BOOLEAN]
  <2>1. queue = <<>> /\ verdicts \in [Branches -> IF acceptedOnly THEN SUBSET BOOLEAN ELSE {{}}]
    BY DEF Init
  <2>2. (IF acceptedOnly THEN SUBSET BOOLEAN ELSE {{}}) \subseteq SUBSET BOOLEAN
    OBVIOUS
  <2> QED
    BY <2>1, <2>2, EmptySeq
<1>3. Candidates \in Seq(Branches)
  <2> DEFINE S == {b \in Branches : Accepted(b)}
  <2>1. S \in SUBSET Branches
    OBVIOUS
  <2> HIDE DEF S
  <2>2. Filtered(needed, S) \in Seq(Branches)
    <3>1. Filtered(needed, S) \in Seq(S \intersect Branches)
      BY <1>1, FilterKeeps
    <3> QED
      BY <3>1, SeqMonotonic
  <2> QED
    BY <1>1, <2>2 DEF Candidates, S
<1>4. IsSuffix(queue, Candidates)
  BY <1>2, <1>3, SuffixEnds
<1>5. StateTyped /\ pc = "collect" /\ {acceptedOnly, deleteMerged, hasMerger} \subseteq BOOLEAN
  <2>1. /\ target = {} /\ open = "none" /\ unmerged = FALSE
        /\ sources = Branches /\ trees = Branches
        /\ dirtyTrees \in (IF deleteMerged THEN SUBSET trees ELSE {{}})
        /\ pc = "collect" /\ start = target /\ previous = target /\ merged = {} /\ faults = 0
        /\ acceptedOnly \in BOOLEAN /\ deleteMerged \in BOOLEAN /\ hasMerger \in BOOLEAN
    BY DEF Init
  <2>2. dirtyTrees \subseteq Branches
    BY <2>1
  <2>3. faults \in 0..MaxFaults
    BY <2>1, BoundsAssumption
  <2>4. open \in Branches \union {"none"} /\ unmerged \in BOOLEAN /\ (unmerged => open # "none")
    BY <2>1
  <2> QED
    BY <2>1, <2>2, <2>3, <2>4 DEF StateTyped, Steps
<1> QED
  BY <1>1, <1>2, <1>3, <1>4, <1>5 DEF MergeTyped, TypeOK, StateTyped, UnderWay, Cleaning

-----------------------------------------------------------------------------
(* A node that fails leaves nothing *)

LEMMA NextFail == MergeTyped /\ FailInv /\ [Next]_vars => FailInv'
<1> SUFFICES ASSUME MergeTyped, FailInv, [Next]_vars
             PROVE  FailInv'
  OBVIOUS
<1>0. /\ pc \in Before => target \intersect Branches = {} /\ start = {} /\ open = "none"
      /\ pc \in {"merge", "list", "status", "remove", "delete"} =>
           target \intersect Branches = previous \intersect Branches
      /\ merged = {} => previous = start
      /\ pc = "threw" /\ faults = 0 =>
           target \intersect Branches = start \intersect Branches
      /\ faults \in 0..MaxFaults /\ Other \notin Branches
  BY BranchesAssumption DEF FailInv, Cleaning, FailureMergesNothing, Clean, MergeTyped, TypeOK
<1> USE DEF FailInv, Cleaning, FailureMergesNothing, Clean, Before, lanes, heads
<1>1. CASE Collect
  BY <1>0, <1>1 DEF Collect
<1>2. CASE Check
  BY <1>0, <1>2 DEF Check
<1>3. CASE Merge
  <2>1. pc' \in {"head", "resolve"} /\ UNCHANGED heads
    BY <1>3 DEF Merge
  <2> QED
    BY <1>0, <2>1
<1>4. CASE Resolve
  <2>1. pc' \in {"conflicts", "abort"} \/ (pc' = "threw" /\ faults' # 0)
    BY <1>0, <1>4, FaultTyped DEF Resolve
  <2> QED
    BY <1>0, <1>4, <2>1 DEF Resolve
<1>5. CASE CheckConflicts
  <2>1. pc' \in {"head", "abort"} \/ (pc' = "threw" /\ faults' # 0)
    BY <1>0, <1>5, FaultTyped DEF CheckConflicts
  <2> QED
    BY <1>0, <1>5, <2>1 DEF CheckConflicts
<1>6. CASE Abort
  BY <1>0, <1>6 DEF Abort
<1>7. CASE Reset
  <2>1. target' = start \/ faults' # 0
    BY <1>0, <1>7, FaultTyped DEF Reset, ResetTo
  <2> QED
    BY <1>0, <1>7, <2>1 DEF Reset
<1>8. CASE ReadHead
  <2>1. CASE Fault /\ pc' = "threw" /\ UNCHANGED <<previous, merged, target, start>>
    BY <1>0, <2>1, FaultTyped
  <2>2. CASE ~Fault \/ ~(pc' = "threw" /\ UNCHANGED <<previous, merged>>)
    <3>1. previous' = target /\ pc' \in {"list", "merge"} /\ UNCHANGED <<target, start>>
      BY <1>8, <2>2 DEF ReadHead, NextCandidate
    <3>2. merged' # {} \/ (previous' = previous /\ merged' = merged)
      BY <1>8, <2>2 DEF ReadHead, Moved
    <3> QED
      BY <1>0, <3>1, <3>2
  <2>3. UNCHANGED <<target, start>>
    BY <1>8 DEF ReadHead
  <2> QED
    BY <2>1, <2>2, <2>3
<1>9. CASE FindSourceWorktree \/ CheckSource \/ RemoveSource \/ DeleteSource
  <2>1. pc' \in {"merge"} \union Cleaning /\ pc \in Cleaning /\ UNCHANGED <<target, heads>>
    BY <1>9 DEF FindSourceWorktree, CheckSource, RemoveSource, DeleteSource, NextCandidate
  <2> QED
    BY <1>0, <2>1
<1>10. CASE Finish
  BY <1>0, <1>10 DEF Finish
<1>11. CASE CommitByOthers
  <2>1. target' \intersect Branches = target \intersect Branches
    BY <1>0, <1>11 DEF CommitByOthers
  <2> QED
    BY <1>0, <1>11, <2>1 DEF CommitByOthers
<1>12. CASE UNCHANGED vars
  BY <1>0, <1>12 DEF vars
<1> QED
  BY <1>1, <1>2, <1>3, <1>4, <1>5, <1>6, <1>7, <1>8, <1>9, <1>10, <1>11, <1>12 DEF Next, Handler

-----------------------------------------------------------------------------
(* A node that succeeds reports the truth *)

LEMMA NextReport == MergeTyped /\ FailInv /\ ReportInv /\ [Next]_vars => ReportInv'
<1> SUFFICES ASSUME MergeTyped, FailInv, ReportInv, [Next]_vars, ~overtaken', Other \notin target'
             PROVE  /\ pc' \in Before => merged' = {} /\ target' = {}
                    /\ pc' \in {"merge", "done", "resolve"} \union Cleaning => target' = previous'
                    /\ pc' \in {"conflicts", "head"} =>
                         target' \in {previous', previous' \union {branch'}}
                    /\ pc' \in {"resolve", "conflicts"} => open' \in {"none", branch'}
                    /\ pc' \notin Before \union {"abort", "reset", "threw"} =>
                         merged' = previous' \ start' /\ start' \subseteq previous'
  BY DEF ReportInv, Cleaning
<1> DEFINE Here ==
      /\ pc \in Before => merged = {} /\ target = {} /\ start = {} /\ open = "none"
      /\ pc \in {"merge", "done", "resolve", "list", "status", "remove", "delete"} =>
           target = previous
      /\ pc \in {"conflicts", "head"} => target = previous \/ target = previous \union {branch}
      /\ pc \in {"resolve", "conflicts"} => open = "none" \/ open = branch
      /\ pc \notin Before \union {"abort", "reset", "threw"} =>
           merged = previous \ start /\ start \subseteq previous
<1>0. ~overtaken /\ Other \notin target => Here
  BY DEF ReportInv, FailInv, Cleaning, Clean
<1> HIDE DEF Here
<1> USE DEF Cleaning, Before, lanes, heads
<1>1. CASE Collect /\ UNCHANGED overtaken
  <2>1. UNCHANGED <<target, merged>> /\ pc = "collect" /\ pc' \in {"threw", "check"}
    BY <1>1 DEF Collect
  <2>2. Here
    BY <1>0, <1>1, <2>1
  <2> QED
    BY <2>1, <2>2 DEF Here
<1>2. CASE Check /\ UNCHANGED overtaken
  <2>1. UNCHANGED <<target, merged>> /\ pc = "check"
    BY <1>2 DEF Check
  <2>2. Here
    BY <1>0, <1>2, <2>1
  <2>3. pc' = "threw" \/ (pc' = "merge" /\ start' = target /\ previous' = target)
    BY <1>2 DEF Check
  <2> QED
    BY <2>1, <2>2, <2>3 DEF Here
<1>3. CASE Merge
  <2>1. /\ pc = "merge" /\ queue # <<>> /\ UNCHANGED <<queue, previous, start, merged>>
        /\ overtaken' = (overtaken \/ ~Clean) /\ target \subseteq target'
    BY <1>3 DEF Merge
  <2>2. ~overtaken /\ open = "none"
    BY <2>1 DEF Clean
  <2>3. Here
    BY <1>0, <2>1, <2>2
  <2>4. \/ pc' = "head" /\ target' = target \union {branch} /\ UNCHANGED open
        \/ pc' = "resolve" /\ UNCHANGED target /\ open' = branch
        \/ pc' = "resolve" /\ UNCHANGED target /\ UNCHANGED open
    BY <1>3 DEF Merge
  <2>5. branch' = branch
    BY <2>1 DEF branch
  <2> QED
    BY <2>1, <2>2, <2>3, <2>4, <2>5 DEF Here
<1>4. CASE Resolve /\ UNCHANGED overtaken
  <2>1. /\ pc = "resolve" /\ pc' \in {"conflicts", "abort", "threw"}
        /\ UNCHANGED <<queue, previous, start, merged>>
    BY <1>4 DEF Resolve
  <2>2. branch' = branch
    BY <2>1 DEF branch
  <2>3. \/ target' = target \union {open} /\ open' = "none" /\ open # "none"
        \/ UNCHANGED target /\ open' \in {open, "none"}
    BY <1>4 DEF Resolve, Resolutions
  <2>4. Here
    BY <1>0, <1>4, <2>3
  <2> QED
    BY <2>1, <2>2, <2>3, <2>4 DEF Here
<1>5. CASE CheckConflicts /\ UNCHANGED overtaken
  <2>1. /\ pc = "conflicts" /\ pc' \in {"head", "abort", "threw"}
        /\ UNCHANGED <<queue, target, previous, start, merged>>
    BY <1>5 DEF CheckConflicts
  <2>2. branch' = branch
    BY <2>1 DEF branch
  <2>3. Here
    BY <1>0, <1>5, <2>1
  <2> QED
    BY <2>1, <2>2, <2>3 DEF Here
<1>6. CASE Abort \/ Reset
  BY <1>6 DEF Abort, Reset
<1>8. CASE ReadHead /\ UNCHANGED overtaken
  <2>1. pc = "head" /\ UNCHANGED <<target, start>>
    BY <1>8 DEF ReadHead
  <2>2. Here
    BY <1>0, <1>8, <2>1
  <2>3. \/ /\ previous' = target /\ pc' \in {"list", "merge"} /\ target # previous
           /\ merged' = merged \union {branch}
        \/ previous' = target /\ pc' = "merge" /\ target = previous /\ merged' = merged
        \/ pc' = "threw"
    BY <1>8 DEF ReadHead, NextCandidate, Moved
  <2>4. CASE /\ previous' = target /\ pc' \in {"list", "merge"} /\ target # previous
             /\ merged' = merged \union {branch}
    <3>1. /\ target = previous \union {branch} /\ branch \notin previous
          /\ merged = previous \ start /\ start \subseteq previous
      BY <2>1, <2>2, <2>4 DEF Here
    <3>2. merged' = target \ start /\ start \subseteq target
      BY <2>4, <3>1
    <3> QED
      BY <2>1, <2>4, <3>2
  <2>5. CASE previous' = target /\ pc' = "merge" /\ target = previous /\ merged' = merged
    BY <2>1, <2>2, <2>5 DEF Here
  <2>6. CASE pc' = "threw"
    BY <2>6
  <2> QED
    BY <2>3, <2>4, <2>5, <2>6
<1>9. CASE (FindSourceWorktree \/ CheckSource \/ RemoveSource \/ DeleteSource) /\ UNCHANGED overtaken
  <2>1. pc' \in {"merge"} \union Cleaning /\ pc \in Cleaning /\ UNCHANGED <<target, heads>>
    BY <1>9 DEF FindSourceWorktree, CheckSource, RemoveSource, DeleteSource, NextCandidate
  <2>2. Here
    BY <1>0, <1>9, <2>1
  <2> QED
    BY <2>1, <2>2 DEF Here
<1>10. CASE Finish /\ UNCHANGED overtaken
  <2>1. pc = "merge" /\ pc' \in {"done", "threw"} /\ UNCHANGED <<target, heads>>
    BY <1>10 DEF Finish
  <2>2. Here
    BY <1>0, <1>10, <2>1
  <2> QED
    BY <2>1, <2>2 DEF Here
<1>11. CASE CommitByOthers
  BY <1>11 DEF CommitByOthers
<1>12. CASE UNCHANGED vars
  <2>1. UNCHANGED <<target, heads, open, pc, queue, overtaken>>
    BY <1>12 DEF vars
  <2>2. Here /\ branch' = branch
    BY <1>0, <2>1 DEF branch
  <2> QED
    BY <2>1, <2>2 DEF Here
<1> QED
  BY <1>1, <1>2, <1>3, <1>4, <1>5, <1>6, <1>8, <1>9, <1>10, <1>11, <1>12 DEF Next, Handler

-----------------------------------------------------------------------------
(* A rejected branch stays out *)

LEMMA NextSelect == MergeTyped /\ FailInv /\ SelectInv /\ [Next]_vars => SelectInv'
<1> SUFFICES ASSUME MergeTyped, FailInv, SelectInv, [Next]_vars
             PROVE  SelectInv'
  OBVIOUS
<1>0. /\ queue \in Seq(Allowed) /\ open \in Allowed \union {"none"}
      /\ target \subseteq start \union Allowed \union {Other}
      /\ pc \in UnderWay => queue # <<>>
  BY DEF SelectInv, MergeTyped
<1>a. queue # <<>> => branch \in Allowed /\ Tail(queue) \in Seq(Allowed)
  BY <1>0, HeadTailProperties DEF branch
<1>b. ASSUME UNCHANGED task,
             UNCHANGED queue \/ (queue # <<>> /\ queue' = Tail(queue)),
             open' \in Allowed \union {"none"},
             target' \subseteq start' \union Allowed \union {Other}
      PROVE  SelectInv'
  <2>1. Allowed' = Allowed
    BY <1>b, TaskStays
  <2>2. queue' \in Seq(Allowed)
    BY <1>0, <1>a, <1>b
  <2> QED
    BY <1>b, <2>1, <2>2 DEF SelectInv
<1> USE DEF lanes, heads
<1>1. CASE Collect
  <2>1. UNCHANGED <<task, target, open, start>> /\ queue' = Candidates
    BY <1>1 DEF Collect
  <2>2. Allowed' = Allowed /\ Candidates \in Seq(Allowed)
    BY <2>1, TaskStays, CandidatesAllowed DEF MergeTyped
  <2> QED
    BY <1>0, <2>1, <2>2 DEF SelectInv
<1>2. CASE Check
  <2>1. UNCHANGED <<task, target, open, queue>> /\ (start' = target \/ UNCHANGED start)
    BY <1>2 DEF Check
  <2> QED
    BY <1>0, <1>b, <2>1
<1>3. CASE Merge
  <2>1. /\ UNCHANGED <<task, queue, start>> /\ queue # <<>>
        /\ target' \in {target, target \union {branch}} /\ open' \in {open, branch}
    BY <1>3 DEF Merge
  <2> QED
    BY <1>0, <1>a, <1>b, <2>1
<1>4. CASE Resolve
  <2>1. UNCHANGED <<task, queue, start>>
    BY <1>4 DEF Resolve
  <2>2. \/ open # "none" /\ target' = target \union {open} /\ open' = "none"
        \/ UNCHANGED target /\ open' \in {open, "none"}
    BY <1>4 DEF Resolve, Resolutions
  <2> QED
    BY <1>0, <1>b, <2>1, <2>2
<1>5. CASE CheckConflicts
  <2>1. UNCHANGED <<task, queue, start, target, open>>
    BY <1>5 DEF CheckConflicts
  <2> QED
    BY <1>0, <1>b, <2>1
<1>6. CASE Abort
  <2>1. UNCHANGED <<task, queue, start, target>> /\ open' \in {open, "none"}
    BY <1>6 DEF Abort
  <2> QED
    BY <1>0, <1>b, <2>1
<1>7. CASE Reset
  <2>1. UNCHANGED <<task, queue, start>> /\ open' \in {open, "none"} /\ target' \in {target, start}
    BY <1>7 DEF Reset, ResetTo
  <2> QED
    BY <1>0, <1>b, <2>1
<1>8. CASE ReadHead \/ FindSourceWorktree \/ CheckSource \/ RemoveSource \/ DeleteSource
  <2>1. UNCHANGED <<task, start, target, open>> /\ pc \in UnderWay
    BY <1>8 DEF ReadHead, FindSourceWorktree, CheckSource, RemoveSource, DeleteSource, UnderWay, Cleaning
  <2>2. UNCHANGED queue \/ (queue # <<>> /\ queue' = Tail(queue))
    BY <1>0, <1>8, <2>1
       DEF ReadHead, FindSourceWorktree, CheckSource, RemoveSource, DeleteSource, NextCandidate
  <2> QED
    BY <1>0, <1>b, <2>1, <2>2
<1>9. CASE Finish
  <2>1. UNCHANGED <<task, queue, start, target, open>>
    BY <1>9 DEF Finish
  <2> QED
    BY <1>0, <1>b, <2>1
<1>10. CASE CommitByOthers
  <2>1. UNCHANGED <<task, queue, start, open>> /\ target' = target \union {Other}
    BY <1>10 DEF CommitByOthers
  <2> QED
    BY <1>0, <1>b, <2>1
<1>11. CASE UNCHANGED vars
  <2>1. UNCHANGED <<task, queue, start, target, open>>
    BY <1>11 DEF vars
  <2> QED
    BY <1>0, <1>b, <2>1
<1> QED
  BY <1>1, <1>2, <1>3, <1>4, <1>5, <1>6, <1>7, <1>8, <1>9, <1>10, <1>11 DEF Next, Handler

-----------------------------------------------------------------------------
(* The results *)

MergeInv == MergeTyped /\ FailInv /\ ReportInv /\ SelectInv

LEMMA MergeInvariant == Spec => []MergeInv
<1>1. Init => MergeInv
  <2> SUFFICES ASSUME Init
               PROVE  MergeInv
    OBVIOUS
  <2>1. MergeTyped
    BY InitTyped
  <2>2. /\ target = {} /\ open = "none" /\ pc = "collect" /\ queue = <<>>
        /\ start = {} /\ previous = {} /\ merged = {}
    BY DEF Init
  <2>3. queue \in Seq(Allowed)
    BY <2>2, EmptySeq
  <2>4. FailInv /\ ReportInv
    BY <2>2 DEF FailInv, ReportInv, Before, Cleaning, Clean, FailureMergesNothing
  <2>5. SelectInv
    BY <2>2, <2>3 DEF SelectInv
  <2> QED
    BY <2>1, <2>4, <2>5 DEF MergeInv
<1>2. MergeInv /\ [Next]_vars => MergeInv'
  BY NextTyped, NextFail, NextReport, NextSelect DEF MergeInv
<1> QED
  BY <1>1, <1>2, PTL DEF Spec

\* A node that fails leaves none of its branches in the target, and one that
\* succeeds reports what it added there.
THEOREM Outcome == Spec => []OutcomeIsTrue
<1>1. MergeInv => OutcomeIsTrue
  BY DEF MergeInv, MergeTyped, FailInv, ReportInv, OutcomeIsTrue, ReportIsTrue, Before, Cleaning
<1> QED
  BY <1>1, MergeInvariant, PTL

\* With accepted-only, a branch in the target that was not there at the start is
\* accepted by some review and rejected by none.
THEOREM Selection == Spec => []RejectedStaysOut
<1>1. MergeInv => RejectedStaysOut
  <2> SUFFICES ASSUME MergeInv, acceptedOnly, NEW b \in Branches \intersect (target \ start)
               PROVE  FALSE \notin verdicts[b] /\ TRUE \in verdicts[b]
    BY DEF RejectedStaysOut
  <2>1. b \in Allowed
    BY BranchesAssumption DEF MergeInv, SelectInv
  <2> QED
    BY <2>1 DEF Allowed, Accepted
<1> QED
  BY <1>1, MergeInvariant, PTL

\* Only git branch -d removes a source, and it looks at the target.
THEOREM Deletion == Spec => DeletedWasMerged
<1>1. [Next]_vars => [sources \ sources' \subseteq target]_sources
  <2> SUFFICES ASSUME [Next]_vars, sources' # sources
               PROVE  sources \ sources' \subseteq target
    OBVIOUS
  <2>1. DeleteSource
    BY DEF vars, Next, Handler, lanes, Collect, Check, Merge, Resolve, CheckConflicts, Abort,
           Reset, ReadHead, FindSourceWorktree, CheckSource, RemoveSource, Finish, CommitByOthers
  <2> QED
    BY <2>1 DEF DeleteSource, Deletable
<1> QED
  BY <1>1, PTL DEF Spec, DeletedWasMerged

=============================================================================
