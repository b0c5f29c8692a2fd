--------------------------- MODULE AltGraphProofs ---------------------------
(***************************************************************************)
(* Whatever a solver prefers, taking the preferred arc unless it closes a  *)
(* cycle, and else the other one, never closes a cycle.  Reachability is   *)
(* by closed sets of nodes, so the proofs give such sets instead of paths. *)
(* The schedules are longest paths: they keep every arc, nothing that does *)
(* is earlier, and the optimum is that of all schedules, which the         *)
(* constraint model of the strategy study never misses.                    *)
(***************************************************************************)
EXTENDS StrategyStudy, Extremes

AltInv == problem \in Problems /\ TypeOK /\ Acyclic

-----------------------------------------------------------------------------
\* A node reaches itself,
LEMMA ReachesItself ==
    ASSUME NEW arcs, NEW n
    PROVE  Reaches(arcs, n, n)
  BY DEF Reaches

\* reaching goes on from what is reached,
LEMMA ReachesOnward ==
    ASSUME NEW arcs, NEW n, NEW m, NEW k, Reaches(arcs, n, m), Reaches(arcs, m, k)
    PROVE  Reaches(arcs, n, k)
  BY DEF Reaches

\* and over every arc.
LEMMA ReachesOver ==
    ASSUME NEW arcs, NEW a \in arcs, NEW n, Reaches(arcs, n, a[1])
    PROVE  Reaches(arcs, n, a[2])
  BY DEF Reaches, Closed

\* Two nodes of a graph without cycles do not reach each other.
LEMMA OneWay ==
    ASSUME NEW arcs, arcs \subseteq Nodes \X Nodes, NoCycle(arcs),
           NEW x \in Nodes, NEW y \in Nodes, x # y, Reaches(arcs, y, x)
    PROVE  ~Reaches(arcs, x, y)
  <1> SUFFICES ASSUME Reaches(arcs, x, y) PROVE FALSE
    OBVIOUS
  <1> DEFINE beyond(n) == \E a \in arcs : a[1] = y /\ Reaches(arcs, a[2], n)
             S == {n \in Nodes : n = y \/ beyond(n)}
  <1>1. S \in SUBSET Nodes /\ y \in S
    OBVIOUS
  <1>2. Closed(S, arcs)
    <2> SUFFICES ASSUME NEW a \in arcs, a[1] \in S PROVE a[2] \in S
      BY DEF Closed
    <2>1. a[2] \in Nodes
      OBVIOUS
    <2>2. CASE a[1] = y
      <3>1. beyond(a[2])
        BY <2>2, ReachesItself
      <3> QED
        BY <2>1, <3>1
    <2>3. CASE beyond(a[1])
      <3>1. PICK b \in arcs : b[1] = y /\ Reaches(arcs, b[2], a[1])
        BY <2>3
      <3>2. Reaches(arcs, b[2], a[2])
        BY <3>1, ReachesOver
      <3> QED
        BY <2>1, <3>1, <3>2
    <2> QED
      BY <2>2, <2>3
  <1>3. x \in S
    BY <1>1, <1>2 DEF Reaches
  <1>4. PICK a \in arcs : a[1] = y /\ Reaches(arcs, a[2], x)
    BY <1>3
  <1>5. Reaches(arcs, a[2], a[1])
    BY <1>4, ReachesOnward
  <1> QED
    BY <1>5 DEF NoCycle

\* An arc whose end does not reach its beginning closes no cycle.
LEMMA SafeArc ==
    ASSUME NEW arcs, arcs \subseteq Nodes \X Nodes, NoCycle(arcs),
           NEW x \in Nodes, NEW y \in Nodes, ~Reaches(arcs, y, x)
    PROVE  NoCycle(arcs \cup {<<x, y>>})
  <1> DEFINE more == arcs \cup {<<x, y>>}
  <1>1. PICK C \in SUBSET Nodes : y \in C /\ Closed(C, arcs) /\ x \notin C
    BY DEF Reaches
  <1>2. Closed(C, more)
    BY <1>1 DEF Closed
  <1>3. ASSUME NEW a \in more PROVE ~Reaches(more, a[2], a[1])
    <2>1. CASE a = <<x, y>>
      BY <1>1, <1>2, <2>1 DEF Reaches
    <2>2. CASE a \in arcs
      <3>1. ~Reaches(arcs, a[2], a[1])
        BY <2>2 DEF NoCycle
      <3>2. PICK D \in SUBSET Nodes : a[2] \in D /\ Closed(D, arcs) /\ a[1] \notin D
        BY <3>1 DEF Reaches
      <3>3. CASE x \notin D
        <4>1. Closed(D, more)
          BY <3>2, <3>3 DEF Closed
        <4> QED
          BY <3>2, <4>1 DEF Reaches
      <3>4. CASE a[1] \notin C
        <4>1. Closed(D \cup C, more)
          BY <1>1, <3>2 DEF Closed
        <4>2. D \cup C \in SUBSET Nodes /\ a[2] \in D \cup C /\ a[1] \notin D \cup C
          BY <3>2, <3>4
        <4> QED
          BY <4>1, <4>2 DEF Reaches
      <3>5. CASE a[1] \in C
        <4>1. a[2] \in C
          BY <1>1, <2>2, <3>5 DEF Closed
        <4>2. Closed(D \cap C, more)
          BY <1>1, <3>2 DEF Closed
        <4>3. D \cap C \in SUBSET Nodes /\ a[2] \in D \cap C /\ a[1] \notin D \cap C
          BY <3>2, <4>1
        <4> QED
          BY <4>2, <4>3 DEF Reaches
      <3> QED
        BY <3>3, <3>4, <3>5
    <2> QED
      BY <2>1, <2>2
  <1> QED
    BY <1>3 DEF NoCycle

-----------------------------------------------------------------------------
\* Trains, their operations and the numbers of these, as proofs use them.
LEMMA ProblemTyping ==
    ASSUME problem \in Problems
    PROVE  /\ \A t \in Trains : t \in Nat \ {0} /\ Len(problem.ops[t]) \in Nat \ {0}
                                 /\ DOMAIN problem.ops[t] = 1..Len(problem.ops[t])
           /\ \A n \in Operations : /\ n = <<n[1], n[2]>> /\ n[1] \in Trains
                                    /\ n[1] \in Nat \ {0} /\ n[2] \in Nat \ {0}
           /\ \A t \in Trains : First(t) \in Operations /\ Final(t) \in Operations
  <1>1. problem.ops \in Seq(Seq(Operation) \ {<<>>})
    BY ProblemsAssumption DEF ProblemsAssumption
  <1>2. \A t \in Trains : t \in Nat \ {0} /\ problem.ops[t] \in Seq(Operation) \ {<<>>}
    BY <1>1, LenProperties, ElementOfSeq DEF Trains
  <1>3. ASSUME NEW t \in Trains
        PROVE  /\ Len(problem.ops[t]) \in Nat \ {0}
               /\ DOMAIN problem.ops[t] = 1..Len(problem.ops[t])
    <2>1. problem.ops[t] \in Seq(Operation) /\ problem.ops[t] # <<>>
      BY <1>2
    <2> QED
      BY <2>1, LenProperties, EmptySeq
  <1>4. \A n \in Operations : /\ n = <<n[1], n[2]>> /\ n[1] \in Trains
                              /\ n[2] \in DOMAIN problem.ops[n[1]]
    BY DEF Operations
  <1>5. \A n \in Operations : n[2] \in 1..Len(problem.ops[n[1]]) /\ Len(problem.ops[n[1]]) \in Nat
    BY <1>3, <1>4
  <1>6. \A n \in Operations : n[1] \in Nat \ {0} /\ n[2] \in Nat \ {0}
    BY <1>2, <1>4, <1>5
  <1>7. \A t \in Trains : \A i \in DOMAIN problem.ops[t] : <<t, i>> \in Operations
    BY DEF Operations
  <1>8. \A t \in Trains : First(t) \in Operations /\ Final(t) \in Operations
    BY <1>2, <1>3, <1>7 DEF First, Final
  <1> QED
    BY <1>2, <1>3, <1>4, <1>6, <1>8

\* Arcs join two nodes, and a pair of alternatives is given in one direction only.
LEMMA ArcsJoinNodes ==
    ASSUME problem \in Problems
    PROVE  /\ FixedArcs \subseteq Nodes \X Nodes
           /\ \A p \in Pairs : /\ p = <<p[1], p[2]>> /\ p[1] \in Nodes /\ p[2] \in Nodes
                               /\ p[1] # p[2] /\ Flip(p) \notin Pairs
           /\ Pairs \cup {Flip(p) : p \in Pairs} \subseteq Nodes \X Nodes
  <1>1. FixedArcs \subseteq Nodes \X Nodes
    BY ProblemTyping DEF FixedArcs, Nodes
  <1>2. ASSUME NEW p \in Pairs
        PROVE  /\ p = <<p[1], p[2]>> /\ p[1] \in Nodes /\ p[2] \in Nodes
               /\ p[1] # p[2] /\ Flip(p) \notin Pairs
    <2>1. p = <<p[1], p[2]>> /\ p[1] \in Operations /\ p[2] \in Operations /\ p[1][1] < p[2][1]
      BY DEF Pairs
    <2>2. p[1][1] \in Nat /\ p[2][1] \in Nat
      BY <2>1, ProblemTyping
    <2>3. Flip(p)[1] = p[2] /\ Flip(p)[2] = p[1]
      BY DEF Flip
    <2>4. ~(p[2][1] < p[1][1])
      BY <2>1, <2>2
    <2>5. Flip(p) \notin Pairs
      BY <2>3, <2>4 DEF Pairs
    <2> QED
      BY <2>1, <2>2, <2>5 DEF Nodes
  <1>3. \A p \in Pairs : Flip(p) \in Nodes \X Nodes
    BY <1>2 DEF Flip
  <1> QED
    BY <1>1, <1>2, <1>3

\* The routes alone have no cycle: what comes after an operation is closed.
LEMMA RoutesAcyclic ==
    ASSUME problem \in Problems
    PROVE  NoCycle(FixedArcs)
  <1>1. \A t \in Trains : /\ First(t) # Source /\ First(t) # Sink
                         /\ Final(t) # Source /\ Final(t) # Sink
    BY ProblemTyping DEF First, Final, Source, Sink
  <1>2. \A n \in Operations : n # Source /\ n # Sink /\ n[1] # 0
    BY ProblemTyping DEF Source, Sink
  <1>3. Source # Sink /\ Source[1] = 0 /\ Sink[1] = 0
    BY DEF Source, Sink
  <1> SUFFICES ASSUME NEW a \in FixedArcs PROVE ~Reaches(FixedArcs, a[2], a[1])
    BY DEF NoCycle
  <1>4. CASE \E t \in Trains : a = <<Source, First(t)>>
    <2> DEFINE S == Nodes \ {Source}
    <2>1. \A b \in FixedArcs : b[2] \in S
      BY <1>1, <1>2, <1>3, ProblemTyping DEF FixedArcs, Nodes
    <2>2. Closed(S, FixedArcs)
      BY <2>1 DEF Closed
    <2>3. a[2] \in S /\ a[1] \notin S /\ S \in SUBSET Nodes
      BY <1>4, <2>1
    <2> QED
      BY <2>2, <2>3 DEF Reaches
  <1>5. CASE \E t \in Trains : a = <<Final(t), Sink>>
    <2>1. \A b \in FixedArcs : b[1] # Sink
      BY <1>1, <1>2, <1>3 DEF FixedArcs
    <2>2. Closed({Sink}, FixedArcs)
      BY <2>1 DEF Closed
    <2>3. a[2] = Sink /\ a[1] # Sink
      BY <1>5, <2>1
    <2>4. {Sink} \in SUBSET Nodes
      BY DEF Nodes
    <2> QED
      BY <2>2, <2>3, <2>4 DEF Reaches
  <1>6. CASE a \in Operations \X Operations /\ a[1][1] = a[2][1] /\ a[2][2] = a[1][2] + 1
    <2> DEFINE t == a[1][1]
               i == a[1][2]
               S == {n \in Operations : n[1] = t /\ n[2] > i} \cup {Sink}
    <2>1. a[1] \in Operations /\ a[2] \in Operations /\ t \in Trains /\ i \in Nat /\ t # 0
      BY <1>6, ProblemTyping
    <2>2. S \in SUBSET Nodes /\ a[2] \in S
      BY <1>6, <2>1 DEF Nodes
    <2>3. a[1] \notin S
      BY <1>2, <2>1
    <2>4. ASSUME NEW b \in FixedArcs, b[1] \in S PROVE b[2] \in S
      <3>1. CASE \E u \in Trains : b = <<Source, First(u)>>
        BY <1>2, <1>3, <2>4, <3>1
      <3>2. CASE \E u \in Trains : b = <<Final(u), Sink>>
        BY <3>2
      <3>3. CASE b \in Operations \X Operations /\ b[1][1] = b[2][1] /\ b[2][2] = b[1][2] + 1
        <4>1. b[1] \in Operations /\ b[2] \in Operations /\ b[1] # Sink
          BY <1>2, <3>3
        <4>2. b[1][1] = t /\ b[1][2] > i /\ b[1][2] \in Nat
          BY <2>4, <4>1, ProblemTyping
        <4>3. b[2][1] = t /\ b[2][2] > i
          BY <2>1, <3>3, <4>2
        <4> QED
          BY <4>1, <4>3
      <3> QED
        BY <3>1, <3>2, <3>3 DEF FixedArcs
    <2>5. Closed(S, FixedArcs)
      BY <2>4 DEF Closed
    <2> HIDE DEF S
    <2> QED
      BY <2>2, <2>3, <2>5 DEF Reaches
  <1> QED
    BY <1>4, <1>5, <1>6 DEF FixedArcs

-----------------------------------------------------------------------------
\* Nothing the graph is made of changes but the arcs selected.
LEMMA SameProblem ==
    ASSUME problem' = problem
    PROVE  /\ Pairs' = Pairs /\ FixedArcs' = FixedArcs
           /\ Acyclic' <=> NoCycle(FixedArcs \cup selected')
  <1>1. Operations' = Operations /\ Trains' = Trains
    BY DEF Operations, Trains
  <1>2. Pairs' = Pairs
    BY <1>1 DEF Pairs, Resource
  <1>3. FixedArcs' = FixedArcs
    BY <1>1 DEF FixedArcs, First, Final, Source, Sink
  <1>4. Nodes' = Nodes
    BY <1>1 DEF Nodes, Source, Sink
  <1>5. Acyclic' <=> NoCycle(FixedArcs \cup selected')
    BY <1>3, <1>4 DEF Acyclic, Graph, NoCycle, Reaches, Closed
  <1> QED
    BY <1>2, <1>3, <1>5

\* A decision keeps the invariant whichever arc of an undecided pair it prefers.
LEMMA DecideInv ==
    ASSUME AltInv, NEW p \in remaining, NEW preferred \in {p, Flip(p)},
           strategy # "done", Decide(preferred)
    PROVE  AltInv'
  <1>1. p \in Pairs /\ p = <<p[1], p[2]>> /\ p[1] \in Nodes /\ p[2] \in Nodes /\ p[1] # p[2]
    BY ArcsJoinNodes DEF AltInv, TypeOK
  <1>2. Flip(Flip(p)) = p
    BY <1>1 DEF Flip
  <1>3. PICK x \in Nodes, y \in Nodes : x # y /\ preferred = <<x, y>> /\ Flip(preferred) = <<y, x>>
    BY <1>1 DEF Flip
  <1>4. problem' = problem /\ strategy' = strategy /\ solved' = solved
    BY DEF Decide
  <1>5. remaining' = remaining \ {p, Flip(p)}
    BY <1>2 DEF Decide
  <1>6. selected' = selected \cup {IF Reaches(Graph, y, x) THEN <<y, x>> ELSE <<x, y>>}
    BY <1>3 DEF Decide, Safe
  <1>7. Acyclic'
    <2>1. Graph \subseteq Nodes \X Nodes /\ NoCycle(Graph)
      BY ArcsJoinNodes DEF AltInv, TypeOK, Acyclic, Graph
    <2>2. CASE Reaches(Graph, y, x)
      <3>1. ~Reaches(Graph, x, y)
        BY <1>3, <2>1, <2>2, OneWay
      <3>2. NoCycle(Graph \cup {<<y, x>>})
        BY <2>1, <3>1, SafeArc
      <3>3. FixedArcs \cup selected' = Graph \cup {<<y, x>>}
        BY <1>6, <2>2 DEF Graph
      <3> QED
        BY <1>4, <3>2, <3>3, SameProblem
    <2>3. CASE ~Reaches(Graph, y, x)
      <3>1. NoCycle(Graph \cup {<<x, y>>})
        BY <2>1, <2>3, SafeArc
      <3>2. FixedArcs \cup selected' = Graph \cup {<<x, y>>}
        BY <1>6, <2>3 DEF Graph
      <3> QED
        BY <1>4, <3>1, <3>2, SameProblem
    <2> QED
      BY <2>2, <2>3
  <1>8. TypeOK'
    <2>1. PICK kept \in {p, Flip(p)} : selected' = selected \cup {kept}
      BY <1>2, <1>3, <1>6
    <2>2. /\ strategy' \in {"amcc", "priority", "done"} /\ strategy' # "done"
          /\ remaining' \subseteq Pairs
          /\ DOMAIN solved' \subseteq {"amcc", "priority"}
          /\ selected' \subseteq Pairs \cup {Flip(q) : q \in Pairs}
      BY <1>1, <1>4, <1>5, <2>1 DEF AltInv, TypeOK
    <2>3. ASSUME NEW q \in Pairs
          PROVE  IF q \in remaining' THEN q \notin selected' /\ Flip(q) \notin selected'
                                     ELSE q \in selected' <=> Flip(q) \notin selected'
      <3>1. /\ Flip(q) \notin Pairs /\ Flip(p) \notin Pairs /\ Flip(Flip(q)) = q /\ Flip(q) # q
            /\ p # Flip(p)
        BY <1>1, ArcsJoinNodes DEF AltInv, Flip
      <3>2. IF q \in remaining THEN q \notin selected /\ Flip(q) \notin selected
                               ELSE q \in selected <=> Flip(q) \notin selected
        BY DEF AltInv, TypeOK
      <3>3. CASE q = p
        <4>1. q \notin remaining' /\ q \notin selected /\ Flip(q) \notin selected
          BY <1>5, <3>2, <3>3
        <4> QED
          BY <2>1, <3>1, <3>3, <4>1
      <3>4. CASE q # p
        <4>1. Flip(q) # Flip(p)
          BY <1>2, <3>1, <3>4
        <4>2. q # Flip(p) /\ Flip(q) # p
          BY <1>1, <3>1
        <4>3. q \in remaining' <=> q \in remaining
          BY <1>5, <3>4, <4>2
        <4>4. /\ q \in selected' <=> q \in selected
              /\ Flip(q) \in selected' <=> Flip(q) \in selected
          BY <2>1, <3>4, <4>1, <4>2
        <4> QED
          BY <3>2, <4>3, <4>4
      <3> QED
        BY <3>3, <3>4
    <2>4. Pairs' = Pairs
      BY <1>4, SameProblem
    <2> QED
      BY <2>2, <2>3, <2>4 DEF TypeOK, Flip
  <1> QED
    BY <1>4, <1>7, <1>8 DEF AltInv

\* Typing and acyclicity hold whatever the solvers choose: _reachable is asked
\* about one arc of each pair, and that is enough.
THEOREM AltInvariant == Spec => []AltInv
  <1>1. Init => AltInv
    <2> SUFFICES ASSUME Init PROVE AltInv
      OBVIOUS
    <2>1. NoCycle(FixedArcs) /\ Graph = FixedArcs
      BY RoutesAcyclic DEF Init, Graph
    <2> QED
      BY <2>1 DEF Init, AltInv, TypeOK, Acyclic
  <1>2. ASSUME AltInv, [Next]_vars PROVE AltInv'
    <2>1. CASE AvoidMostCritical
      <3>1. PICK critical \in Undecided : Decide(Flip(critical)) /\ strategy = "amcc"
        BY <2>1 DEF AvoidMostCritical, MostCritical
      <3>2. PICK p \in remaining : critical = p \/ critical = Flip(p)
        BY DEF Undecided
      <3>3. Flip(Flip(p)) = p
        BY <1>2, ArcsJoinNodes DEF AltInv, TypeOK, Flip
      <3> QED
        BY <1>2, <3>1, <3>2, <3>3, DecideInv
    <2>2. CASE FollowPriority
      <3>1. PICK p \in remaining : Decide(ByPriority(p)) /\ strategy = "priority"
        BY <2>2 DEF FollowPriority
      <3>2. ByPriority(p) \in {p, Flip(p)}
        BY DEF ByPriority
      <3> QED
        BY <1>2, <3>1, <3>2, DecideInv
    <2>3. CASE Finalize
      <3>1. problem' = problem /\ selected' = {} /\ strategy \in {"amcc", "priority"}
        BY <1>2, <2>3 DEF Finalize, AltInv, TypeOK
      <3>2. Acyclic'
        BY <1>2, <3>1, SameProblem, RoutesAcyclic DEF AltInv
      <3>3. /\ Pairs' = Pairs
            /\ strategy' \in {"amcc", "priority", "done"}
            /\ strategy' # "done" => remaining' = Pairs
            /\ remaining' \subseteq Pairs
        BY <2>3, <3>1, SameProblem DEF Finalize
      <3>4. DOMAIN solved' \subseteq {"amcc", "priority"}
        BY <1>2, <2>3, <3>1 DEF Finalize, AltInv, TypeOK
      <3>5. TypeOK'
        BY <3>1, <3>3, <3>4 DEF TypeOK
      <3> QED
        BY <1>2, <3>1, <3>2, <3>5 DEF AltInv
    <2>4. CASE UNCHANGED vars
      <3>1. problem' = problem /\ strategy' = strategy /\ remaining' = remaining
            /\ selected' = selected /\ solved' = solved
        BY <2>4 DEF vars
      <3>2. Acyclic' /\ Pairs' = Pairs
        BY <1>2, <3>1, SameProblem DEF AltInv, Acyclic, Graph
      <3>3. TypeOK'
        BY <1>2, <3>1, <3>2 DEF AltInv, TypeOK, Flip
      <3> QED
        BY <1>2, <3>1, <3>2, <3>3 DEF AltInv
    <2> QED
      BY <1>2, <2>1, <2>2, <2>3, <2>4 DEF Next, Finished
  <1> QED
    BY <1>1, <1>2, PTL DEF Spec

\* Both solvers decide every pair exactly once, for every problem.
THEOREM AltTypeOK == Spec => []TypeOK
  <1>1. AltInv => TypeOK
    BY DEF AltInv
  <1> QED
    BY <1>1, AltInvariant, PTL

\* No choice of either solver ever closes a cycle, for any number of trains,
\* routes that return to a resource, running times of zero and any priorities:
\* the check of one arc of a pair is enough, the other is then never checked.
THEOREM SelectionAcyclic == Spec => []Acyclic
  <1>1. AltInv => Acyclic
    BY DEF AltInv
  <1> QED
    BY <1>1, AltInvariant, PTL

-----------------------------------------------------------------------------
(* Longest paths.  f[n] is found from f at the other ends of the arcs that  *)
(* count for n; on a graph without cycles such an f exists.                 *)

Longest(f, end, w, arcs) == Max({0} \cup {f[end[a]] + w[a] : a \in arcs})

\* The ways are finitely many numbers.
LEMMA WaysAreFinite ==
    ASSUME NEW arcs, IsFiniteSet(arcs), NEW f, NEW end, NEW w,
           \A a \in arcs : f[end[a]] \in Nat /\ w[a] \in Nat
    PROVE  LET S == {0} \cup {f[end[a]] + w[a] : a \in arcs}
           IN S \subseteq Nat /\ S \subseteq Int /\ S # {} /\ IsFiniteSet(S)
  <1> DEFINE V == {f[end[a]] + w[a] : a \in arcs}
             len == [a \in arcs |-> f[end[a]] + w[a]]
             S == {0} \cup V
  <1>1. IsFiniteSet(V)
    <2>1. len \in Surjection(arcs, V)
      BY DEF Surjection
    <2> HIDE DEF len, V
    <2> QED
      BY <2>1, FS_Surjection
  <1>2. S \subseteq Nat /\ S # {} /\ S \subseteq Int
    OBVIOUS
  <1>3. IsFiniteSet(S)
    <2>1. S = V \cup {0}
      OBVIOUS
    <2> HIDE DEF V, S
    <2> QED
      BY <1>1, <2>1, FS_AddElement
  <1> QED
    BY <1>2, <1>3

\* The longest way is a number, and no shorter than any way,
LEMMA LongestIsGreatest ==
    ASSUME NEW arcs, IsFiniteSet(arcs), NEW f, NEW end, NEW w,
           \A a \in arcs : f[end[a]] \in Nat /\ w[a] \in Nat
    PROVE  /\ Longest(f, end, w, arcs) \in Nat
           /\ \A a \in arcs : Longest(f, end, w, arcs) >= f[end[a]] + w[a]
  <1> DEFINE S == {0} \cup {f[end[a]] + w[a] : a \in arcs}
  <1>1. S \subseteq Nat /\ S \subseteq Int /\ S # {} /\ IsFiniteSet(S)
    BY WaysAreFinite
  <1>2. Max(S) \in S /\ \A y \in S : Max(S) >= y
    <2> HIDE DEF S
    <2> QED
      BY <1>1, GreatestNumber DEF Max
  <1> QED
    BY <1>1, <1>2 DEF Longest

\* and it is one of the ways if there are any.
LEMMA LongestIsAttained ==
    ASSUME NEW arcs, IsFiniteSet(arcs), NEW f, NEW end, NEW w,
           \A a \in arcs : f[end[a]] \in Nat /\ w[a] \in Nat
    PROVE  \/ Longest(f, end, w, arcs) = 0
           \/ \E a \in arcs : Longest(f, end, w, arcs) = f[end[a]] + w[a]
  <1> DEFINE S == {0} \cup {f[end[a]] + w[a] : a \in arcs}
  <1>1. Max(S) \in S
    <2>1. S \subseteq Nat /\ S \subseteq Int /\ S # {} /\ IsFiniteSet(S)
      BY WaysAreFinite
    <2>2. \E x \in S : \A y \in S : x >= y
      <3> HIDE DEF S
      <3> QED
        BY <2>1, GreatestNumber
    <2> HIDE DEF S
    <2> QED
      BY <2>2 DEF Max
  <1> QED
    BY <1>1 DEF Longest

\* f has the longest way for every node.
AllLongest(f, N, end, w, P) == f = [n \in N |-> Longest(f, end, w, P[n])]

\* Only the values at the other ends matter.
LEMMA LongestOfTheSame ==
    ASSUME NEW arcs, NEW f, NEW g, NEW end, NEW w, \A a \in arcs : f[end[a]] = g[end[a]]
    PROVE  Longest(f, end, w, arcs) = Longest(g, end, w, arcs)
  <1>1. {f[end[a]] + w[a] : a \in arcs} = {g[end[a]] + w[a] : a \in arcs}
    OBVIOUS
  <1> QED
    BY <1>1 DEF Longest

\* f is right on D, which no arc that counts leaves.
RightOn(D, f, end, w, P) ==
    \A n \in D : (\A a \in P[n] : end[a] \in D) /\ f[n] = Longest(f, end, w, P[n])

\* The sets of nodes for which there is such an f.
Solvable(N, end, w, P) ==
    {D \in SUBSET N : \E f \in [D -> Nat] : RightOn(D, f, end, w, P)}

\* If every set of nodes has one that depends on none of them, lengths exist.
LEMMA LongestExist ==
    ASSUME NEW N, IsFiniteSet(N), NEW A, IsFiniteSet(A),
           NEW P \in [N -> SUBSET A], NEW end \in [A -> N], NEW w \in [A -> Nat],
           \A T \in SUBSET N : T # {} => \E n \in T : \A a \in P[n] : end[a] \notin T
    PROVE  \E f \in [N -> Nat] : AllLongest(f, N, end, w, P)
  <1> DEFINE F == Solvable(N, end, w, P)
             sizes == {Cardinality(D) : D \in F}
  <1>1. \A D \in SUBSET N : IsFiniteSet(D) /\ Cardinality(D) \in Nat
                            /\ Cardinality(D) <= Cardinality(N)
    BY FS_Subset, FS_CardinalityType
  <1>2. /\ F \subseteq SUBSET N
        /\ \A D \in SUBSET N : D \in F <=> \E f \in [D -> Nat] : RightOn(D, f, end, w, P)
    BY DEF Solvable
  <1>3. {} \in F
    <2>1. [n \in {} |-> 0] \in [{} -> Nat] /\ RightOn({}, [n \in {} |-> 0], end, w, P)
      BY DEF RightOn
    <2> QED
      BY <1>2, <2>1
  <1> HIDE DEF F
  <1>4. PICK D \in F : \A E \in F : Cardinality(E) <= Cardinality(D)
    <2>1. PICK n \in Nat : n = Cardinality(N)
      BY <1>1
    <2>2. sizes \in SUBSET Nat /\ sizes # {} /\ \A k \in sizes : k <= n
      BY <1>1, <1>2, <1>3, <2>1
    <2>3. IsFiniteSet(sizes) /\ sizes \subseteq Int
      <3> HIDE DEF sizes
      <3> QED
        BY <2>2, FS_BoundedSetOfNaturals
    <2>4. PICK k \in sizes : \A j \in sizes : k >= j
      <3> HIDE DEF sizes
      <3> QED
        BY <2>2, <2>3, GreatestNumber
    <2>5. PICK D \in F : k = Cardinality(D)
      OBVIOUS
    <2>6. \A E \in F : Cardinality(D) >= Cardinality(E)
      BY <2>4, <2>5
    <2>7. \A E \in F : Cardinality(E) \in Nat
      BY <1>1, <1>2
    <2> QED
      BY <2>5, <2>6, <2>7
  <1>5. PICK f \in [D -> Nat] : RightOn(D, f, end, w, P)
    BY <1>2
  <1>6. D = N
    <2> SUFFICES ASSUME N \ D # {} PROVE FALSE
      BY <1>2
    <2>1. PICK n \in N \ D : \A a \in P[n] : end[a] \in D
      <3>1. PICK n \in N \ D : \A a \in P[n] : end[a] \notin N \ D
        OBVIOUS
      <3>2. \A a \in P[n] : end[a] \in N
        BY <3>1
      <3> QED
        BY <3>1, <3>2
    <2> DEFINE E == D \cup {n}
               top == Longest(f, end, w, P[n])
               g == [m \in E |-> IF m = n THEN top ELSE f[m]]
    <2>2. top \in Nat
      <3>1. IsFiniteSet(P[n]) /\ P[n] \subseteq A
        BY FS_Subset
      <3>2. \A a \in P[n] : f[end[a]] \in Nat /\ w[a] \in Nat
        BY <2>1, <3>1
      <3> QED
        BY <3>1, <3>2, LongestIsGreatest
    <2> HIDE DEF top
    <2>3. g \in [E -> Nat] /\ g[n] = top /\ \A m \in D : g[m] = f[m]
      BY <2>1, <2>2
    <2> HIDE DEF g
    <2>4. RightOn(E, g, end, w, P)
      <3>1. ASSUME NEW m \in D
            PROVE  (\A a \in P[m] : end[a] \in E) /\ g[m] = Longest(g, end, w, P[m])
        <4>1. (\A a \in P[m] : end[a] \in D) /\ f[m] = Longest(f, end, w, P[m])
          BY <1>5 DEF RightOn
        <4>2. \A a \in P[m] : f[end[a]] = g[end[a]]
          BY <2>3, <4>1
        <4>3. Longest(f, end, w, P[m]) = Longest(g, end, w, P[m])
          BY <4>2, LongestOfTheSame
        <4> QED
          BY <2>3, <4>1, <4>3
      <3>2. g[n] = Longest(g, end, w, P[n])
        <4>1. \A a \in P[n] : f[end[a]] = g[end[a]]
          BY <2>1, <2>3
        <4>2. Longest(f, end, w, P[n]) = Longest(g, end, w, P[n])
          BY <4>1, LongestOfTheSame
        <4> QED
          BY <2>3, <4>2 DEF top
      <3> QED
        BY <2>1, <3>1, <3>2 DEF RightOn
    <2>5. E \in F
      BY <1>2, <2>1, <2>3, <2>4
    <2>6. Cardinality(E) = Cardinality(D) + 1
      BY <1>1, <1>2, <2>1, FS_AddElement
    <2> QED
      BY <1>1, <1>2, <1>4, <2>5, <2>6
  <1>7. f \in [N -> Nat] /\ \A n \in N : f[n] = Longest(f, end, w, P[n])
    BY <1>5, <1>6 DEF RightOn
  <1>8. f = [n \in N |-> Longest(f, end, w, P[n])]
    BY <1>7
  <1> QED
    BY <1>7, <1>8 DEF AllLongest

\* Whatever satisfies the equation has numbers for values that are no less
\* than any way.
LEMMA LongestAreNumbers ==
    ASSUME NEW N, NEW A, IsFiniteSet(A),
           NEW P \in [N -> SUBSET A], NEW end \in [A -> N], NEW w \in [A -> Nat],
           \A T \in SUBSET N : T # {} => \E n \in T : \A a \in P[n] : end[a] \notin T,
           NEW f, AllLongest(f, N, end, w, P)
    PROVE  f \in [N -> Nat] /\ \A n \in N : \A a \in P[n] : f[n] >= f[end[a]] + w[a]
  <1>1. \A n \in N : f[n] = Longest(f, end, w, P[n])
    <2>1. ASSUME NEW n \in N, NEW g, g = [m \in N |-> Longest(f, end, w, P[m])]
          PROVE  g[n] = Longest(f, end, w, P[n])
      BY <2>1
    <2> QED
      BY <2>1 DEF AllLongest
  <1>2. \A n \in N : IsFiniteSet(P[n]) /\ P[n] \subseteq A
    BY FS_Subset
  <1>3. \A n \in N : f[n] \in Nat
    <2> DEFINE T == {n \in N : f[n] \notin Nat}
    <2> SUFFICES ASSUME T # {} PROVE FALSE
      OBVIOUS
    <2>1. PICK n \in T : \A a \in P[n] : end[a] \notin T
      OBVIOUS
    <2>2. \A a \in P[n] : f[end[a]] \in Nat /\ w[a] \in Nat
      BY <1>2, <2>1
    <2>3. Longest(f, end, w, P[n]) \in Nat
      BY <1>2, <2>1, <2>2, LongestIsGreatest
    <2> QED
      BY <1>1, <2>1, <2>3
  <1>4. ASSUME NEW n \in N PROVE \A a \in P[n] : f[n] >= f[end[a]] + w[a]
    <2>1. \A a \in P[n] : f[end[a]] \in Nat /\ w[a] \in Nat
      BY <1>2, <1>3
    <2>2. \A a \in P[n] : Longest(f, end, w, P[n]) >= f[end[a]] + w[a]
      BY <1>2, <2>1, LongestIsGreatest
    <2> QED
      BY <1>1, <2>2
  <1>5. f \in [N -> Nat]
    <2>1. ASSUME NEW g, g = [n \in N |-> Longest(f, end, w, P[n])],
                 \A n \in N : g[n] \in Nat
          PROVE  g \in [N -> Nat]
      <3> DEFINE h == [n \in N |-> Longest(f, end, w, P[n])]
      <3>1. h = [n \in N |-> h[n]]
        OBVIOUS
      <3> HIDE DEF h
      <3> QED
        BY <2>1, <3>1 DEF h
    <2> QED
      BY <1>3, <2>1 DEF AllLongest
  <1> QED
    BY <1>4, <1>5

-----------------------------------------------------------------------------
(* A graph without cycles has a first and a last node in every set.         *)

\* Finitely many steps back, or onward, are possible.
LEMMA LeastCounted ==
    ASSUME NEW T, T # {}, NEW c \in [T -> Nat]
    PROVE  \E n \in T : \A m \in T : c[n] <= c[m]
  <1> DEFINE V == {c[n] : n \in T}
  <1>1. V \subseteq Nat /\ V # {}
    OBVIOUS
  <1>2. PICK x \in V : \A y \in V : x <= y
    <2> HIDE DEF V
    <2> QED
      BY <1>1, LeastNumber
  <1>3. PICK n \in T : x = c[n]
    OBVIOUS
  <1> QED
    BY <1>2, <1>3

\* In a finite graph without cycles every set of nodes has one without predecessor in it,
LEMMA HasFirst ==
    ASSUME NEW arcs, arcs \subseteq Nodes \X Nodes, IsFiniteSet(Nodes), NoCycle(arcs),
           NEW T \in SUBSET Nodes, T # {}
    PROVE  \E n \in T : \A a \in arcs : a[2] = n => a[1] \notin T
  <1> DEFINE before == [n \in T |-> {m \in T : Reaches(arcs, m, n)}]
             c == [n \in T |-> Cardinality(before[n])]
  <1>1. \A n \in T : /\ IsFiniteSet(before[n]) /\ Cardinality(before[n]) \in Nat
                     /\ \A m \in T : m \in before[n] <=> Reaches(arcs, m, n)
    <2>1. \A n \in T : before[n] = {m \in T : Reaches(arcs, m, n)}
      OBVIOUS
    <2>2. \A n \in T : before[n] \in SUBSET Nodes
      BY <2>1
    <2>3. \A n \in T : IsFiniteSet(before[n])
      <3> HIDE DEF before
      <3> QED
        BY <2>2, FS_Subset
    <2>4. \A n \in T : Cardinality(before[n]) \in Nat
      <3> HIDE DEF before
      <3> QED
        BY <2>3, FS_CardinalityType
    <2> QED
      BY <2>1, <2>3, <2>4
  <1> HIDE DEF before
  <1>2. PICK n \in T : \A m \in T : c[n] <= c[m]
    <2>1. c \in [T -> Nat]
      BY <1>1
    <2> HIDE DEF c
    <2> QED
      BY <2>1, LeastCounted
  <1>3. ASSUME NEW a \in arcs, a[2] = n, a[1] \in T PROVE FALSE
    <2>1. n \in before[n] /\ n \notin before[a[1]]
      BY <1>1, <1>3, ReachesItself DEF NoCycle
    <2>2. \A m \in before[a[1]] : m \in before[n]
      <3>1. \A m \in T : Reaches(arcs, m, a[1]) => Reaches(arcs, m, a[2])
        BY ReachesOver
      <3>2. \A m \in before[a[1]] : m \in T
        BY <1>3 DEF before
      <3> QED
        BY <1>1, <1>3, <3>1, <3>2
    <2>3. before[a[1]] \in SUBSET before[n] /\ before[a[1]] # before[n]
      BY <2>1, <2>2
    <2>4. Cardinality(before[a[1]]) < Cardinality(before[n])
      <3>1. /\ Cardinality(before[a[1]]) <= Cardinality(before[n])
            /\ Cardinality(before[a[1]]) # Cardinality(before[n])
        BY <1>1, <2>3, FS_Subset
      <3> QED
        BY <1>1, <1>3, <3>1
    <2>5. Cardinality(before[n]) <= Cardinality(before[a[1]])
      BY <1>2, <1>3
    <2> QED
      BY <1>1, <1>3, <2>4, <2>5
  <1> QED
    BY <1>3

\* and one without successor.
LEMMA HasLast ==
    ASSUME NEW arcs, arcs \subseteq Nodes \X Nodes, IsFiniteSet(Nodes), NoCycle(arcs),
           NEW T \in SUBSET Nodes, T # {}
    PROVE  \E n \in T : \A a \in arcs : a[1] = n => a[2] \notin T
  <1> DEFINE after == [n \in T |-> {m \in T : Reaches(arcs, n, m)}]
             c == [n \in T |-> Cardinality(after[n])]
  <1>1. \A n \in T : /\ IsFiniteSet(after[n]) /\ Cardinality(after[n]) \in Nat
                     /\ \A m \in T : m \in after[n] <=> Reaches(arcs, n, m)
    <2>1. \A n \in T : after[n] = {m \in T : Reaches(arcs, n, m)}
      OBVIOUS
    <2>2. \A n \in T : after[n] \in SUBSET Nodes
      BY <2>1
    <2>3. \A n \in T : IsFiniteSet(after[n])
      <3> HIDE DEF after
      <3> QED
        BY <2>2, FS_Subset
    <2>4. \A n \in T : Cardinality(after[n]) \in Nat
      <3> HIDE DEF after
      <3> QED
        BY <2>3, FS_CardinalityType
    <2> QED
      BY <2>1, <2>3, <2>4
  <1> HIDE DEF after
  <1>2. PICK n \in T : \A m \in T : c[n] <= c[m]
    <2>1. c \in [T -> Nat]
      BY <1>1
    <2> HIDE DEF c
    <2> QED
      BY <2>1, LeastCounted
  <1>3. ASSUME NEW a \in arcs, a[1] = n, a[2] \in T PROVE FALSE
    <2>1. n \in after[n] /\ n \notin after[a[2]]
      BY <1>1, <1>3, ReachesItself DEF NoCycle
    <2>2. \A m \in after[a[2]] : m \in after[n]
      <3>1. \A m \in T : Reaches(arcs, a[2], m) => Reaches(arcs, a[1], m)
        <4>1. Reaches(arcs, a[1], a[2])
          BY ReachesItself, ReachesOver
        <4> QED
          BY <4>1, ReachesOnward
      <3>2. \A m \in after[a[2]] : m \in T
        BY <1>3 DEF after
      <3> QED
        BY <1>1, <1>3, <3>1, <3>2
    <2>3. after[a[2]] \in SUBSET after[n] /\ after[a[2]] # after[n]
      BY <2>1, <2>2
    <2>4. Cardinality(after[a[2]]) < Cardinality(after[n])
      <3>1. /\ Cardinality(after[a[2]]) <= Cardinality(after[n])
            /\ Cardinality(after[a[2]]) # Cardinality(after[n])
        BY <1>1, <2>3, FS_Subset
      <3> QED
        BY <1>1, <1>3, <3>1
    <2>5. Cardinality(after[n]) <= Cardinality(after[a[2]])
      BY <1>2, <1>3
    <2> QED
      BY <1>1, <1>3, <2>4, <2>5
  <1> QED
    BY <1>3

-----------------------------------------------------------------------------
Alternatives == Pairs \cup {Flip(p) : p \in Pairs}

\* The graph is finite, and every arc but those from the source takes at
\* least the time of the operation it leaves.
LEMMA FiniteGraph ==
    ASSUME problem \in Problems
    PROVE  IsFiniteSet(Nodes)
  <1>1. IsFiniteSet(Trains) /\ \A t \in Trains : IsFiniteSet(DOMAIN problem.ops[t])
    <2>1. problem.ops \in Seq(Seq(Operation) \ {<<>>})
      BY ProblemsAssumption DEF ProblemsAssumption
    <2>2. Trains = 1..Len(problem.ops) /\ Len(problem.ops) \in Nat
      BY <2>1, LenProperties DEF Trains
    <2>3. \A t \in Trains : DOMAIN problem.ops[t] = 1..Len(problem.ops[t])
                            /\ Len(problem.ops[t]) \in Nat
      BY ProblemTyping
    <2>4. \A n \in Nat : IsFiniteSet(1..n)
      BY FS_Interval
    <2> QED
      BY <2>2, <2>3, <2>4
  <1> DEFINE of == [t \in Trains |-> {t} \X DOMAIN problem.ops[t]]
             S == {{t} \X DOMAIN problem.ops[t] : t \in Trains}
  <1>2. of \in Surjection(Trains, S)
    BY DEF Surjection
  <1>3. IsFiniteSet(S)
    <2> HIDE DEF of, S
    <2> QED
      BY <1>1, <1>2, FS_Surjection
  <1>4. \A T \in S : IsFiniteSet(T)
    <2>1. \A t \in Trains : IsFiniteSet({t} \X DOMAIN problem.ops[t])
      BY <1>1, FS_Singleton, FS_Product
    <2> QED
      BY <2>1
  <1>5. IsFiniteSet(Operations)
    <2>1. Operations = UNION S
      BY DEF Operations
    <2> HIDE DEF S
    <2> QED
      BY <1>3, <1>4, <2>1, FS_UNION
  <1>6. Nodes = (Operations \cup {Source}) \cup {Sink}
    BY DEF Nodes
  <1> QED
    BY <1>5, <1>6, FS_AddElement

\* The weights of arcs: a release, or a running time with the headway between trains.
LEMMA Weights ==
    ASSUME problem \in Problems
    PROVE  /\ problem.headway \in Nat
           /\ \A n \in Operations : Proc(n) \in Nat
           /\ \A a \in FixedArcs \cup Alternatives : Weight(a) \in Nat
           /\ \A t \in Trains : Weight(<<Source, First(t)>>) = problem.release[t]
           /\ \A n, m \in Operations : n[1] = m[1] => Weight(<<n, m>>) = Proc(n)
           /\ \A n, m \in Operations : n[1] # m[1] => Weight(<<n, m>>) = Proc(n) + problem.headway
           /\ \A n \in Operations : Weight(<<n, Sink>>) = Proc(n)
  <1>1. problem.headway \in Nat /\ \A t \in Trains : problem.release[t] \in Nat
    BY ProblemsAssumption DEF ProblemsAssumption, Trains
  <1>2. ASSUME NEW n \in Operations PROVE Proc(n) \in Nat
    <2>1. problem.ops \in Seq(Seq(Operation) \ {<<>>})
      BY ProblemsAssumption DEF ProblemsAssumption
    <2>2. n[1] \in Trains /\ n[2] \in DOMAIN problem.ops[n[1]]
      BY DEF Operations
    <2>3. problem.ops[n[1]] \in Seq(Operation)
      BY <2>1, <2>2, LenProperties, ElementOfSeq DEF Trains
    <2>4. problem.ops[n[1]][n[2]] \in Operation
      BY <2>2, <2>3, LenProperties, ElementOfSeq
    <2> QED
      BY <2>4 DEF Proc, Operation
  <1>3. \A n \in Operations : n # Source /\ n # Sink /\ n[1] # 0
    BY ProblemTyping DEF Source, Sink
  <1>4. Source # Sink /\ Sink[1] = 0
    BY DEF Source, Sink
  <1>5. ASSUME NEW t \in Trains PROVE Weight(<<Source, First(t)>>) = problem.release[t]
    BY DEF Weight, First
  <1>6. \A n, m \in Operations : n[1] = m[1] => Weight(<<n, m>>) = Proc(n)
    BY <1>3 DEF Weight
  <1>7. \A n, m \in Operations : n[1] # m[1] => Weight(<<n, m>>) = Proc(n) + problem.headway
    BY <1>3 DEF Weight
  <1>8. \A n \in Operations : Weight(<<n, Sink>>) = Proc(n)
    BY <1>3, <1>4 DEF Weight
  <1>9. ASSUME NEW a \in FixedArcs \cup Alternatives PROVE Weight(a) \in Nat
    <2>1. CASE \E t \in Trains : a = <<Source, First(t)>>
      BY <1>1, <1>5, <2>1
    <2>2. CASE \E t \in Trains : a = <<Final(t), Sink>>
      BY <1>2, <1>8, <2>2, ProblemTyping
    <2>3. CASE a \in Operations \X Operations
      <3>1. PICK n \in Operations, m \in Operations : a = <<n, m>>
        BY <2>3
      <3>2. Proc(n) \in Nat /\ Proc(n) + problem.headway \in Nat
        BY <1>1, <1>2
      <3> QED
        BY <1>6, <1>7, <3>1, <3>2
    <2>4. CASE a \in Alternatives
      <3>1. a \in Operations \X Operations
        BY <2>4 DEF Alternatives, Pairs, Flip
      <3> QED
        BY <2>3, <3>1
    <2> QED
      BY <2>1, <2>2, <2>3, <2>4 DEF FixedArcs
  <1> QED
    BY <1>1, <1>2, <1>5, <1>6, <1>7, <1>8, <1>9

\* r has the longest path from anywhere to every node.
LongestPaths(arcs, w, r) ==
    r = [n \in Nodes |-> Max({0} \cup {r[a[1]] + w[a] : a \in {b \in arcs : b[2] = n}})]

\* The arcs into each node and their beginnings, as the lemmas on longest ways
\* take them.
Incoming(arcs, w, P, end) ==
    /\ IsFiniteSet(Nodes) /\ IsFiniteSet(arcs)
    /\ P \in [Nodes -> SUBSET arcs] /\ end \in [arcs -> Nodes]
    /\ \A n \in Nodes : P[n] = {b \in arcs : b[2] = n}
    /\ \A a \in arcs : end[a] = a[1] /\ a[2] \in Nodes
    /\ \A T \in SUBSET Nodes : T # {} => \E n \in T : \A a \in P[n] : end[a] \notin T
    /\ \A r : AllLongest(r, Nodes, end, w, P) <=> LongestPaths(arcs, w, r)

\* Every finite graph without cycles has them.
LEMMA ArcsInto ==
    ASSUME problem \in Problems, NEW arcs, arcs \subseteq Nodes \X Nodes, NoCycle(arcs),
           NEW w \in [arcs -> Nat]
    PROVE  \E P, end : Incoming(arcs, w, P, end)
  <1>1. IsFiniteSet(Nodes) /\ IsFiniteSet(arcs)
    <2>1. IsFiniteSet(Nodes \X Nodes)
      BY FiniteGraph, FS_Product
    <2> QED
      BY <2>1, FiniteGraph, FS_Subset
  <1>2. PICK P, end : /\ P = [n \in Nodes |-> {b \in arcs : b[2] = n}]
                      /\ end = [a \in arcs |-> a[1]]
    OBVIOUS
  <1>3. /\ P \in [Nodes -> SUBSET arcs] /\ end \in [arcs -> Nodes]
        /\ \A n \in Nodes : P[n] = {b \in arcs : b[2] = n}
        /\ \A a \in arcs : end[a] = a[1] /\ a[2] \in Nodes
    BY <1>2
  <1>4. \A T \in SUBSET Nodes : T # {} => \E n \in T : \A a \in P[n] : end[a] \notin T
    <2> SUFFICES ASSUME NEW T \in SUBSET Nodes, T # {}
                 PROVE  \E n \in T : \A a \in P[n] : end[a] \notin T
      OBVIOUS
    <2>1. PICK n \in T : \A a \in arcs : a[2] = n => a[1] \notin T
      BY <1>1, HasFirst
    <2>2. \A a \in P[n] : end[a] \notin T
      BY <1>3, <2>1
    <2> QED
      BY <2>2
  <1>5. ASSUME NEW r PROVE AllLongest(r, Nodes, end, w, P) <=> LongestPaths(arcs, w, r)
    <2>1. ASSUME NEW n \in Nodes
          PROVE  Longest(r, end, w, P[n])
                   = Max({0} \cup {r[a[1]] + w[a] : a \in {b \in arcs : b[2] = n}})
      <3>1. {r[end[a]] + w[a] : a \in P[n]} = {r[a[1]] + w[a] : a \in {b \in arcs : b[2] = n}}
        BY <1>3
      <3> QED
        BY <3>1 DEF Longest
    <2>2. [n \in Nodes |-> Longest(r, end, w, P[n])]
            = [n \in Nodes |-> Max({0} \cup {r[a[1]] + w[a] : a \in {b \in arcs : b[2] = n}})]
      BY <2>1
    <2> QED
      BY <2>2 DEF AllLongest, LongestPaths
  <1> QED
    BY <1>1, <1>3, <1>4, <1>5 DEF Incoming

\* On a graph without cycles there are longest paths.
LEMMA PathsExist ==
    ASSUME problem \in Problems, NEW arcs, arcs \subseteq Nodes \X Nodes, NoCycle(arcs),
           NEW w \in [arcs -> Nat]
    PROVE  \E r : LongestPaths(arcs, w, r)
  <1>1. PICK P, end : Incoming(arcs, w, P, end)
    BY ArcsInto
  <1>2. /\ IsFiniteSet(Nodes) /\ IsFiniteSet(arcs)
        /\ P \in [Nodes -> SUBSET arcs] /\ end \in [arcs -> Nodes]
        /\ \A T \in SUBSET Nodes : T # {} => \E n \in T : \A a \in P[n] : end[a] \notin T
        /\ \A r : AllLongest(r, Nodes, end, w, P) <=> LongestPaths(arcs, w, r)
    BY <1>1 DEF Incoming
  <1>3. \E r \in [Nodes -> Nat] : AllLongest(r, Nodes, end, w, P)
    BY <1>2, LongestExist
  <1> QED
    BY <1>2, <1>3

\* They are numbers that keep every arc, and each is made of an arc, or of none.
LEMMA PathsAreLongest ==
    ASSUME problem \in Problems, NEW arcs, arcs \subseteq Nodes \X Nodes, NoCycle(arcs),
           NEW w \in [arcs -> Nat], NEW r, LongestPaths(arcs, w, r)
    PROVE  /\ r \in [Nodes -> Nat]
           /\ \A a \in arcs : r[a[2]] >= r[a[1]] + w[a]
           /\ \A n \in Nodes : r[n] = 0 \/ \E a \in arcs : a[2] = n /\ r[n] = r[a[1]] + w[a]
  <1>0. PICK P, end : Incoming(arcs, w, P, end)
    BY ArcsInto
  <1>1. /\ IsFiniteSet(Nodes) /\ IsFiniteSet(arcs)
        /\ P \in [Nodes -> SUBSET arcs] /\ end \in [arcs -> Nodes]
        /\ \A n \in Nodes : P[n] = {b \in arcs : b[2] = n}
        /\ \A a \in arcs : end[a] = a[1] /\ a[2] \in Nodes
        /\ \A T \in SUBSET Nodes : T # {} => \E n \in T : \A a \in P[n] : end[a] \notin T
    BY <1>0 DEF Incoming
  <1>2. AllLongest(r, Nodes, end, w, P)
    BY <1>0 DEF Incoming
  <1>3. r \in [Nodes -> Nat] /\ \A n \in Nodes : \A a \in P[n] : r[n] >= r[end[a]] + w[a]
    BY <1>1, <1>2, LongestAreNumbers
  <1>4. \A a \in arcs : r[a[2]] >= r[a[1]] + w[a]
    BY <1>1, <1>3
  <1>5. ASSUME NEW n \in Nodes
        PROVE  r[n] = 0 \/ \E a \in arcs : a[2] = n /\ r[n] = r[a[1]] + w[a]
    <2>1. r[n] = Longest(r, end, w, P[n])
      <3>1. ASSUME NEW g, g = [m \in Nodes |-> Longest(r, end, w, P[m])]
            PROVE  g[n] = Longest(r, end, w, P[n])
        BY <3>1
      <3> QED
        BY <1>2, <3>1 DEF AllLongest
    <2>2. P[n] \subseteq arcs /\ IsFiniteSet(P[n])
      BY <1>1, FS_Subset
    <2>3. \A a \in P[n] : r[end[a]] \in Nat /\ w[a] \in Nat
      BY <1>1, <1>3, <2>2
    <2>4. Longest(r, end, w, P[n]) = 0 \/ \E a \in P[n] : Longest(r, end, w, P[n]) = r[end[a]] + w[a]
      BY <2>2, <2>3, LongestIsAttained
    <2> QED
      BY <1>1, <2>1, <2>4
  <1> QED
    BY <1>3, <1>4, <1>5

\* No numbers that keep every arc are below them.
LEMMA PathsAreLeast ==
    ASSUME problem \in Problems, NEW arcs, arcs \subseteq Nodes \X Nodes, NoCycle(arcs),
           NEW w \in [arcs -> Nat], NEW r, LongestPaths(arcs, w, r),
           NEW f \in [Nodes -> Nat], \A a \in arcs : f[a[2]] >= f[a[1]] + w[a]
    PROVE  \A n \in Nodes : r[n] <= f[n]
  <1> DEFINE T == {n \in Nodes : ~(r[n] <= f[n])}
  <1> SUFFICES ASSUME T # {} PROVE FALSE
    OBVIOUS
  <1>1. PICK n \in T : \A a \in arcs : a[2] = n => a[1] \notin T
    BY FiniteGraph, HasFirst
  <1>2. /\ r \in [Nodes -> Nat]
        /\ r[n] = 0 \/ \E a \in arcs : a[2] = n /\ r[n] = r[a[1]] + w[a]
    BY <1>1, PathsAreLongest
  <1>3. n \in Nodes /\ ~(r[n] <= f[n])
    BY <1>1
  <1>4. PICK a \in arcs : a[2] = n /\ r[n] = r[a[1]] + w[a]
    BY <1>2, <1>3
  <1>5. a[1] \in Nodes /\ a[1] \notin T
    BY <1>1, <1>4
  <1>6. PICK x, y, u, v, d \in Nat :
            x = r[n] /\ y = f[n] /\ u = r[a[1]] /\ v = f[a[1]] /\ d = w[a]
    BY <1>2, <1>3, <1>5
  <1>7. u <= v /\ x = u + d /\ y >= v + d /\ ~(x <= y)
    BY <1>3, <1>4, <1>5, <1>6
  <1> QED
    BY <1>6, <1>7

\* The starting times of _longest_from_source are the longest paths.
LEMMA StartsAreLongest ==
    ASSUME problem \in Problems, NEW arcs, arcs \subseteq FixedArcs \cup Alternatives,
           NoCycle(arcs)
    PROVE  LongestPaths(arcs, [a \in arcs |-> Weight(a)], LongestFromSource(arcs))
  <1> DEFINE Fits(r) == r = [n \in Nodes |-> Max({0} \cup {r[a[1]] + Weight(a) :
                                                    a \in {b \in arcs : b[2] = n}})]
  <1>1. PICK w : w = [a \in arcs |-> Weight(a)]
    OBVIOUS
  <1>2. arcs \subseteq Nodes \X Nodes /\ w \in [arcs -> Nat] /\ \A a \in arcs : w[a] = Weight(a)
    BY <1>1, Weights, ArcsJoinNodes DEF Alternatives
  <1>3. ASSUME NEW f PROVE LongestPaths(arcs, w, f) <=> Fits(f)
    <2>1. ASSUME NEW n \in Nodes
          PROVE  {f[a[1]] + w[a] : a \in {b \in arcs : b[2] = n}}
                   = {f[a[1]] + Weight(a) : a \in {b \in arcs : b[2] = n}}
      BY <1>2
    <2>2. [n \in Nodes |-> Max({0} \cup {f[a[1]] + w[a] : a \in {b \in arcs : b[2] = n}})]
            = [n \in Nodes |-> Max({0} \cup {f[a[1]] + Weight(a) :
                                            a \in {b \in arcs : b[2] = n}})]
      BY <2>1
    <2> QED
      BY <2>2 DEF LongestPaths
  <1>4. PICK f : Fits(f)
    <2>1. PICK f : LongestPaths(arcs, w, f)
      BY <1>2, PathsExist
    <2> HIDE DEF Fits
    <2> QED
      BY <1>3, <2>1
  <1>5. Fits(LongestFromSource(arcs))
    <2> DEFINE r == CHOOSE h : Fits(h)
    <2>1. Fits(r)
      <3> HIDE DEF Fits
      <3> QED
        BY <1>4
    <2>2. LongestFromSource(arcs) = r
      BY DEF LongestFromSource
    <2> HIDE DEF Fits, r
    <2> QED
      BY <2>1, <2>2
  <1> HIDE DEF Fits
  <1> QED
    BY <1>1, <1>3, <1>5

\* _longest_from_source: starting times that keep every arc.
LEMMA StartsKeepArcs ==
    ASSUME problem \in Problems, NEW arcs, arcs \subseteq FixedArcs \cup Alternatives,
           NoCycle(arcs)
    PROVE  /\ LongestFromSource(arcs) \in [Nodes -> Nat]
           /\ \A a \in arcs : LongestFromSource(arcs)[a[2]]
                                >= LongestFromSource(arcs)[a[1]] + Weight(a)
  <1>1. PICK w, r : w = [a \in arcs |-> Weight(a)] /\ r = LongestFromSource(arcs)
    OBVIOUS
  <1>2. arcs \subseteq Nodes \X Nodes /\ w \in [arcs -> Nat] /\ \A a \in arcs : w[a] = Weight(a)
    BY <1>1, Weights, ArcsJoinNodes DEF Alternatives
  <1>3. LongestPaths(arcs, w, r)
    BY <1>1, StartsAreLongest
  <1>4. r \in [Nodes -> Nat] /\ \A a \in arcs : r[a[2]] >= r[a[1]] + w[a]
    BY <1>2, <1>3, PathsAreLongest
  <1> QED
    BY <1>1, <1>2, <1>4

\* _longest_to_sink: what an arc has behind it counts for its beginning.
LEMMA TailsKeepArcs ==
    ASSUME problem \in Problems, NEW arcs, arcs \subseteq FixedArcs \cup Alternatives,
           NoCycle(arcs)
    PROVE  /\ LongestToSink(arcs) \in [Nodes -> Nat]
           /\ \A a \in arcs : LongestToSink(arcs)[a[1]]
                                >= LongestToSink(arcs)[a[2]] + Weight(a)
  <1> DEFINE Fits(q) == q = [n \in Nodes |-> Max({0} \cup {q[a[2]] + Weight(a) :
                                                    a \in {b \in arcs : b[1] = n}})]
  <1>1. arcs \subseteq Nodes \X Nodes /\ IsFiniteSet(Nodes) /\ IsFiniteSet(arcs)
    <2>1. arcs \in SUBSET (Nodes \X Nodes)
      BY ArcsJoinNodes DEF Alternatives
    <2>2. IsFiniteSet(Nodes \X Nodes)
      BY FiniteGraph, FS_Product
    <2> QED
      BY <2>1, <2>2, FiniteGraph, FS_Subset
  <1>2. PICK N, P, end, w :
            /\ N = Nodes
            /\ P = [n \in N |-> {b \in arcs : b[1] = n}]
            /\ end = [a \in arcs |-> a[2]]
            /\ w = [a \in arcs |-> Weight(a)]
    OBVIOUS
  <1>3. /\ P \in [N -> SUBSET arcs] /\ end \in [arcs -> N] /\ w \in [arcs -> Nat]
        /\ \A a \in arcs : a[1] \in N /\ end[a] = a[2] /\ w[a] = Weight(a)
        /\ \A n \in N : P[n] = {b \in arcs : b[1] = n}
    BY <1>1, <1>2, Weights
  <1>4. ASSUME NEW f PROVE AllLongest(f, N, end, w, P) <=> Fits(f)
    <2>1. ASSUME NEW n \in N
          PROVE  Longest(f, end, w, P[n])
                   = Max({0} \cup {f[a[2]] + Weight(a) : a \in {b \in arcs : b[1] = n}})
      <3>1. {f[end[a]] + w[a] : a \in P[n]}
              = {f[a[2]] + Weight(a) : a \in {b \in arcs : b[1] = n}}
        BY <1>3
      <3> QED
        BY <3>1 DEF Longest
    <2>2. [n \in N |-> Longest(f, end, w, P[n])]
            = [n \in Nodes |-> Max({0} \cup {f[a[2]] + Weight(a) :
                                            a \in {b \in arcs : b[1] = n}})]
      BY <1>2, <2>1
    <2> QED
      BY <2>2 DEF AllLongest
  <1>5. \A T \in SUBSET N : T # {} => \E n \in T : \A a \in P[n] : end[a] \notin T
    <2> SUFFICES ASSUME NEW T \in SUBSET N, T # {}
                 PROVE  \E n \in T : \A a \in P[n] : end[a] \notin T
      OBVIOUS
    <2>1. PICK n \in T : \A a \in arcs : a[1] = n => a[2] \notin T
      BY <1>1, <1>2, HasLast
    <2>2. \A a \in P[n] : end[a] \notin T
      BY <1>3, <2>1
    <2> QED
      BY <2>2
  <1>6. IsFiniteSet(N) /\ IsFiniteSet(arcs)
    BY <1>1, <1>2
  <1>7. PICK f : Fits(f)
    <2>1. PICK f : AllLongest(f, N, end, w, P)
      BY <1>3, <1>5, <1>6, LongestExist
    <2> QED
      BY <1>4, <2>1
  <1>8. PICK g : Fits(g) /\ g = LongestToSink(arcs)
    <2> DEFINE q == CHOOSE h : Fits(h)
    <2>1. Fits(q)
      <3> HIDE DEF Fits
      <3> QED
        BY <1>7
    <2>2. LongestToSink(arcs) = q
      BY DEF LongestToSink
    <2> HIDE DEF Fits, q
    <2> QED
      BY <2>1, <2>2
  <1>9. AllLongest(g, N, end, w, P)
    <2> HIDE DEF Fits
    <2> QED
      BY <1>4, <1>8
  <1>10. g \in [N -> Nat] /\ \A n \in N : \A a \in P[n] : g[n] >= g[end[a]] + w[a]
    <2>1. P \in [N -> SUBSET arcs] /\ end \in [arcs -> N] /\ w \in [arcs -> Nat]
      BY <1>3
    <2>2. IsFiniteSet(arcs) /\ AllLongest(g, N, end, w, P)
      BY <1>6, <1>9
    <2> QED
      BY <2>1, <2>2, <1>5, LongestAreNumbers
  <1>11. \A a \in arcs : g[a[1]] >= g[a[2]] + Weight(a)
    BY <1>3, <1>10
  <1> QED
    BY <1>2, <1>8, <1>10, <1>11

-----------------------------------------------------------------------------
(* What the solvers prefer, and what they return.                           *)

\* Train t is preferred to train u on every resource by solve_by_priority.
RunsFirst(t, u) ==
    \/ problem.priority[t] > problem.priority[u]
    \/ problem.priority[t] = problem.priority[u] /\ t < u

\* A complete choice: an arc of every pair, and no cycle.
Decided(choice) ==
    /\ choice \subseteq Alternatives
    /\ \A p \in Pairs : p \in choice \/ Flip(p) \in choice
    /\ NoCycle(FixedArcs \cup choice)

\* The priority rule has not been overruled so far, and all that was returned
\* is complete.
OrderInv ==
    /\ strategy = "priority" => \A a \in selected : RunsFirst(a[1][1], a[2][1])
    /\ strategy = "done" => remaining = {}
    /\ \A choice \in {solved[s] : s \in DOMAIN solved} : Decided(choice)

\* One train order for all resources closes no cycle: nothing leads back from
\* the train that runs later.
LEMMA PriorityIsSafe ==
    ASSUME AltInv, OrderInv, strategy = "priority", NEW p \in remaining
    PROVE  /\ RunsFirst(ByPriority(p)[1][1], ByPriority(p)[2][1])
           /\ ~Reaches(Graph, ByPriority(p)[2], ByPriority(p)[1])
  <1>1. /\ p \in Pairs /\ p = <<p[1], p[2]>> /\ p[1] \in Operations /\ p[2] \in Operations
        /\ p[1][1] < p[2][1]
    BY DEF AltInv, TypeOK, Pairs
  <1>2. \A t \in Trains : t \in Nat \ {0} /\ problem.priority[t] \in Int
    BY ProblemTyping, ProblemsAssumption DEF AltInv, ProblemsAssumption, Trains
  <1>3. p[1][1] \in Trains /\ p[2][1] \in Trains
    BY <1>1, ProblemTyping DEF AltInv
  <1>4. PICK x \in Operations, y \in Operations :
            ByPriority(p) = <<x, y>> /\ RunsFirst(x[1], y[1])
    <2>1. CASE problem.priority[p[1][1]] >= problem.priority[p[2][1]]
      <3>1. ByPriority(p) = <<p[1], p[2]>>
        BY <1>1, <2>1 DEF ByPriority
      <3>2. RunsFirst(p[1][1], p[2][1])
        BY <1>1, <1>2, <1>3, <2>1 DEF RunsFirst
      <3> QED
        BY <1>1, <3>1, <3>2
    <2>2. CASE ~(problem.priority[p[1][1]] >= problem.priority[p[2][1]])
      <3>1. ByPriority(p) = <<p[2], p[1]>>
        BY <1>1, <2>2 DEF ByPriority, Flip
      <3>2. RunsFirst(p[2][1], p[1][1])
        BY <1>2, <1>3, <2>2 DEF RunsFirst
      <3> QED
        BY <1>1, <3>1, <3>2
    <2> QED
      BY <2>1, <2>2
  <1> DEFINE u == y[1]
             S == {n \in Operations : n[1] = u \/ RunsFirst(u, n[1])} \cup {Sink}
  <1>5. \A n \in Operations : n[1] \in Trains /\ n # Source /\ n # Sink
    BY ProblemTyping DEF AltInv, Source, Sink
  <1>6. \A s, t, v \in Trains : /\ RunsFirst(s, t) /\ RunsFirst(t, v) => RunsFirst(s, v)
                                /\ ~(RunsFirst(s, t) /\ RunsFirst(t, s)) /\ ~RunsFirst(s, s)
    BY <1>2 DEF RunsFirst
  <1>7. S \in SUBSET Nodes /\ y \in S
    BY DEF Nodes
  <1>8. x \notin S
    BY <1>4, <1>5, <1>6
  <1>9. Closed(S, Graph)
    <2> SUFFICES ASSUME NEW b \in Graph, b[1] \in S PROVE b[2] \in S
      BY DEF Closed
    <2>1. CASE \E t \in Trains : b = <<Source, First(t)>>
      <3>1. Source # Sink
        BY DEF Source, Sink
      <3> QED
        BY <1>5, <2>1, <3>1
    <2>2. CASE \E t \in Trains : b = <<Final(t), Sink>>
      BY <2>2
    <2>3. CASE b \in Operations \X Operations /\ b[1][1] = b[2][1]
      <3>1. b[1] \in Operations /\ b[2] \in Operations
        BY <2>3
      <3>2. b[1][1] = u \/ RunsFirst(u, b[1][1])
        BY <1>5, <3>1
      <3> QED
        BY <2>3, <3>1, <3>2
    <2>4. CASE b \in selected
      <3>1. b[1] \in Operations /\ b[2] \in Operations
        BY <2>4 DEF AltInv, TypeOK, Pairs, Flip
      <3>2. RunsFirst(b[1][1], b[2][1])
        BY <2>4 DEF OrderInv
      <3>3. b[1][1] = u \/ RunsFirst(u, b[1][1])
        BY <1>5, <3>1
      <3>4. b[1][1] \in Trains /\ b[2][1] \in Trains /\ u \in Trains
        BY <1>5, <3>1
      <3>5. RunsFirst(u, b[2][1])
        <4>1. CASE b[1][1] = u
          BY <3>2, <4>1
        <4>2. CASE RunsFirst(u, b[1][1])
          BY <1>6, <3>2, <3>4, <4>2
        <4> QED
          BY <3>3, <4>1, <4>2
      <3> QED
        BY <3>1, <3>5
    <2> QED
      BY <2>1, <2>2, <2>3, <2>4 DEF Graph, FixedArcs
  <1>10. ~Reaches(Graph, y, x)
    <2> HIDE DEF S
    <2> QED
      BY <1>7, <1>8, <1>9 DEF Reaches
  <1> QED
    BY <1>4, <1>10

\* What the path through an arc is when no operation is instantaneous: the
\* other arc of the pair would only be closed by a longer one.
LEMMA CriticalIsSafe ==
    ASSUME AltInv, NEW a \in MostCritical, \A n \in Operations : Proc(n) > 0
    PROVE  ~Reaches(Graph, a[1], a[2])
  <1> SUFFICES ASSUME Reaches(Graph, a[1], a[2]) PROVE FALSE
    OBVIOUS
  <1> DEFINE r == LongestFromSource(Graph)
             q == LongestToSink(Graph)
  <1>1. a \in Undecided /\ \A b \in Undecided : PathThrough[b] <= PathThrough[a]
    BY DEF MostCritical
  <1>2. PICK p \in remaining : a = p \/ a = Flip(p)
    BY <1>1 DEF Undecided
  <1>3. p \in Pairs /\ p = <<p[1], p[2]>> /\ p[1] \in Operations /\ p[2] \in Operations
        /\ p[1][1] < p[2][1]
    BY DEF AltInv, TypeOK, Pairs
  <1>4. p[1][1] # p[2][1]
    BY <1>3, ProblemTyping DEF AltInv
  <1>5. PICK x \in Operations, y \in Operations :
            a = <<x, y>> /\ Flip(a) = <<y, x>> /\ x[1] # y[1]
    BY <1>2, <1>3, <1>4 DEF Flip
  <1>6. Flip(a) \in Undecided
    <2>1. Flip(Flip(p)) = p
      BY <1>3 DEF Flip
    <2> QED
      BY <1>2, <2>1 DEF Undecided
  <1>7. Graph \subseteq FixedArcs \cup Alternatives /\ NoCycle(Graph) /\ problem \in Problems
    BY DEF AltInv, TypeOK, Acyclic, Graph, Alternatives
  <1>8. /\ r \in [Nodes -> Nat] /\ q \in [Nodes -> Nat]
        /\ \A b \in Graph : r[b[2]] >= r[b[1]] + Weight(b) /\ q[b[1]] >= q[b[2]] + Weight(b)
    BY <1>7, StartsKeepArcs, TailsKeepArcs
  <1>9. \A b \in Undecided : PathThrough[b] = r[b[1]] + Weight(b) + q[b[2]]
    BY DEF PathThrough
  <1> HIDE DEF r, q
  <1>10. x \in Nodes /\ y \in Nodes /\ x # y
    BY <1>5 DEF Nodes
  <1>11. \A b \in Graph : Weight(b) \in Nat /\ b[1] \in Nodes /\ b[2] \in Nodes
    BY <1>7, Weights, ArcsJoinNodes DEF Alternatives
  <1>12. q[x] >= q[y]
    <2> DEFINE S == {n \in Nodes : q[n] <= q[x]}
    <2>1. x \in S /\ S \in SUBSET Nodes
      BY <1>8, <1>10
    <2>2. ASSUME NEW b \in Graph, b[1] \in S PROVE b[2] \in S
      BY <1>8, <1>10, <1>11, <2>2
    <2>3. Closed(S, Graph)
      BY <2>2 DEF Closed
    <2>4. y \in S
      <3> HIDE DEF S
      <3> QED
        BY <1>5, <2>1, <2>3 DEF Reaches
    <2> QED
      BY <1>8, <1>10, <2>4
  <1>13. Proc(x) \in Nat /\ Proc(y) \in Nat /\ Proc(y) > 0 /\ problem.headway \in Nat
    BY <1>7, Weights
  <1>14. r[y] >= r[x] + Proc(x)
    <2> DEFINE S == {n \in Nodes : n = x \/ r[n] >= r[x] + Proc(x)}
    <2>1. x \in S /\ S \in SUBSET Nodes
      BY <1>10
    <2>2. ASSUME NEW b \in Graph, b[1] \in S PROVE b[2] \in S
      <3>1. CASE b[1] = x
        <4>1. Weight(b) >= Proc(x)
          <5>1. x[1] # 0 /\ x # Source
            BY <1>7, ProblemTyping DEF Source
          <5>2. Weight(b) = Proc(x) \/ Weight(b) = Proc(x) + problem.headway
            BY <3>1, <5>1 DEF Weight
          <5> QED
            BY <1>13, <5>2
        <4> QED
          BY <1>8, <1>10, <1>11, <1>13, <3>1, <4>1
      <3>2. CASE r[b[1]] >= r[x] + Proc(x)
        BY <1>8, <1>10, <1>11, <1>13, <3>2
      <3> QED
        BY <2>2, <3>1, <3>2
    <2>3. Closed(S, Graph)
      BY <2>2 DEF Closed
    <2>4. y \in S
      <3> HIDE DEF S
      <3> QED
        BY <1>5, <2>1, <2>3 DEF Reaches
    <2> QED
      BY <1>10, <2>4
  <1>15. /\ PathThrough[a] = r[x] + (Proc(x) + problem.headway) + q[y]
         /\ PathThrough[Flip(a)] = r[y] + (Proc(y) + problem.headway) + q[x]
    BY <1>1, <1>5, <1>6, <1>7, <1>9, Weights
  <1>16. PathThrough[Flip(a)] <= PathThrough[a]
    BY <1>1, <1>6
  <1> QED
    BY <1>8, <1>10, <1>12, <1>13, <1>14, <1>15, <1>16

\* A choice stays complete as long as the problem is the same.
LEMMA SameDecided ==
    ASSUME problem' = problem, NEW choice, Decided(choice)
    PROVE  Decided(choice)'
  <1>1. Operations' = Operations /\ Trains' = Trains
    BY DEF Operations, Trains
  <1>2. Nodes' = Nodes /\ Pairs' = Pairs /\ FixedArcs' = FixedArcs
    BY <1>1, SameProblem DEF Nodes, Source, Sink
  <1>3. Alternatives' = Alternatives
    BY <1>2 DEF Alternatives, Flip
  <1>4. NoCycle(FixedArcs \cup choice)'
    BY <1>2 DEF Decided, NoCycle, Reaches, Closed
  <1> QED
    BY <1>2, <1>3, <1>4 DEF Decided, Flip

\* A decision that follows the priority rule takes the preferred arc.
LEMMA DecideOrder ==
    ASSUME AltInv, OrderInv, NEW p \in remaining, strategy # "done", NEW preferred,
           strategy = "priority" => preferred = ByPriority(p),
           Decide(preferred)
    PROVE  OrderInv'
  <1>1. problem' = problem /\ strategy' = strategy /\ solved' = solved
    BY DEF Decide
  <1>2. ASSUME strategy = "priority" PROVE \A a \in selected' : RunsFirst(a[1][1], a[2][1])'
    <2>1. /\ RunsFirst(preferred[1][1], preferred[2][1])
          /\ ~Reaches(Graph, preferred[2], preferred[1])
      BY <1>2, PriorityIsSafe
    <2>2. selected' = selected \cup {preferred}
      BY <2>1 DEF Decide, Safe
    <2>3. \A a \in selected' : RunsFirst(a[1][1], a[2][1])
      BY <1>2, <2>1, <2>2 DEF OrderInv
    <2> QED
      BY <1>1, <2>3 DEF RunsFirst
  <1>3. ASSUME NEW choice \in {solved'[s] : s \in DOMAIN solved'} PROVE Decided(choice)'
    <2>1. Decided(choice)
      BY <1>1, <1>3 DEF OrderInv
    <2> QED
      BY <1>1, <2>1, SameDecided
  <1> QED
    BY <1>1, <1>2, <1>3 DEF OrderInv

\* While priorities decide, the selection follows one order of the trains, and a
\* solved problem has a full selection.
LEMMA OrderInvariant == Spec => []OrderInv
  <1>1. Init => OrderInv
    BY DEF Init, OrderInv
  <1>2. ASSUME AltInv, OrderInv, [Next]_vars PROVE OrderInv'
    <2>1. CASE AvoidMostCritical
      <3>1. PICK critical \in Undecided : Decide(Flip(critical)) /\ strategy = "amcc"
        BY <2>1 DEF AvoidMostCritical, MostCritical
      <3>2. PICK p \in remaining : critical = p \/ critical = Flip(p)
        BY DEF Undecided
      <3> QED
        BY <1>2, <3>1, <3>2, DecideOrder
    <2>2. CASE FollowPriority
      <3>1. PICK p \in remaining : Decide(ByPriority(p)) /\ strategy = "priority"
        BY <2>2 DEF FollowPriority
      <3> QED
        BY <1>2, <3>1, DecideOrder
    <2>3. CASE Finalize
      <3>1. /\ problem' = problem /\ selected' = {} /\ strategy \in {"amcc", "priority"}
            /\ remaining = {}
            /\ strategy' = "done" => remaining' = {}
        BY <1>2, <2>3 DEF Finalize, AltInv, TypeOK
      <3>2. Decided(selected)
        BY <1>2, <3>1 DEF AltInv, TypeOK, Acyclic, Graph, Decided, Alternatives
      <3>3. \A choice \in {solved'[s] : s \in DOMAIN solved'} :
                choice = selected \/ choice \in {solved[s] : s \in DOMAIN solved}
        BY <2>3 DEF Finalize
      <3>4. ASSUME NEW choice \in {solved'[s] : s \in DOMAIN solved'} PROVE Decided(choice)'
        <4>1. Decided(choice)
          BY <1>2, <3>2, <3>3, <3>4 DEF OrderInv
        <4> QED
          BY <3>1, <4>1, SameDecided
      <3> QED
        BY <3>1, <3>4 DEF OrderInv
    <2>4. CASE UNCHANGED vars
      <3>1. problem' = problem /\ strategy' = strategy /\ remaining' = remaining
            /\ selected' = selected /\ solved' = solved
        BY <2>4 DEF vars
      <3>2. ASSUME NEW choice \in {solved'[s] : s \in DOMAIN solved'} PROVE Decided(choice)'
        <4>1. Decided(choice)
          BY <1>2, <3>1, <3>2 DEF OrderInv
        <4> QED
          BY <3>1, <4>1, SameDecided
      <3>3. \A a \in selected : RunsFirst(a[1][1], a[2][1]) <=> RunsFirst(a[1][1], a[2][1])'
        BY <3>1 DEF RunsFirst
      <3> QED
        BY <1>2, <3>1, <3>2, <3>3 DEF OrderInv
    <2> QED
      BY <1>2, <2>1, <2>2, <2>3, <2>4 DEF Next, Finished
  <1> QED
    BY <1>1, <1>2, AltInvariant, PTL DEF Spec

\* altgraph.py takes the other arc of a pair "only if the alternative would
\* cycle": with running times that are positive that never happens, in either
\* solver, so AMCC always avoids the longest path and one order of the trains
\* rules every resource in solve_by_priority.
THEOREM NoChoiceIsForced == Spec => []NeverForced
  <1>1. ASSUME AltInv, OrderInv PROVE NeverForced
    <2> SUFFICES ASSUME remaining # {}, \A n \in Operations : Proc(n) > 0
                 PROVE  \A a \in IF strategy = "amcc" THEN {Flip(c) : c \in MostCritical}
                                                      ELSE {ByPriority(p) : p \in remaining} :
                            ~Reaches(Graph, a[2], a[1])
      BY DEF NeverForced
    <2>1. CASE strategy = "amcc"
      <3>1. ASSUME NEW c \in MostCritical PROVE ~Reaches(Graph, Flip(c)[2], Flip(c)[1])
        BY <1>1, CriticalIsSafe DEF Flip
      <3> QED
        BY <2>1, <3>1
    <2>2. CASE strategy # "amcc"
      <3>1. strategy = "priority"
        BY <1>1, <2>2 DEF AltInv, TypeOK, OrderInv
      <3>2. \A p \in remaining : ~Reaches(Graph, ByPriority(p)[2], ByPriority(p)[1])
        BY <1>1, <3>1, PriorityIsSafe
      <3> QED
        BY <2>2, <3>2
    <2> QED
      BY <2>1, <2>2
  <1> QED
    BY <1>1, AltInvariant, OrderInvariant, PTL

\* A complete choice without cycles has a schedule that keeps all its arcs.
LEMMA DecidedIsFeasible ==
    ASSUME problem \in Problems, NEW choice, Decided(choice), NEW start, start = Start(choice)
    PROVE  /\ \A t \in Trains : start[First(t)] >= problem.release[t]
           /\ \A n, m \in Operations :
                n[1] = m[1] /\ m[2] = n[2] + 1 => start[m] >= start[n] + Proc(n)
           /\ (\A n \in Operations : Proc(n) > 0) =>
                \A n, m \in Operations :
                    n[1] # m[1] /\ Ahead(start, n, m)
                        => start[m] >= start[n] + Proc(n) + problem.headway
  <1> DEFINE arcs == FixedArcs \cup choice
  <1>1. /\ start \in [Nodes -> Nat]
        /\ \A a \in arcs : start[a[2]] >= start[a[1]] + Weight(a)
    <2>1. arcs \subseteq FixedArcs \cup Alternatives /\ NoCycle(arcs)
      BY DEF Decided
    <2>2. start = LongestFromSource(arcs)
      BY DEF Start
    <2> HIDE DEF arcs
    <2> QED
      BY <2>1, <2>2, StartsKeepArcs
  <1>2. \A n \in Operations : n \in Nodes /\ start[n] \in Nat /\ Proc(n) \in Nat
    BY <1>1, Weights DEF Nodes
  <1>3. problem.headway \in Nat /\ \A t \in Trains : problem.release[t] \in Nat
    BY ProblemsAssumption DEF ProblemsAssumption, Trains
  <1>4. ASSUME NEW t \in Trains PROVE start[First(t)] >= problem.release[t]
    <2>1. <<Source, First(t)>> \in arcs
      BY DEF FixedArcs
    <2>2. start[First(t)] >= start[Source] + problem.release[t]
      BY <1>1, <2>1, Weights
    <2>3. start[Source] \in Nat /\ start[First(t)] \in Nat
      BY <1>1, <1>2, ProblemTyping DEF Nodes
    <2> QED
      BY <1>3, <2>2, <2>3
  <1>5. ASSUME NEW n \in Operations, NEW m \in Operations, n[1] = m[1], m[2] = n[2] + 1
        PROVE  start[m] >= start[n] + Proc(n)
    <2>1. <<n, m>> \in arcs
      BY <1>5 DEF FixedArcs
    <2> QED
      BY <1>1, <1>5, <2>1, Weights
  <1>6. ASSUME NEW n \in Operations, NEW m \in Operations, n[1] # m[1], Resource(n) = Resource(m)
        PROVE  \/ start[m] >= start[n] + Proc(n) + problem.headway
               \/ start[n] >= start[m] + Proc(m) + problem.headway
    <2>1. n[1] \in Nat /\ m[1] \in Nat
      BY ProblemTyping
    <2>2. <<n, m>> \in Pairs \/ <<m, n>> \in Pairs
      BY <1>6, <2>1 DEF Pairs
    <2>3. <<n, m>> \in choice \/ <<m, n>> \in choice
      BY <2>2 DEF Decided, Flip
    <2>4. CASE <<n, m>> \in choice
      <3>1. start[m] >= start[n] + (Proc(n) + problem.headway)
        BY <1>1, <1>6, <2>4, Weights
      <3> QED
        BY <1>2, <1>3, <3>1
    <2>5. CASE <<m, n>> \in choice
      <3>1. start[n] >= start[m] + (Proc(m) + problem.headway)
        BY <1>1, <1>6, <2>5, Weights
      <3> QED
        BY <1>2, <1>3, <3>1
    <2> QED
      BY <2>3, <2>4, <2>5
  <1>7. ASSUME \A n \in Operations : Proc(n) > 0,
               NEW n \in Operations, NEW m \in Operations, n[1] # m[1], Ahead(start, n, m)
        PROVE  start[m] >= start[n] + Proc(n) + problem.headway
    <2>1. Resource(n) = Resource(m) /\ start[n] <= start[m]
      BY <1>2, <1>7 DEF Ahead
    <2>2. ~(start[n] >= start[m] + Proc(m) + problem.headway)
      BY <1>2, <1>3, <1>7, <2>1
    <2> QED
      BY <1>6, <1>7, <2>1, <2>2
  <1> QED
    BY <1>4, <1>5, <1>7

\* The schedule either solver returns can be driven: no release, running time
\* or headway is cut short, and the order of a resource is that of its trains.
THEOREM SchedulesAreFeasible == Spec => []Feasible
  <1>1. ASSUME AltInv, OrderInv PROVE Feasible
    <2> SUFFICES ASSUME NEW s \in DOMAIN solved, NEW start, start = Start(solved[s])
                 PROVE  /\ \A t \in Trains : start[First(t)] >= problem.release[t]
                        /\ \A n, m \in Operations :
                             n[1] = m[1] /\ m[2] = n[2] + 1 => start[m] >= start[n] + Proc(n)
                        /\ (\A n \in Operations : Proc(n) > 0) =>
                             \A n, m \in Operations :
                                 n[1] # m[1] /\ Ahead(start, n, m)
                                     => start[m] >= start[n] + Proc(n) + problem.headway
      BY DEF Feasible
    <2>1. PICK choice : choice = solved[s]
      OBVIOUS
    <2>2. Decided(choice) /\ start = Start(choice) /\ problem \in Problems
      BY <1>1, <2>1 DEF OrderInv, AltInv
    <2> QED
      BY <2>2, DecidedIsFeasible
  <1> QED
    BY <1>1, AltInvariant, OrderInvariant, PTL

-----------------------------------------------------------------------------
(* The schedules are the earliest, and the optimum is of all schedules.     *)

\* What a complete choice makes of the trains: numbers that keep its arcs, and
\* the least such.
LEMMA StartsAreLeast ==
    ASSUME problem \in Problems, NEW choice, Decided(choice)
    PROVE  /\ Start(choice) \in [Nodes -> Nat]
           /\ \A a \in FixedArcs \cup choice :
                Start(choice)[a[2]] >= Start(choice)[a[1]] + Weight(a)
           /\ \A f \in [Nodes -> Nat] :
                (\A a \in FixedArcs \cup choice : f[a[2]] >= f[a[1]] + Weight(a))
                    => \A n \in Nodes : Start(choice)[n] <= f[n]
  <1>1. PICK arcs : arcs = FixedArcs \cup choice
    OBVIOUS
  <1>2. arcs \subseteq FixedArcs \cup Alternatives /\ NoCycle(arcs)
    BY <1>1 DEF Decided
  <1>3. PICK r : r = Start(choice) /\ r = LongestFromSource(arcs)
    BY <1>1 DEF Start
  <1>4. r \in [Nodes -> Nat] /\ \A a \in arcs : r[a[2]] >= r[a[1]] + Weight(a)
    BY <1>2, <1>3, StartsKeepArcs
  <1>5. PICK w : w = [a \in arcs |-> Weight(a)]
    OBVIOUS
  <1>6. LongestPaths(arcs, w, r)
    BY <1>2, <1>3, <1>5, StartsAreLongest
  <1>7. arcs \subseteq Nodes \X Nodes /\ w \in [arcs -> Nat] /\ \A a \in arcs : w[a] = Weight(a)
    BY <1>2, <1>5, Weights, ArcsJoinNodes DEF Alternatives
  <1>8. ASSUME NEW f \in [Nodes -> Nat], \A a \in arcs : f[a[2]] >= f[a[1]] + Weight(a)
        PROVE  \A n \in Nodes : r[n] <= f[n]
    <2>1. \A a \in arcs : f[a[2]] >= f[a[1]] + w[a]
      BY <1>7, <1>8
    <2> QED
      BY <1>2, <1>6, <1>7, <2>1, PathsAreLeast
  <1> QED
    BY <1>1, <1>3, <1>4, <1>8

\* The solvers' schedules waste no time: whoever runs the trains in the order
\* chosen, with its running times and headways, is nowhere earlier.
THEOREM SchedulesAreEarliest ==
    Spec => [](\A s \in DOMAIN solved : \A f \in [Nodes -> Nat] :
                  (\A a \in FixedArcs \cup solved[s] : f[a[2]] >= f[a[1]] + Weight(a))
                      => \A n \in Nodes : Start(solved[s])[n] <= f[n])
  <1>1. ASSUME AltInv, OrderInv
        PROVE  \A s \in DOMAIN solved : \A f \in [Nodes -> Nat] :
                  (\A a \in FixedArcs \cup solved[s] : f[a[2]] >= f[a[1]] + Weight(a))
                      => \A n \in Nodes : Start(solved[s])[n] <= f[n]
    <2>1. problem \in Problems /\ \A s \in DOMAIN solved : Decided(solved[s])
      BY <1>1 DEF AltInv, OrderInv
    <2> QED
      BY <2>1, StartsAreLeast
  <1> QED
    BY <1>1, AltInvariant, OrderInvariant, PTL

-----------------------------------------------------------------------------
\* The choices that give every pair of arcs an order.
CompleteOrders == {d \in Orders : NoCycle(FixedArcs \cup d)}

\* The complete choices are the orders of the pairs without cycles.
LEMMA OrdersAreDecided ==
    ASSUME problem \in Problems, NEW c
    PROVE  c \in CompleteOrders <=> Decided(c)
  <1>1. ASSUME c \in CompleteOrders PROVE Decided(c)
    <2>1. NoCycle(FixedArcs \cup c)
      BY <1>1 DEF CompleteOrders
    <2>2. PICK F \in SUBSET Pairs : c = {IF p \in F THEN p ELSE Flip(p) : p \in Pairs}
      BY <1>1 DEF CompleteOrders, Orders
    <2>3. c \subseteq Alternatives /\ \A p \in Pairs : p \in c \/ Flip(p) \in c
      BY <2>2 DEF Alternatives
    <2> QED
      BY <2>1, <2>3 DEF Decided
  <1>2. ASSUME Decided(c) PROVE c \in CompleteOrders
    <2> DEFINE F == {p \in Pairs : p \in c}
               d == {IF p \in F THEN p ELSE Flip(p) : p \in Pairs}
    <2>1. /\ c \subseteq Alternatives /\ NoCycle(FixedArcs \cup c)
          /\ \A p \in Pairs : p \in c \/ Flip(p) \in c
      BY <1>2 DEF Decided
    <2>2. ASSUME NEW p \in Pairs, p \in c, Flip(p) \in c PROVE FALSE
      <3>1. Flip(p)[1] = p[2] /\ Flip(p)[2] = p[1]
        BY DEF Flip
      <3>2. Reaches(FixedArcs \cup c, Flip(p)[1], Flip(p)[1])
        BY ReachesItself
      <3>3. Reaches(FixedArcs \cup c, Flip(p)[1], Flip(p)[2])
        BY <2>2, <3>2, ReachesOver
      <3> QED
        BY <2>1, <2>2, <3>1, <3>3 DEF NoCycle
    <2>3. ASSUME NEW a \in c PROVE a \in d
      <3>1. CASE a \in Pairs
        BY <3>1
      <3>2. CASE \E p \in Pairs : a = Flip(p)
        <4>1. PICK p \in Pairs : a = Flip(p)
          BY <3>2
        <4>2. p \notin F
          BY <2>2, <4>1
        <4> QED
          BY <4>1, <4>2
      <3> QED
        BY <2>1, <3>1, <3>2 DEF Alternatives
    <2>4. ASSUME NEW a \in d PROVE a \in c
      <3>1. PICK p \in Pairs : a = IF p \in F THEN p ELSE Flip(p)
        OBVIOUS
      <3> QED
        BY <2>1, <3>1
    <2>5. c = d /\ F \in SUBSET Pairs
      <3> HIDE DEF d
      <3> QED
        BY <2>3, <2>4
    <2>6. d \in Orders
      BY DEF Orders
    <2> QED
      BY <2>1, <2>5, <2>6 DEF CompleteOrders
  <1> QED
    BY <1>1, <1>2

\* The least of some numbers is one of them.
LEMMA LeastIsOne ==
    ASSUME NEW S, S \subseteq Nat, S # {}
    PROVE  Min(S) \in S /\ \A x \in S : Min(S) <= x
  BY LeastNumber DEF Min

\* The optimum is the makespan of some complete choice, and of none a greater one.
LEMMA OptimumIsLeast ==
    ASSUME problem \in Problems, NEW choice, Decided(choice)
    PROVE  /\ \A c : Decided(c) => Makespan(c) \in Nat /\ Optimum <= Makespan(c)
           /\ \E c : Decided(c) /\ Optimum = Makespan(c)
  <1> DEFINE S == {Makespan(c) : c \in CompleteOrders}
  <1>1. \A c : Decided(c) => Makespan(c) \in Nat
    <2> SUFFICES ASSUME NEW c, Decided(c) PROVE Makespan(c) \in Nat
      OBVIOUS
    <2>1. Start(c) \in [Nodes -> Nat] /\ Sink \in Nodes
      BY StartsAreLeast DEF Nodes
    <2> QED
      BY <2>1 DEF Makespan
  <1>2. S \subseteq Nat /\ S # {} /\ \A c : Decided(c) => Makespan(c) \in S
    BY <1>1, OrdersAreDecided
  <1>3. Min(S) \in S /\ \A x \in S : Min(S) <= x
    <2> HIDE DEF S
    <2> QED
      BY <1>2, LeastIsOne
  <1>4. Optimum = Min(S)
    BY DEF Optimum, CompleteOrders
  <1>5. PICK c \in CompleteOrders : Optimum = Makespan(c)
    BY <1>3, <1>4
  <1> HIDE DEF S
  <1> QED
    BY <1>1, <1>2, <1>3, <1>4, <1>5, OrdersAreDecided

\* A schedule that can be driven: routes, releases and running times are kept,
\* and of two trains on a resource one waits for the other and the headway.
Drivable(f) ==
    /\ f \in [Nodes -> Nat]
    /\ \A a \in FixedArcs : f[a[2]] >= f[a[1]] + Weight(a)
    /\ \A p \in Pairs : \/ f[p[2]] >= f[p[1]] + Weight(p)
                        \/ f[p[1]] >= f[p[2]] + Weight(Flip(p))

\* What may be driven next: later, or at the same time after an operation that
\* takes none.
Follows(f, n, m) ==
    \/ f[m] > f[n]
    \/ /\ f[m] = f[n] /\ Proc(n) = 0
       /\ \/ Proc(m) > 0
          \/ m[1] > n[1]
          \/ m[1] = n[1] /\ m[2] > n[2]

\* No operation follows itself, directly or not.
LEMMA FollowsInOrder ==
    ASSUME problem \in Problems, NEW f \in [Nodes -> Nat],
           NEW n \in Operations, NEW m \in Operations, NEW k \in Operations,
           Follows(f, n, m)
    PROVE  Follows(f, m, k) => Follows(f, n, k) /\ n # k
  <1>1. \A x \in Operations : x \in Nodes /\ f[x] \in Nat /\ Proc(x) \in Nat
                              /\ x[1] \in Nat /\ x[2] \in Nat
    BY Weights, ProblemTyping DEF Nodes
  <1>2. PICK N, M, K, pN, pM, pK, tN, tM, tK, iN, iM, iK \in Nat :
            /\ N = f[n] /\ M = f[m] /\ K = f[k]
            /\ pN = Proc(n) /\ pM = Proc(m) /\ pK = Proc(k)
            /\ tN = n[1] /\ tM = m[1] /\ tK = k[1]
            /\ iN = n[2] /\ iM = m[2] /\ iK = k[2]
    BY <1>1
  <1> SUFFICES ASSUME Follows(f, m, k) PROVE Follows(f, n, k) /\ n # k
    OBVIOUS
  <1>3. \/ M > N
        \/ M = N /\ pN = 0 /\ (pM > 0 \/ tM > tN \/ (tM = tN /\ iM > iN))
    BY <1>2 DEF Follows
  <1>4. \/ K > M
        \/ K = M /\ pM = 0 /\ (pK > 0 \/ tK > tM \/ (tK = tM /\ iK > iM))
    BY <1>2 DEF Follows
  <1>5. \/ K > N
        \/ K = N /\ pN = 0 /\ (pK > 0 \/ tK > tN \/ (tK = tN /\ iK > iN))
    BY <1>3, <1>4
  <1>6. Follows(f, n, k)
    BY <1>2, <1>5 DEF Follows
  <1>7. ~(K = N /\ pK = pN /\ tK = tN /\ iK = iN)
    BY <1>5
  <1>8. n # k
    BY <1>2, <1>7
  <1> QED
    BY <1>6, <1>8

\* A drivable schedule keeps the arcs of a complete choice: where two trains
\* could go in either order, because neither takes any time, the one with the
\* lower number goes first.
LEMMA DrivableIsDecided ==
    ASSUME problem \in Problems, NEW f, Drivable(f)
    PROVE  \E c : Decided(c) /\ \A a \in FixedArcs \cup c : f[a[2]] >= f[a[1]] + Weight(a)
  <1> DEFINE inOrder(p) == f[p[2]] >= f[p[1]] + Weight(p)
             c == {IF inOrder(p) THEN p ELSE Flip(p) : p \in Pairs}
             arcs == FixedArcs \cup c
  <1>1. /\ f \in [Nodes -> Nat]
        /\ \A a \in FixedArcs : f[a[2]] >= f[a[1]] + Weight(a)
        /\ \A p \in Pairs : inOrder(p) \/ f[p[1]] >= f[p[2]] + Weight(Flip(p))
    BY DEF Drivable
  <1>2. \A p \in Pairs : Flip(p)[1] = p[2] /\ Flip(p)[2] = p[1]
    BY DEF Flip
  <1>3. c \subseteq Alternatives /\ \A p \in Pairs : p \in c \/ Flip(p) \in c
    BY DEF Alternatives
  <1>4. \A a \in arcs : f[a[2]] >= f[a[1]] + Weight(a)
    BY <1>1, <1>2
  <1>5. \A n \in Operations : /\ n \in Nodes /\ f[n] \in Nat /\ Proc(n) \in Nat
                              /\ n[1] \in Nat /\ n[2] \in Nat /\ n # Source /\ n # Sink
    BY <1>1, Weights, ProblemTyping DEF Nodes, Source, Sink
  <1>6. problem.headway \in Nat
    BY Weights
  <1>7. ASSUME NEW n \in Operations, NEW m \in Operations, n[1] = m[1], m[2] = n[2] + 1,
               <<n, m>> \in arcs
        PROVE  Follows(f, n, m)
    <2>1. f[m] >= f[n] + Proc(n)
      BY <1>4, <1>7, Weights
    <2>2. m[2] > n[2]
      BY <1>5, <1>7
    <2> QED
      BY <1>5, <1>7, <2>1, <2>2 DEF Follows
  <1>8. ASSUME NEW p \in Pairs, inOrder(p) PROVE Follows(f, p[1], p[2])
    <2>1. /\ p = <<p[1], p[2]>> /\ p[1] \in Operations /\ p[2] \in Operations
          /\ p[1][1] < p[2][1]
      BY DEF Pairs
    <2>2. p[1][1] # p[2][1] /\ p[2][1] > p[1][1]
      BY <1>5, <2>1
    <2>3. f[p[2]] >= f[p[1]] + (Proc(p[1]) + problem.headway)
      BY <1>8, <2>1, <2>2, Weights
    <2> QED
      BY <1>5, <1>6, <2>1, <2>2, <2>3 DEF Follows
  <1>9. ASSUME NEW p \in Pairs, ~inOrder(p) PROVE Follows(f, p[2], p[1])
    <2>1. /\ p = <<p[1], p[2]>> /\ p[1] \in Operations /\ p[2] \in Operations
          /\ p[1][1] < p[2][1]
      BY DEF Pairs
    <2>2. p[1][1] # p[2][1]
      BY <1>5, <2>1
    <2>3. Weight(p) = Proc(p[1]) + problem.headway
      BY <2>1, <2>2, Weights
    <2>4. Weight(Flip(p)) = Proc(p[2]) + problem.headway
      BY <2>1, <2>2, Weights DEF Flip
    <2>5. /\ f[p[1]] >= f[p[2]] + (Proc(p[2]) + problem.headway)
          /\ ~(f[p[2]] >= f[p[1]] + (Proc(p[1]) + problem.headway))
      BY <1>1, <1>9, <2>3, <2>4
    <2>6. PICK x, y, u, v, h \in Nat : /\ x = f[p[1]] /\ y = f[p[2]] /\ h = problem.headway
                                      /\ u = Proc(p[1]) /\ v = Proc(p[2])
      BY <1>5, <1>6, <2>1
    <2>7. x > y \/ (x = y /\ v = 0 /\ u > 0)
      BY <2>5, <2>6
    <2> QED
      BY <2>6, <2>7 DEF Follows
  <1>10. ASSUME NEW a \in arcs
         PROVE  \/ \E t \in Trains : a = <<Source, First(t)>>
                \/ a[1] \in Operations /\ a[2] = Sink
                \/ a[1] \in Operations /\ a[2] \in Operations /\ Follows(f, a[1], a[2])
    <2>1. CASE \E t \in Trains : a = <<Source, First(t)>>
      BY <2>1
    <2>2. CASE \E t \in Trains : a = <<Final(t), Sink>>
      BY <2>2, ProblemTyping
    <2>3. CASE a \in Operations \X Operations /\ a[1][1] = a[2][1] /\ a[2][2] = a[1][2] + 1
      <3>1. PICK n \in Operations, m \in Operations : a = <<n, m>>
        BY <2>3
      <3>2. Follows(f, n, m)
        BY <1>7, <2>3, <3>1
      <3> QED
        BY <3>1, <3>2
    <2>4. CASE a \in c
      <3>1. PICK p \in Pairs : a = IF inOrder(p) THEN p ELSE Flip(p)
        BY <2>4
      <3>2. p[1] \in Operations /\ p[2] \in Operations
        BY DEF Pairs
      <3>3. Follows(f, a[1], a[2]) /\ a[1] \in Operations /\ a[2] \in Operations
        BY <1>2, <1>8, <1>9, <3>1, <3>2
      <3> QED
        BY <3>3
    <2> QED
      BY <2>1, <2>2, <2>3, <2>4 DEF FixedArcs
  <1>11. Source # Sink
    BY DEF Source, Sink
  <1> HIDE DEF c, inOrder
  <1>12. ASSUME NEW a \in arcs PROVE ~Reaches(arcs, a[2], a[1])
    <2>1. CASE \E t \in Trains : a = <<Source, First(t)>>
      <3> DEFINE S == Nodes \ {Source}
      <3>1. \A b \in arcs : b[2] \in S
        BY <1>5, <1>10, <1>11, ProblemTyping DEF Nodes
      <3>2. Closed(S, arcs) /\ a[2] \in S /\ a[1] \notin S /\ S \in SUBSET Nodes
        BY <2>1, <3>1 DEF Closed
      <3> HIDE DEF S
      <3> QED
        BY <3>2 DEF Reaches
    <2>2. CASE a[1] \in Operations /\ a[2] = Sink
      <3>1. \A b \in arcs : b[1] # Sink
        BY <1>5, <1>10, <1>11
      <3>2. Closed({Sink}, arcs) /\ a[2] \in {Sink} /\ a[1] \notin {Sink} /\ {Sink} \in SUBSET Nodes
        BY <2>2, <3>1 DEF Closed, Nodes
      <3> QED
        BY <3>2 DEF Reaches
    <2>3. CASE a[1] \in Operations /\ a[2] \in Operations /\ Follows(f, a[1], a[2])
      <3> DEFINE S == {n \in Operations : n = a[2] \/ Follows(f, a[2], n)} \cup {Sink}
      <3>1. S \in SUBSET Nodes /\ a[2] \in S
        BY <2>3 DEF Nodes
      <3>2. a[1] \notin S
        <4>1. a[1] # a[2]
          BY <1>1, <1>5, <2>3 DEF Follows
        <4>2. ~Follows(f, a[2], a[1])
          BY <1>1, <2>3, FollowsInOrder
        <4> QED
          BY <1>5, <2>3, <4>1, <4>2
      <3>3. ASSUME NEW b \in arcs, b[1] \in S PROVE b[2] \in S
        <4>1. CASE \E t \in Trains : b = <<Source, First(t)>>
          BY <1>5, <1>11, <3>3, <4>1
        <4>2. CASE b[2] = Sink
          BY <4>2
        <4>3. CASE b[1] \in Operations /\ b[2] \in Operations /\ Follows(f, b[1], b[2])
          <5>1. b[1] = a[2] \/ Follows(f, a[2], b[1])
            BY <1>5, <3>3, <4>3
          <5>2. Follows(f, a[2], b[2])
            BY <1>1, <2>3, <4>3, <5>1, FollowsInOrder
          <5> QED
            BY <4>3, <5>2
        <4> QED
          BY <1>10, <4>1, <4>2, <4>3
      <3>4. Closed(S, arcs)
        BY <3>3 DEF Closed
      <3> HIDE DEF S
      <3> QED
        BY <3>1, <3>2, <3>4 DEF Reaches
    <2> QED
      BY <1>10, <2>1, <2>2, <2>3
  <1>13. NoCycle(arcs)
    BY <1>12 DEF NoCycle
  <1>14. Decided(c)
    BY <1>3, <1>13 DEF Decided
  <1> QED
    BY <1>4, <1>14

\* and the earliest schedule of a complete choice can be driven.
LEMMA DecidedIsDrivable ==
    ASSUME problem \in Problems, NEW c, Decided(c)
    PROVE  Drivable(Start(c))
  <1>1. /\ Start(c) \in [Nodes -> Nat]
        /\ \A a \in FixedArcs \cup c : Start(c)[a[2]] >= Start(c)[a[1]] + Weight(a)
    BY StartsAreLeast
  <1>2. ASSUME NEW p \in Pairs
        PROVE  \/ Start(c)[p[2]] >= Start(c)[p[1]] + Weight(p)
               \/ Start(c)[p[1]] >= Start(c)[p[2]] + Weight(Flip(p))
    <2>1. Flip(p)[1] = p[2] /\ Flip(p)[2] = p[1]
      BY DEF Flip
    <2>2. p \in c \/ Flip(p) \in c
      BY DEF Decided
    <2> QED
      BY <1>1, <2>1, <2>2
  <1> QED
    BY <1>1, <1>2 DEF Drivable

\* Choosing an order for every pair loses nothing: the optimum over the orders
\* is the least makespan of all schedules the trains could drive, and the
\* solvers' makespans are bounded by it.
THEOREM OptimumIsOfAllSchedules ==
    Spec => [](DOMAIN solved # {} =>
                 /\ \E f : Drivable(f) /\ f[Sink] = Optimum
                 /\ \A f : Drivable(f) => Optimum <= f[Sink]
                 /\ \A s \in DOMAIN solved : Optimum <= Makespan(solved[s]))
  <1>1. ASSUME AltInv, OrderInv, DOMAIN solved # {}
        PROVE  /\ \E f : Drivable(f) /\ f[Sink] = Optimum
               /\ \A f : Drivable(f) => Optimum <= f[Sink]
               /\ \A s \in DOMAIN solved : Optimum <= Makespan(solved[s])
    <2>1. problem \in Problems /\ \A s \in DOMAIN solved : Decided(solved[s])
      BY <1>1 DEF AltInv, OrderInv
    <2>2. PICK choice : Decided(choice)
      BY <1>1, <2>1
    <2>3. /\ \A c : Decided(c) => Makespan(c) \in Nat /\ Optimum <= Makespan(c)
          /\ \E c : Decided(c) /\ Optimum = Makespan(c)
      BY <2>1, <2>2, OptimumIsLeast
    <2>4. \E f : Drivable(f) /\ f[Sink] = Optimum
      <3>1. PICK c : Decided(c) /\ Optimum = Makespan(c)
        BY <2>3
      <3>2. Drivable(Start(c)) /\ Start(c)[Sink] = Optimum
        BY <2>1, <3>1, DecidedIsDrivable DEF Makespan
      <3> QED
        BY <3>2
    <2>5. ASSUME NEW f, Drivable(f) PROVE Optimum <= f[Sink]
      <3>1. PICK c : Decided(c) /\ \A a \in FixedArcs \cup c : f[a[2]] >= f[a[1]] + Weight(a)
        BY <2>1, <2>5, DrivableIsDecided
      <3>2. f \in [Nodes -> Nat] /\ Sink \in Nodes
        BY <2>5 DEF Drivable, Nodes
      <3>3. Start(c)[Sink] <= f[Sink]
        BY <2>1, <3>1, <3>2, StartsAreLeast
      <3>4. PICK o, x, y : o = Optimum /\ x = Start(c)[Sink] /\ y = f[Sink]
        OBVIOUS
      <3>5. o <= x /\ x <= y /\ x \in Nat /\ y \in Nat /\ o \in Nat
        BY <2>3, <3>1, <3>2, <3>3, <3>4 DEF Makespan
      <3> QED
        BY <3>4, <3>5
    <2> QED
      BY <2>1, <2>3, <2>4, <2>5
  <1> QED
    BY <1>1, AltInvariant, OrderInvariant, PTL

-----------------------------------------------------------------------------
(* The constraint model of solve_optimal: a complete choice, and a train    *)
(* keeps the headway to itself.                                             *)

Intervals(c) == FixedArcs \cup Revisits \cup c

\* Where an operation is, so are the later ones of its train.
LEMMA ChainReached ==
    ASSUME problem \in Problems, NEW S, NEW arcs, Closed(S, arcs), FixedArcs \subseteq arcs,
           NEW n \in Operations, n \in S, NEW m \in Operations, m[1] = n[1], m[2] >= n[2]
    PROVE  m \in S
  <1>1. PICK t \in Trains, i \in Nat, j \in Nat :
            n = <<t, i>> /\ m = <<t, j>> /\ i >= 1 /\ j >= i
    BY ProblemTyping
  <1>2. \A k \in 1..Len(problem.ops[t]) : <<t, k>> \in Operations
    BY ProblemTyping DEF Operations
  <1>3. j \in 1..Len(problem.ops[t]) /\ Len(problem.ops[t]) \in Nat
    <2>1. m[2] \in DOMAIN problem.ops[m[1]] /\ m[1] = t /\ m[2] = j
      BY <1>1 DEF Operations
    <2> QED
      BY <2>1, ProblemTyping
  <1> DEFINE K == {k \in Nat : i + k <= j => <<t, i + k>> \in S}
  <1>4. 0 \in K
    BY <1>1
  <1>5. ASSUME NEW k \in Nat, k \in K PROVE k + 1 \in K
    <2> SUFFICES ASSUME i + (k + 1) <= j PROVE <<t, i + (k + 1)>> \in S
      OBVIOUS
    <2>1. <<t, i + k>> \in S
      BY <1>5
    <2>2. PICK l \in Nat : l = i + k /\ l >= 1 /\ l + 1 = i + (k + 1) /\ l + 1 <= j
      BY <1>1
    <2>3. <<t, l>> \in Operations /\ <<t, l + 1>> \in Operations
      BY <1>2, <1>3, <2>2
    <2>4. <<<<t, l>>, <<t, l + 1>>>> \in arcs
      BY <2>3 DEF FixedArcs
    <2>5. <<t, l + 1>> \in S
      BY <2>1, <2>2, <2>4 DEF Closed
    <2> QED
      BY <2>2, <2>5
  <1> HIDE DEF K
  <1>6. Nat \subseteq K
    BY <1>4, <1>5, NumbersReached
  <1>7. j - i \in Nat /\ i + (j - i) = j
    BY <1>1
  <1>8. j - i \in K
    BY <1>6, <1>7
  <1>9. <<t, j>> \in S
    BY <1>1, <1>7, <1>8 DEF K
  <1> QED
    BY <1>1, <1>9

\* A train's headway to itself closes no cycle: it only says that an operation
\* is after another, which the route says already.
LEMMA IntervalsAcyclic ==
    ASSUME problem \in Problems, NEW c, Decided(c)
    PROVE  Intervals(c) \subseteq Nodes \X Nodes /\ NoCycle(Intervals(c))
  <1> DEFINE G == FixedArcs \cup c
  <1>1. G \subseteq Nodes \X Nodes /\ NoCycle(G) /\ FixedArcs \subseteq G
    BY ArcsJoinNodes DEF Decided, Alternatives
  <1>2. Intervals(c) = G \cup Revisits
    BY DEF Intervals
  <1>3. \A a \in Revisits : /\ a = <<a[1], a[2]>> /\ a[1] \in Operations /\ a[2] \in Operations
                            /\ a[1][1] = a[2][1] /\ a[1][2] < a[2][2]
    BY DEF Revisits
  <1>4. \A n \in Operations : n \in Nodes /\ n[2] \in Nat
    BY ProblemTyping DEF Nodes
  <1> HIDE DEF G
  <1>5. ASSUME NEW S \in SUBSET Nodes, Closed(S, G) PROVE Closed(S, Intervals(c))
    <2>1. ASSUME NEW a \in Revisits, a[1] \in S PROVE a[2] \in S
      <3>1. /\ a[1] \in Operations /\ a[2] \in Operations /\ a[2][1] = a[1][1]
            /\ a[2][2] >= a[1][2]
        BY <1>3, <1>4
      <3> QED
        BY <1>1, <1>5, <2>1, <3>1, ChainReached
    <2>2. \A a \in G : a[1] \in S => a[2] \in S
      BY <1>5 DEF Closed
    <2> QED
      BY <1>2, <2>1, <2>2 DEF Closed
  <1>6. \A n, m : Reaches(Intervals(c), n, m) => Reaches(G, n, m)
    BY <1>5 DEF Reaches
  <1>7. ASSUME NEW a \in Intervals(c), Reaches(G, a[2], a[1]) PROVE FALSE
    <2>1. CASE a \in G
      BY <1>1, <1>7, <2>1 DEF NoCycle
    <2>2. CASE a \in Revisits
      <3>1. /\ a[1] \in Operations /\ a[2] \in Operations /\ a[1] # a[2]
            /\ a[2][1] = a[1][1] /\ a[2][2] >= a[1][2]
        BY <1>3, <1>4, <2>2
      <3>2. Reaches(G, a[1], a[2])
        BY <1>1, <3>1, ChainReached DEF Reaches
      <3>3. a[1] \in Nodes /\ a[2] \in Nodes
        BY <1>4, <3>1
      <3> QED
        BY <1>1, <1>7, <3>1, <3>2, <3>3, OneWay
    <2> QED
      BY <1>2, <2>1, <2>2
  <1>8. NoCycle(Intervals(c))
    BY <1>6, <1>7 DEF NoCycle
  <1>9. Revisits \subseteq Nodes \X Nodes
    BY <1>3, <1>4
  <1> QED
    BY <1>1, <1>2, <1>8, <1>9

\* The arcs of the constraint model: which there are, and what they take.
LEMMA IntervalWeights ==
    ASSUME problem \in Problems, NEW c, Decided(c), NEW a \in Intervals(c)
    PROVE  /\ IntervalWeight(a) \in Nat
           /\ \/ \E t \in Trains : a = <<Source, First(t)>> /\ IntervalWeight(a) = problem.release[t]
              \/ /\ a[1] \in Operations /\ (a[2] \in Operations \/ a[2] = Sink)
                 /\ IntervalWeight(a) >= Proc(a[1])
                 /\ IntervalWeight(a) <= Proc(a[1]) + problem.headway
  <1>1. problem.headway \in Nat /\ \A n \in Operations : Proc(n) \in Nat
    BY Weights
  <1>2. \A n \in Operations : n # Source /\ n # Sink
    BY ProblemTyping DEF Source, Sink
  <1>3. CASE \E t \in Trains : a = <<Source, First(t)>>
    <2>1. PICK t \in Trains : a = <<Source, First(t)>>
      BY <1>3
    <2>2. IntervalWeight(a) = problem.release[t]
      BY <2>1, Weights DEF IntervalWeight
    <2>3. problem.release[t] \in Nat
      BY ProblemsAssumption DEF ProblemsAssumption, Trains
    <2> QED
      BY <2>1, <2>2, <2>3
  <1>4. CASE \E t \in Trains : a = <<Final(t), Sink>>
    <2>1. PICK n \in Operations : a = <<n, Sink>>
      BY <1>4, ProblemTyping
    <2>2. IntervalWeight(a) = Proc(n)
      BY <2>1, Weights DEF IntervalWeight
    <2>3. Proc(n) \in Nat /\ Proc(n) <= Proc(n) + problem.headway
      BY <1>1
    <2> QED
      BY <2>1, <2>2, <2>3
  <1>5. CASE a \in Operations \X Operations
    <2>1. PICK n \in Operations, m \in Operations : a = <<n, m>>
      BY <1>5
    <2>2. IntervalWeight(a) = Proc(n) \/ IntervalWeight(a) = Proc(n) + problem.headway
      BY <2>1, Weights DEF IntervalWeight
    <2> QED
      BY <1>1, <2>1, <2>2
  <1> QED
    BY <1>3, <1>4, <1>5
    DEF Intervals, FixedArcs, Revisits, Decided, Alternatives, Pairs, Flip

\* The makespan solve_optimal finds for a choice is that of the longest paths.
LEMMA EarliestIsLongest ==
    ASSUME problem \in Problems, NEW c, Decided(c)
    PROVE  \E w, r : /\ w \in [Intervals(c) -> Nat] /\ w = [a \in Intervals(c) |-> IntervalWeight(a)]
                     /\ \A a \in Intervals(c) : w[a] = IntervalWeight(a)
                     /\ LongestPaths(Intervals(c), w, r) /\ EarliestMakespan(c) = r[Sink]
  <1> DEFINE arcs == FixedArcs \cup Revisits \cup c
             Fits(r) == r = [n \in Nodes |-> Max({0} \cup {r[a[1]] + IntervalWeight(a) :
                                                    a \in {b \in arcs : b[2] = n}})]
  <1>1. PICK w : w = [a \in Intervals(c) |-> IntervalWeight(a)]
    OBVIOUS
  <1>2. /\ Intervals(c) \subseteq Nodes \X Nodes /\ NoCycle(Intervals(c))
        /\ w \in [Intervals(c) -> Nat] /\ \A a \in Intervals(c) : w[a] = IntervalWeight(a)
    BY <1>1, IntervalsAcyclic, IntervalWeights
  <1>3. Intervals(c) = arcs
    BY DEF Intervals
  <1>4. ASSUME NEW f PROVE LongestPaths(Intervals(c), w, f) <=> Fits(f)
    <2>1. ASSUME NEW n \in Nodes
          PROVE  {f[a[1]] + w[a] : a \in {b \in Intervals(c) : b[2] = n}}
                   = {f[a[1]] + IntervalWeight(a) : a \in {b \in arcs : b[2] = n}}
      <3> HIDE DEF arcs
      <3> QED
        BY <1>2, <1>3
    <2>2. [n \in Nodes |-> Max({0} \cup {f[a[1]] + w[a] : a \in {b \in Intervals(c) : b[2] = n}})]
            = [n \in Nodes |-> Max({0} \cup {f[a[1]] + IntervalWeight(a) :
                                            a \in {b \in arcs : b[2] = n}})]
      <3> HIDE DEF arcs
      <3> QED
        BY <2>1
    <2> QED
      BY <2>2 DEF LongestPaths
  <1>5. PICK f : Fits(f)
    <2>1. PICK f : LongestPaths(Intervals(c), w, f)
      BY <1>2, PathsExist
    <2> HIDE DEF Fits
    <2> QED
      BY <1>4, <2>1
  <1> DEFINE r == CHOOSE h : Fits(h)
  <1>6. Fits(r)
    <2> HIDE DEF Fits
    <2> QED
      BY <1>5
  <1>7. EarliestMakespan(c) = r[Sink]
    BY DEF EarliestMakespan
  <1> HIDE DEF Fits, r
  <1>8. LongestPaths(Intervals(c), w, r)
    BY <1>4, <1>6
  <1> QED
    BY <1>1, <1>2, <1>7, <1>8

\* Unless a train comes back to a resource, that is the makespan of the choice.
LEMMA SameModel ==
    ASSUME problem \in Problems, NEW c, Decided(c), Revisits = {}
    PROVE  EarliestMakespan(c) = Makespan(c)
  <1>1. PICK arcs : arcs = FixedArcs \cup c
    OBVIOUS
  <1>2. Intervals(c) = arcs /\ arcs \subseteq FixedArcs \cup Alternatives /\ NoCycle(arcs)
    BY <1>1 DEF Intervals, Decided
  <1>3. \A a \in arcs : IntervalWeight(a) = Weight(a)
    <2> SUFFICES ASSUME NEW a \in arcs PROVE IntervalWeight(a) = Weight(a)
      OBVIOUS
    <2>1. CASE a[1] # Source /\ a[2] # Sink /\ Resource(a[1]) = Resource(a[2])
      <3>1. a \in Operations \X Operations
        BY <1>1, <2>1 DEF FixedArcs, Decided, Alternatives, Pairs, Flip
      <3>2. PICK n \in Operations, m \in Operations : a = <<n, m>>
        BY <3>1
      <3>3. CASE n[1] = m[1]
        <4>1. CASE m[2] = n[2] + 1
          <5>1. n[2] < m[2]
            BY <4>1, ProblemTyping
          <5>2. a \in Revisits
            BY <2>1, <3>2, <3>3, <5>1 DEF Revisits
          <5> QED
            BY <5>2
        <4>2. CASE a \in c
          <5>1. \E p \in Pairs : a = p \/ a = Flip(p)
            BY <4>2 DEF Decided, Alternatives
          <5>2. n[1] < m[1] \/ m[1] < n[1]
            BY <3>2, <5>1 DEF Pairs, Flip
          <5>3. n[1] \in Nat /\ m[1] \in Nat
            BY ProblemTyping
          <5> QED
            BY <3>3, <5>2, <5>3
        <4>3. a \in FixedArcs => m[2] = n[2] + 1
          <5>1. n # Source /\ m # Sink
            BY <2>1, <3>2
          <5> QED
            BY <3>2, <5>1 DEF FixedArcs
        <4> QED
          BY <1>1, <4>1, <4>2, <4>3
      <3>4. CASE n[1] # m[1]
        <4>1. Weight(a) = Proc(n) + problem.headway
          BY <3>2, <3>4, Weights
        <4> QED
          BY <2>1, <3>2, <4>1 DEF IntervalWeight
      <3> QED
        BY <3>3, <3>4
    <2> QED
      BY <2>1 DEF IntervalWeight
  <1>4. PICK w, r : /\ w \in [arcs -> Nat] /\ w = [a \in arcs |-> IntervalWeight(a)]
                    /\ \A a \in arcs : w[a] = IntervalWeight(a)
                    /\ LongestPaths(arcs, w, r) /\ EarliestMakespan(c) = r[Sink]
    BY <1>2, EarliestIsLongest
  <1>5. arcs \subseteq Nodes \X Nodes
    BY <1>2, IntervalsAcyclic
  <1>6. r \in [Nodes -> Nat] /\ \A a \in arcs : r[a[2]] >= r[a[1]] + w[a]
    BY <1>2, <1>4, <1>5, PathsAreLongest
  <1>7. PICK s : /\ s = Start(c) /\ s \in [Nodes -> Nat]
                 /\ \A a \in arcs : s[a[2]] >= s[a[1]] + Weight(a)
                 /\ \A n \in Nodes : s[n] <= r[n]
    <2>1. \A a \in arcs : r[a[2]] >= r[a[1]] + Weight(a)
      BY <1>3, <1>4, <1>6
    <2> QED
      BY <1>1, <1>6, <2>1, StartsAreLeast
  <1>8. \A n \in Nodes : r[n] <= s[n]
    <2>1. \A a \in arcs : s[a[2]] >= s[a[1]] + w[a]
      BY <1>3, <1>4, <1>7
    <2> QED
      BY <1>2, <1>4, <1>5, <1>7, <2>1, PathsAreLeast
  <1>9. Sink \in Nodes
    BY DEF Nodes
  <1>10. r[Sink] = s[Sink]
    <2>1. r[Sink] \in Nat /\ s[Sink] \in Nat /\ r[Sink] <= s[Sink] /\ s[Sink] <= r[Sink]
      BY <1>6, <1>7, <1>8, <1>9
    <2> QED
      BY <2>1
  <1> QED
    BY <1>4, <1>7, <1>10 DEF Makespan

-----------------------------------------------------------------------------
(* Sums over the operations.  f[i] is the sum of g over the first i of s.   *)
Adds(N, s, g, f) ==
    /\ f \in [0..N -> Nat] /\ f[0] = 0
    /\ \A i \in 1..N : f[i] = f[i - 1] + g[s[i]]

\* There are such sums,
LEMMA SumsExist ==
    ASSUME NEW N \in Nat, NEW S, NEW s \in [1..N -> S], NEW g \in [S -> Nat]
    PROVE  \E f : Adds(N, s, g, f)
  <1> DEFINE Summed(k) == \E f \in [0..k -> Nat] :
                            f[0] = 0 /\ \A i \in 1..k : f[i] = f[i - 1] + g[s[i]]
             K == {k \in Nat : k <= N => Summed(k)}
  <1>1. 0 \in K
    <2>1. PICK f : f = [i \in 0..0 |-> 0]
      OBVIOUS
    <2>2. f \in [0..0 -> Nat] /\ f[0] = 0 /\ \A i \in 1..0 : f[i] = f[i - 1] + g[s[i]]
      BY <2>1
    <2> QED
      BY <2>2
  <1>2. ASSUME NEW k \in Nat, k \in K PROVE k + 1 \in K
    <2> SUFFICES ASSUME k + 1 <= N PROVE Summed(k + 1)
      <3> HIDE DEF Summed
      <3> QED
        OBVIOUS
    <2>0. Summed(k)
      <3> HIDE DEF Summed
      <3>1. k <= N
        OBVIOUS
      <3> QED
        BY <1>2, <3>1
    <2>1. PICK f \in [0..k -> Nat] : f[0] = 0 /\ \A i \in 1..k : f[i] = f[i - 1] + g[s[i]]
      BY <2>0
    <2>2. g[s[k + 1]] \in Nat
      OBVIOUS
    <2>3. PICK e : e = [i \in 0..(k + 1) |-> IF i <= k THEN f[i] ELSE f[k] + g[s[k + 1]]]
      OBVIOUS
    <2>4. e \in [0..(k + 1) -> Nat] /\ e[0] = 0
      BY <2>1, <2>2, <2>3
    <2>5. ASSUME NEW i \in 1..(k + 1) PROVE e[i] = e[i - 1] + g[s[i]]
      <3>1. CASE i <= k
        <4>1. e[i] = f[i] /\ e[i - 1] = f[i - 1] /\ i \in 1..k
          BY <2>3, <3>1
        <4> QED
          BY <2>1, <4>1
      <3>2. CASE i = k + 1
        <4>1. e[i] = f[k] + g[s[k + 1]] /\ e[i - 1] = f[k]
          BY <2>3, <3>2
        <4> QED
          BY <3>2, <4>1
      <3> QED
        BY <3>1, <3>2
    <2> QED
      BY <2>4, <2>5
  <1> HIDE DEF K
  <1>3. Nat \subseteq K
    BY <1>1, <1>2, NumbersReached
  <1>4. Summed(N)
    <2> HIDE DEF Summed
    <2> QED
      BY <1>3 DEF K
  <1> QED
    BY <1>4 DEF Adds

\* and a recursive definition of them defines nothing else.
LEMMA SumsDefined ==
    ASSUME NEW N \in Nat, NEW S, NEW s \in [1..N -> S], NEW g \in [S -> Nat], NEW f
    PROVE  f = [i \in 0..N |-> IF i = 0 THEN 0 ELSE f[i - 1] + g[s[i]]] <=> Adds(N, s, g, f)
  <1>1. ASSUME f = [i \in 0..N |-> IF i = 0 THEN 0 ELSE f[i - 1] + g[s[i]]]
        PROVE  Adds(N, s, g, f)
    <2>1. PICK e : e = [i \in 0..N |-> IF i = 0 THEN 0 ELSE f[i - 1] + g[s[i]]]
      OBVIOUS
    <2>2. f = e
      BY <1>1, <2>1
    <2>3. e[0] = 0 /\ \A i \in 1..N : e[i] = f[i - 1] + g[s[i]]
      BY <2>1
    <2>4. f[0] = 0 /\ \A i \in 1..N : f[i] = f[i - 1] + g[s[i]]
      BY <2>2, <2>3
    <2> DEFINE K == {k \in Nat : k <= N => f[k] \in Nat}
    <2>5. 0 \in K
      BY <2>4
    <2>6. ASSUME NEW k \in Nat, k \in K PROVE k + 1 \in K
      <3> SUFFICES ASSUME k + 1 <= N PROVE f[k + 1] \in Nat
        OBVIOUS
      <3>1. f[k] \in Nat /\ k + 1 \in 1..N /\ (k + 1) - 1 = k
        BY <2>6
      <3>2. f[k + 1] = f[k] + g[s[k + 1]] /\ g[s[k + 1]] \in Nat
        BY <2>4, <3>1
      <3> QED
        BY <3>1, <3>2
    <2> HIDE DEF K
    <2>7. Nat \subseteq K
      BY <2>5, <2>6, NumbersReached
    <2>8. \A i \in 0..N : f[i] \in Nat
      BY <2>7 DEF K
    <2>9. DOMAIN e = 0..N /\ e = [i \in 0..N |-> e[i]]
      BY <2>1
    <2>10. f \in [0..N -> Nat]
      BY <2>2, <2>8, <2>9
    <2> QED
      BY <2>4, <2>10 DEF Adds
  <1>2. ASSUME Adds(N, s, g, f)
        PROVE  f = [i \in 0..N |-> IF i = 0 THEN 0 ELSE f[i - 1] + g[s[i]]]
    <2>1. /\ f \in [0..N -> Nat] /\ f[0] = 0
          /\ \A i \in 1..N : f[i] = f[i - 1] + g[s[i]]
      BY <1>2 DEF Adds
    <2>2. \A i \in 0..N : f[i] = IF i = 0 THEN 0 ELSE f[i - 1] + g[s[i]]
      <3>1. \A i \in 0..N : i = 0 \/ i \in 1..N
        OBVIOUS
      <3> QED
        BY <2>1, <3>1
    <2> QED
      BY <2>1, <2>2
  <1> QED
    BY <1>1, <1>2

\* What is nowhere less has no less a sum.
LEMMA SumMonotone ==
    ASSUME NEW N \in Nat, NEW S, NEW s \in [1..N -> S], NEW g \in [S -> Nat], NEW h \in [S -> Nat],
           NEW f, NEW e, Adds(N, s, g, f), Adds(N, s, h, e), \A x \in S : g[x] <= h[x]
    PROVE  f[N] <= e[N]
  <1>1. /\ f \in [0..N -> Nat] /\ e \in [0..N -> Nat] /\ f[0] = 0 /\ e[0] = 0
        /\ \A i \in 1..N : f[i] = f[i - 1] + g[s[i]] /\ e[i] = e[i - 1] + h[s[i]]
    BY DEF Adds
  <1> DEFINE K == {k \in Nat : k <= N => f[k] <= e[k]}
  <1>2. 0 \in K
    BY <1>1
  <1>3. ASSUME NEW k \in Nat, k \in K PROVE k + 1 \in K
    <2> SUFFICES ASSUME k + 1 <= N PROVE f[k + 1] <= e[k + 1]
      OBVIOUS
    <2>1. k \in 0..N /\ k + 1 \in 1..N /\ (k + 1) - 1 = k /\ f[k] <= e[k]
      BY <1>3
    <2>2. PICK x, y, u, v \in Nat :
            x = f[k] /\ y = e[k] /\ u = g[s[k + 1]] /\ v = h[s[k + 1]]
      BY <1>1, <2>1
    <2>3. f[k + 1] = x + u /\ e[k + 1] = y + v
      BY <1>1, <2>1, <2>2
    <2>4. u <= v
      BY <2>1, <2>2
    <2> QED
      BY <2>1, <2>2, <2>3, <2>4
  <1> HIDE DEF K
  <1>4. Nat \subseteq K
    BY <1>2, <1>3, NumbersReached
  <1> QED
    BY <1>4 DEF K

\* A sum of nothing but zeros.
LEMMA SumOfNothing ==
    ASSUME NEW N \in Nat, NEW S, NEW s \in [1..N -> S], NEW g \in [S -> Nat],
           NEW f, Adds(N, s, g, f), \A x \in S : g[x] = 0
    PROVE  f[N] = 0
  <1>1. f[0] = 0 /\ \A i \in 1..N : f[i] = f[i - 1] + g[s[i]]
    BY DEF Adds
  <1> DEFINE K == {k \in Nat : k <= N => f[k] = 0}
  <1>2. 0 \in K
    BY <1>1
  <1>3. ASSUME NEW k \in Nat, k \in K PROVE k + 1 \in K
    <2> SUFFICES ASSUME k + 1 <= N PROVE f[k + 1] = 0
      OBVIOUS
    <2>1. k + 1 \in 1..N /\ (k + 1) - 1 = k /\ f[k] = 0
      BY <1>3
    <2>2. g[s[k + 1]] = 0 /\ f[k + 1] = f[k] + g[s[k + 1]]
      BY <1>1, <2>1
    <2> QED
      BY <2>1, <2>2
  <1> HIDE DEF K
  <1>4. Nat \subseteq K
    BY <1>2, <1>3, NumbersReached
  <1> QED
    BY <1>4 DEF K

\* The operations in the order in which they are summed up.
Summands == SetToSeq(Operations)

\* x is the sum of g over all operations.
Totals(g, x) == \E f : Adds(Cardinality(Operations), Summands, g, f) /\ x = f[Cardinality(Operations)]

\* Every operation is summed up once.
LEMMA OperationsListed ==
    ASSUME problem \in Problems
    PROVE  /\ Cardinality(Operations) \in Nat
           /\ Summands \in [1..Cardinality(Operations) -> Operations]
           /\ \A n \in Operations : \E i \in 1..Cardinality(Operations) :
                 n = Summands[i] /\ \A j \in 1..Cardinality(Operations) : j # i => Summands[j] # n
  <1>1. IsFiniteSet(Operations)
    <2>1. Operations \in SUBSET Nodes
      BY DEF Nodes
    <2> QED
      BY <2>1, FiniteGraph, FS_Subset
  <1>2. PICK N \in Nat : N = Cardinality(Operations) /\ ExistsBijection(1..N, Operations)
    BY <1>1, FS_CardinalityType
  <1>3. \E f \in [1..N -> Operations] : IsInjective(f)
    BY <1>2 DEF ExistsBijection, Bijection, Injection
  <1>4. Summands \in [1..N -> Operations] /\ IsInjective(Summands)
    <2>1. Summands = CHOOSE f \in [1..N -> Operations] : IsInjective(f)
      BY <1>2 DEF Summands, SetToSeq
    <2> QED
      BY <1>3, <2>1
  <1>5. Summands \in Surjection(1..N, Operations)
    <2>1. Summands \in Injection(1..N, Operations)
      BY <1>4 DEF Injection
    <2>2. Cardinality(1..N) = N
      BY FS_Interval
    <2> QED
      BY <1>1, <1>2, <2>1, <2>2, FS_Injection
  <1>6. ASSUME NEW n \in Operations
        PROVE  \E i \in 1..N : n = Summands[i] /\ \A j \in 1..N : j # i => Summands[j] # n
    <2>1. PICK i \in 1..N : n = Summands[i]
      BY <1>5 DEF Surjection
    <2>2. \A j \in 1..N : j # i => Summands[j] # n
      BY <1>4, <2>1 DEF IsInjective
    <2> QED
      BY <2>1, <2>2
  <1> QED
    BY <1>2, <1>4, <1>6

\* What the operations are given has a total,
LEMMA TotalExists ==
    ASSUME problem \in Problems, NEW g \in [Operations -> Nat]
    PROVE  \E x \in Nat : Totals(g, x)
  <1>0. PICK N \in Nat : N = Cardinality(Operations)
    BY OperationsListed
  <1>1. PICK s \in [1..N -> Operations] : N = Cardinality(Operations) /\ s = Summands
    BY <1>0, OperationsListed
  <1>2. PICK f : Adds(N, s, g, f)
    BY SumsExist
  <1>3. f[N] \in Nat
    BY <1>2 DEF Adds
  <1> QED
    BY <1>1, <1>2, <1>3 DEF Totals

\* which is no less when nothing is less,
LEMMA TotalIsMonotone ==
    ASSUME problem \in Problems, NEW g \in [Operations -> Nat], NEW h \in [Operations -> Nat],
           NEW x, NEW y, Totals(g, x), Totals(h, y), \A n \in Operations : g[n] <= h[n]
    PROVE  x <= y
  <1>0. PICK N \in Nat : N = Cardinality(Operations)
    BY OperationsListed
  <1>1. PICK s \in [1..N -> Operations] : N = Cardinality(Operations) /\ s = Summands
    BY <1>0, OperationsListed
  <1>2. PICK f : Adds(N, s, g, f) /\ x = f[N]
    BY <1>1 DEF Totals
  <1>3. PICK e : Adds(N, s, h, e) /\ y = e[N]
    BY <1>1 DEF Totals
  <1>4. f[N] <= e[N]
    BY <1>2, <1>3, SumMonotone
  <1> QED
    BY <1>2, <1>3, <1>4

\* grows as much as one of them does,
LEMMA TotalGrows ==
    ASSUME problem \in Problems, NEW g \in [Operations -> Nat], NEW h \in [Operations -> Nat],
           NEW x, NEW y, Totals(g, x), Totals(h, y), NEW m \in Operations, NEW d \in Nat,
           h[m] = g[m] + d, \A n \in Operations : n # m => h[n] = g[n]
    PROVE  y = x + d
  <1>0. PICK N \in Nat : N = Cardinality(Operations)
    BY OperationsListed
  <1>1. PICK s \in [1..N -> Operations] :
            /\ N = Cardinality(Operations) /\ s = Summands
            /\ \E i \in 1..N : m = s[i] /\ \A j \in 1..N : j # i => s[j] # m
    BY <1>0, OperationsListed
  <1>2. PICK f : Adds(N, s, g, f) /\ x = f[N]
    BY <1>1 DEF Totals
  <1>3. PICK e : Adds(N, s, h, e) /\ y = e[N]
    BY <1>1 DEF Totals
  <1>4. PICK j \in 1..N : m = s[j] /\ \A i \in 1..N : i # j => s[i] # m
    BY <1>1
  <1>5. h[s[j]] = g[s[j]] + d /\ \A i \in 1..N : i # j => h[s[i]] = g[s[i]]
    BY <1>4
  <1>6. /\ f \in [0..N -> Nat] /\ e \in [0..N -> Nat] /\ f[0] = 0 /\ e[0] = 0
        /\ \A i \in 1..N : f[i] = f[i - 1] + g[s[i]] /\ e[i] = e[i - 1] + h[s[i]]
    BY <1>2, <1>3 DEF Adds
  <1> DEFINE K == {k \in Nat : k <= N => e[k] = f[k] + (IF k >= j THEN d ELSE 0)}
  <1>7. 0 \in K
    BY <1>6
  <1>8. ASSUME NEW k \in Nat, k \in K PROVE k + 1 \in K
    <2> SUFFICES ASSUME k + 1 <= N PROVE e[k + 1] = f[k + 1] + (IF k + 1 >= j THEN d ELSE 0)
      OBVIOUS
    <2>1. k \in 0..N /\ k + 1 \in 1..N /\ (k + 1) - 1 = k
      OBVIOUS
    <2>2. e[k] = f[k] + (IF k >= j THEN d ELSE 0)
      BY <1>8, <2>1
    <2>3. PICK a, b, u, v \in Nat :
            a = f[k] /\ b = e[k] /\ u = g[s[k + 1]] /\ v = h[s[k + 1]]
      BY <1>6, <2>1
    <2>4. f[k + 1] = a + u /\ e[k + 1] = b + v
      BY <1>6, <2>1, <2>3
    <2>5. CASE k + 1 = j
      <3>1. b = a
        BY <2>2, <2>3, <2>5
      <3>2. h[s[k + 1]] = g[s[k + 1]] + d
        BY <1>5, <2>5, Zenon
      <3>3. v = u + d
        BY <2>3, <3>2
      <3> QED
        BY <2>3, <2>4, <2>5, <3>1, <3>3
    <2>6. CASE k + 1 # j
      <3>1. v = u
        BY <1>5, <2>1, <2>3, <2>6
      <3>2. k >= j <=> k + 1 >= j
        BY <2>6
      <3>3. CASE k >= j
        BY <2>2, <2>3, <2>4, <3>1, <3>2, <3>3
      <3>4. CASE ~(k >= j)
        BY <2>2, <2>3, <2>4, <3>1, <3>2, <3>4
      <3> QED
        BY <3>3, <3>4
    <2> QED
      BY <2>5, <2>6
  <1> HIDE DEF K
  <1>9. Nat \subseteq K
    BY <1>7, <1>8, NumbersReached
  <1>10. e[N] = f[N] + d
    BY <1>9 DEF K
  <1> QED
    BY <1>2, <1>3, <1>10

\* and by as much for each of them when all grow by the same.
LEMMA TotalShifted ==
    ASSUME problem \in Problems, NEW g \in [Operations -> Nat], NEW h \in [Operations -> Nat],
           NEW x, NEW y, Totals(g, x), Totals(h, y), NEW d \in Nat,
           \A n \in Operations : h[n] = g[n] + d
    PROVE  y = x + d * Cardinality(Operations)
  <1>0. PICK N \in Nat : N = Cardinality(Operations)
    BY OperationsListed
  <1>1. PICK s \in [1..N -> Operations] : N = Cardinality(Operations) /\ s = Summands
    BY <1>0, OperationsListed
  <1>2. PICK f : Adds(N, s, g, f) /\ x = f[N]
    BY <1>1 DEF Totals
  <1>3. PICK e : Adds(N, s, h, e) /\ y = e[N]
    BY <1>1 DEF Totals
  <1>4. /\ f \in [0..N -> Nat] /\ e \in [0..N -> Nat] /\ f[0] = 0 /\ e[0] = 0
        /\ \A i \in 1..N : f[i] = f[i - 1] + g[s[i]] /\ e[i] = e[i - 1] + h[s[i]]
    BY <1>2, <1>3 DEF Adds
  <1> DEFINE K == {k \in Nat : k <= N => e[k] = f[k] + d * k}
  <1>5. 0 \in K
    BY <1>4
  <1>6. ASSUME NEW k \in Nat, k \in K PROVE k + 1 \in K
    <2> SUFFICES ASSUME k + 1 <= N PROVE e[k + 1] = f[k + 1] + d * (k + 1)
      OBVIOUS
    <2>1. k \in 0..N /\ k + 1 \in 1..N /\ (k + 1) - 1 = k /\ e[k] = f[k] + d * k
      BY <1>6
    <2>2. PICK a, b, u, v \in Nat :
            a = f[k] /\ b = e[k] /\ u = g[s[k + 1]] /\ v = h[s[k + 1]]
      BY <1>4, <2>1
    <2>3. f[k + 1] = a + u /\ e[k + 1] = b + v
      BY <1>4, <2>1, <2>2
    <2>4. v = u + d
      BY <2>1, <2>2
    <2>5. d * k \in Int /\ d * (k + 1) = d * k + d
      OBVIOUS
    <2>6. PICK p \in Int : p = d * k
      BY <2>5
    <2>7. b = a + p /\ d * (k + 1) = p + d
      BY <2>1, <2>2, <2>5, <2>6
    <2>8. b + v = (a + u) + (p + d)
      BY <2>4, <2>7
    <2> QED
      BY <2>3, <2>7, <2>8
  <1> HIDE DEF K
  <1>7. Nat \subseteq K
    BY <1>5, <1>6, NumbersReached
  <1>8. e[N] = f[N] + d * N
    BY <1>7 DEF K
  <1> QED
    BY <1>1, <1>2, <1>3, <1>8

\* The total of nothing.
LEMMA TotalOfNothing ==
    ASSUME problem \in Problems, NEW g \in [Operations -> Nat], NEW x, Totals(g, x),
           \A n \in Operations : g[n] = 0
    PROVE  x = 0
  <1>0. PICK N \in Nat : N = Cardinality(Operations)
    BY OperationsListed
  <1>1. PICK s \in [1..N -> Operations] : N = Cardinality(Operations) /\ s = Summands
    BY <1>0, OperationsListed
  <1>2. PICK f : Adds(N, s, g, f) /\ x = f[N]
    BY <1>1 DEF Totals
  <1> QED
    BY <1>2, SumOfNothing

\* The totals the model speaks of: the running times of all trains,
LEMMA RunningTimes ==
    ASSUME problem \in Problems
    PROVE  Totals([n \in Operations |-> Proc(n)], SumOverOperations(Proc))
  <1>0. PICK N \in Nat : N = Cardinality(Operations)
    BY OperationsListed
  <1>1. PICK s \in [1..N -> Operations] : N = Cardinality(Operations) /\ s = Summands
    BY <1>0, OperationsListed
  <1>2. PICK g \in [Operations -> Nat] :
            g = [n \in Operations |-> Proc(n)] /\ \A n \in Operations : g[n] = Proc(n)
    <2>1. [n \in Operations |-> Proc(n)] \in [Operations -> Nat]
      BY Weights
    <2> QED
      BY <2>1
  <1> DEFINE Fits(f) == f = [i \in 0..N |-> IF i = 0 THEN 0 ELSE f[i - 1] + Proc(s[i])]
  <1>3. ASSUME NEW f PROVE Fits(f) <=> Adds(N, s, g, f)
    <2>1. \A i \in 0..N : i # 0 => s[i] \in Operations /\ g[s[i]] = Proc(s[i])
      BY <1>2
    <2>2. [i \in 0..N |-> IF i = 0 THEN 0 ELSE f[i - 1] + Proc(s[i])]
            = [i \in 0..N |-> IF i = 0 THEN 0 ELSE f[i - 1] + g[s[i]]]
      BY <2>1
    <2>3. f = [i \in 0..N |-> IF i = 0 THEN 0 ELSE f[i - 1] + g[s[i]]] <=> Adds(N, s, g, f)
      BY SumsDefined
    <2> HIDE DEF Fits
    <2> QED
      BY <2>2, <2>3 DEF Fits
  <1> DEFINE sum == CHOOSE f : Fits(f)
  <1>4. Adds(N, s, g, sum)
    <2>1. PICK f : Adds(N, s, g, f)
      BY SumsExist
    <2> HIDE DEF Fits
    <2> QED
      BY <1>3, <2>1
  <1>5. SumOverOperations(Proc) = sum[N]
    BY <1>1 DEF SumOverOperations, Summands
  <1> HIDE DEF sum, Fits
  <1> QED
    BY <1>1, <1>2, <1>4, <1>5 DEF Totals

\* and those of one train.
LEMMA RunningTimesOf ==
    ASSUME problem \in Problems, NEW t
    PROVE  Totals([n \in Operations |-> IF n[1] = t THEN Proc(n) ELSE 0],
                  SumOverOperations(LAMBDA n : IF n[1] = t THEN Proc(n) ELSE 0))
  <1>0. PICK N \in Nat : N = Cardinality(Operations)
    BY OperationsListed
  <1>1. PICK s \in [1..N -> Operations] : N = Cardinality(Operations) /\ s = Summands
    BY <1>0, OperationsListed
  <1>2. PICK g \in [Operations -> Nat] :
            /\ g = [n \in Operations |-> IF n[1] = t THEN Proc(n) ELSE 0]
            /\ \A n \in Operations : g[n] = IF n[1] = t THEN Proc(n) ELSE 0
    <2>1. [n \in Operations |-> IF n[1] = t THEN Proc(n) ELSE 0] \in [Operations -> Nat]
      BY Weights
    <2> QED
      BY <2>1
  <1> DEFINE Fits(f) == f = [i \in 0..N |-> IF i = 0 THEN 0
                                ELSE f[i - 1] + (IF s[i][1] = t THEN Proc(s[i]) ELSE 0)]
  <1>3. ASSUME NEW f PROVE Fits(f) <=> Adds(N, s, g, f)
    <2>1. \A i \in 0..N : i # 0 => g[s[i]] = IF s[i][1] = t THEN Proc(s[i]) ELSE 0
      BY <1>2
    <2>2. [i \in 0..N |-> IF i = 0 THEN 0
                ELSE f[i - 1] + (IF s[i][1] = t THEN Proc(s[i]) ELSE 0)]
            = [i \in 0..N |-> IF i = 0 THEN 0 ELSE f[i - 1] + g[s[i]]]
      BY <2>1
    <2>3. f = [i \in 0..N |-> IF i = 0 THEN 0 ELSE f[i - 1] + g[s[i]]] <=> Adds(N, s, g, f)
      BY SumsDefined
    <2> HIDE DEF Fits
    <2> QED
      BY <2>2, <2>3 DEF Fits
  <1> DEFINE sum == CHOOSE f : Fits(f)
  <1>4. Adds(N, s, g, sum)
    <2>1. PICK f : Adds(N, s, g, f)
      BY SumsExist
    <2> HIDE DEF Fits
    <2> QED
      BY <1>3, <2>1
  <1>5. SumOverOperations(LAMBDA n : IF n[1] = t THEN Proc(n) ELSE 0) = sum[N]
    BY <1>1 DEF SumOverOperations, Summands
  <1> HIDE DEF sum, Fits
  <1> QED
    BY <1>1, <1>2, <1>4, <1>5 DEF Totals

\* A total is a number.
LEMMA TotalIsNumber ==
    ASSUME problem \in Problems, NEW g \in [Operations -> Nat], NEW x, Totals(g, x)
    PROVE  x \in Nat
  <1>0. PICK N \in Nat : N = Cardinality(Operations)
    BY OperationsListed
  <1>1. PICK f : Adds(N, Summands, g, f) /\ x = f[N]
    BY <1>0 DEF Totals
  <1> QED
    BY <1>1 DEF Adds

\* The schedule of the constraint model for a choice: every arc is kept, and a
\* start is an arc's or is zero.
LEMMA IntervalPaths ==
    ASSUME problem \in Problems, NEW c, Decided(c)
    PROVE  \E r \in [Nodes -> Nat] :
              /\ EarliestMakespan(c) = r[Sink]
              /\ \A a \in Intervals(c) : r[a[2]] >= r[a[1]] + IntervalWeight(a)
              /\ \A n \in Nodes : r[n] = 0 \/ \E a \in Intervals(c) :
                                    a[2] = n /\ r[n] = r[a[1]] + IntervalWeight(a)
  <1>1. PICK arcs : arcs = Intervals(c) /\ arcs \subseteq Nodes \X Nodes /\ NoCycle(arcs)
    BY IntervalsAcyclic
  <1>2. PICK w, r : /\ w \in [arcs -> Nat] /\ \A a \in arcs : w[a] = IntervalWeight(a)
                    /\ LongestPaths(arcs, w, r) /\ EarliestMakespan(c) = r[Sink]
    BY <1>1, EarliestIsLongest
  <1>3. /\ r \in [Nodes -> Nat]
        /\ \A a \in arcs : r[a[2]] >= r[a[1]] + w[a]
        /\ \A n \in Nodes : r[n] = 0 \/ \E a \in arcs : a[2] = n /\ r[n] = r[a[1]] + w[a]
    BY <1>1, <1>2, PathsAreLongest
  <1>4. \A a \in arcs : r[a[2]] >= r[a[1]] + IntervalWeight(a)
    BY <1>2, <1>3
  <1>5. \A n \in Nodes : r[n] = 0 \/ \E a \in arcs : a[2] = n /\ r[n] = r[a[1]] + IntervalWeight(a)
    BY <1>2, <1>3
  <1> QED
    BY <1>1, <1>2, <1>3, <1>4, <1>5

\* No train is released after the latest.
LEMMA LatestOfReleases ==
    ASSUME problem \in Problems
    PROVE  LatestRelease \in Nat /\ \A t \in Trains : problem.release[t] <= LatestRelease
  <1> DEFINE V == {problem.release[t] : t \in Trains}
             S == {0} \cup V
             of == [t \in Trains |-> problem.release[t]]
  <1>1. problem.release \in [Trains -> Nat]
    BY ProblemsAssumption DEF ProblemsAssumption, Trains
  <1>2. IsFiniteSet(Trains)
    <2>1. problem.ops \in Seq(Seq(Operation) \ {<<>>})
      BY ProblemsAssumption DEF ProblemsAssumption
    <2>2. PICK n \in Nat : Trains = 1..n
      BY <2>1, LenProperties DEF Trains
    <2> QED
      BY <2>2, FS_Interval
  <1>3. IsFiniteSet(V)
    <2>1. of \in Surjection(Trains, V)
      BY DEF Surjection
    <2> HIDE DEF of, V
    <2> QED
      BY <1>2, <2>1, FS_Surjection
  <1>4. S \subseteq Nat /\ S \subseteq Int /\ S # {}
    BY <1>1
  <1>5. IsFiniteSet(S)
    <2>1. S = V \cup {0}
      OBVIOUS
    <2> HIDE DEF V, S
    <2> QED
      BY <1>3, <2>1, FS_AddElement
  <1>6. Max(S) \in S /\ \A y \in S : Max(S) >= y
    <2> HIDE DEF S
    <2> QED
      BY <1>4, <1>5, GreatestNumber DEF Max
  <1>7. LatestRelease = Max(S)
    BY DEF LatestRelease
  <1>8. \A t \in Trains : problem.release[t] \in S
    OBVIOUS
  <1> HIDE DEF S
  <1> QED
    BY <1>4, <1>6, <1>7, <1>8

\* What the operations that start before v take at most.
Spent(r, v) == [m \in Operations |-> IF r[m] < v THEN Proc(m) + problem.headway ELSE 0]

\* A start is late because of a release and of operations that started before
\* it, each of them once.
LEMMA StartIsExplained ==
    ASSUME problem \in Problems, NEW c, Decided(c), NEW r \in [Nodes -> Nat],
           \A n \in Nodes : r[n] = 0 \/ \E a \in Intervals(c) :
                                a[2] = n /\ r[n] = r[a[1]] + IntervalWeight(a)
    PROVE  \A n \in Nodes : \A x : Totals(Spent(r, r[n]), x) => r[n] <= LatestRelease + x
  <1> DEFINE explained(n) == \A x : Totals(Spent(r, r[n]), x) => r[n] <= LatestRelease + x
             T == {n \in Nodes : ~explained(n)}
  <1> SUFFICES ASSUME T # {} PROVE FALSE
    OBVIOUS
  <1>1. PICK n \in T : \A a \in Intervals(c) : a[2] = n => a[1] \notin T
    <2>1. T \in SUBSET Nodes /\ Intervals(c) \subseteq Nodes \X Nodes /\ NoCycle(Intervals(c))
      BY IntervalsAcyclic
    <2> HIDE DEF T
    <2> QED
      BY <2>1, FiniteGraph, HasFirst
  <1>2. n \in Nodes /\ ~explained(n)
    BY <1>1
  <1>3. PICK x : Totals(Spent(r, r[n]), x) /\ ~(r[n] <= LatestRelease + x)
    BY <1>2
  <1>4. \A m \in Operations : m \in Nodes /\ r[m] \in Nat /\ Proc(m) \in Nat
    BY Weights DEF Nodes
  <1>5. problem.headway \in Nat /\ LatestRelease \in Nat
    BY Weights, LatestOfReleases
  <1>6. \A v : Spent(r, v) \in [Operations -> Nat]
    BY <1>4, <1>5 DEF Spent
  <1>7. x \in Nat /\ r[n] \in Nat
    BY <1>2, <1>3, <1>6, TotalIsNumber
  <1>8. PICK a \in Intervals(c) : a[2] = n /\ r[n] = r[a[1]] + IntervalWeight(a)
    BY <1>2, <1>3, <1>5, <1>7
  <1>9. IntervalWeight(a) \in Nat
    BY IntervalWeights
  <1>10. CASE \E t \in Trains : a = <<Source, First(t)>> /\ IntervalWeight(a) = problem.release[t]
    <2>1. r[Source] = 0
      <3>1. \A b \in Intervals(c) : b[2] # Source
        <4>1. \A m \in Operations : m # Source
          BY ProblemTyping DEF Source
        <4>2. Source # Sink /\ \A t \in Trains : First(t) \in Operations
          BY ProblemTyping DEF Source, Sink
        <4> QED
          BY <4>1, <4>2, IntervalWeights
      <3> QED
        BY <3>1 DEF Nodes
    <2>2. PICK t \in Trains : a[1] = Source /\ IntervalWeight(a) = problem.release[t]
      BY <1>10
    <2>3. problem.release[t] <= LatestRelease
      BY LatestOfReleases
    <2>4. r[n] = IntervalWeight(a) /\ IntervalWeight(a) <= LatestRelease
      BY <1>8, <1>9, <2>1, <2>2, <2>3
    <2> QED
      BY <1>3, <1>5, <1>7, <2>4
  <1>11. CASE a[1] \in Operations /\ IntervalWeight(a) <= Proc(a[1]) + problem.headway
    <2>1. PICK m \in Operations : m = a[1] /\ IntervalWeight(a) <= Proc(m) + problem.headway
      BY <1>11
    <2>2. \A y : Totals(Spent(r, r[m]), y) => r[m] <= LatestRelease + y
      <3>1. m \in Nodes /\ m \notin T
        BY <1>1, <1>4, <1>8, <2>1
      <3> QED
        BY <3>1
    <2>3. PICK w \in Nat : w = IntervalWeight(a)
      BY <1>9
    <2>4. r[n] = r[m] + w /\ r[m] \in Nat
      BY <1>4, <1>8, <2>1, <2>3
    <2>5. PICK d \in Nat : d = Proc(m) + problem.headway
      BY <1>4, <1>5
    <2>6. CASE w = 0
      <3>1. r[n] = r[m]
        BY <2>4, <2>6
      <3> QED
        BY <1>3, <2>2, <3>1
    <2>7. CASE w # 0
      <3>1. PICK g \in [Operations -> Nat], y \in Nat : g = Spent(r, r[m]) /\ Totals(g, y)
        BY <1>6, TotalExists
      <3>2. PICK h \in [Operations -> Nat] :
                h[m] = d /\ \A k \in Operations : k # m => h[k] = g[k]
        <4>1. [k \in Operations |-> IF k = m THEN d ELSE g[k]] \in [Operations -> Nat]
          OBVIOUS
        <4> QED
          BY <4>1
      <3>3. PICK z \in Nat : Totals(h, z)
        BY TotalExists
      <3>4. g[m] = 0
        BY <2>4, <3>1 DEF Spent
      <3>5. z = y + d
        <4>1. h[m] = g[m] + d
          BY <3>2, <3>4
        <4> QED
          BY <3>1, <3>2, <3>3, <4>1, TotalGrows
      <3>6. PICK e \in [Operations -> Nat] : e = Spent(r, r[n])
        BY <1>6
      <3>7. ASSUME NEW k \in Operations PROVE h[k] <= e[k]
        <4>1. r[m] < r[n] /\ r[k] \in Nat /\ r[n] \in Nat /\ r[m] \in Nat
          BY <1>4, <1>7, <2>4, <2>7
        <4>2. e[k] = IF r[k] < r[n] THEN Proc(k) + problem.headway ELSE 0
          BY <3>6 DEF Spent
        <4>3. Proc(k) + problem.headway \in Nat
          BY <1>4, <1>5
        <4>4. CASE k = m
          <5>1. h[k] = d /\ e[k] = d
            BY <2>5, <3>2, <4>1, <4>2, <4>4
          <5> QED
            BY <5>1
        <4>5. CASE k # m
          <5>1. h[k] = IF r[k] < r[m] THEN Proc(k) + problem.headway ELSE 0
            BY <3>1, <3>2, <4>5 DEF Spent
          <5>2. r[k] < r[m] => r[k] < r[n]
            BY <4>1
          <5> QED
            BY <4>2, <4>3, <5>1, <5>2
        <4> QED
          BY <4>4, <4>5
      <3>8. z <= x
        BY <1>3, <3>3, <3>6, <3>7, TotalIsMonotone
      <3>9. r[m] <= LatestRelease + y
        BY <2>2, <3>1
      <3>10. PICK p \in Nat, l \in Nat : p = r[m] /\ l = LatestRelease
        BY <1>5, <2>4
      <3>11. p + w <= l + x
        BY <1>7, <2>1, <2>3, <2>5, <3>5, <3>8, <3>9, <3>10
      <3> QED
        BY <1>3, <2>4, <3>10, <3>11
    <2> QED
      BY <2>6, <2>7
  <1> QED
    BY <1>10, <1>11, IntervalWeights

\* The constraint model has room for every choice: the latest release and all
\* running times with a headway for each.
LEMMA WithinTheHorizon ==
    ASSUME problem \in Problems, NEW c, Decided(c)
    PROVE  EarliestMakespan(c) \in Nat /\ EarliestMakespan(c) <= Horizon
  <1>1. PICK r \in [Nodes -> Nat] :
            /\ EarliestMakespan(c) = r[Sink]
            /\ \A n \in Nodes : r[n] = 0 \/ \E a \in Intervals(c) :
                                  a[2] = n /\ r[n] = r[a[1]] + IntervalWeight(a)
    BY IntervalPaths
  <1>2. PICK m \in Nat : m = r[Sink]
    BY DEF Nodes
  <1>3. \A n \in Operations : r[n] \in Nat /\ Proc(n) \in Nat
    BY Weights DEF Nodes
  <1>4. PICK h \in Nat, l \in Nat : h = problem.headway /\ l = LatestRelease
    BY Weights, LatestOfReleases
  <1>5. PICK e \in [Operations -> Nat] : e = Spent(r, m)
    <2>1. \A n \in Operations : Proc(n) + problem.headway \in Nat
      BY <1>3, <1>4
    <2>2. Spent(r, m) \in [Operations -> Nat]
      BY <2>1 DEF Spent
    <2> QED
      BY <2>2
  <1>6. PICK x \in Nat : Totals(e, x)
    BY TotalExists
  <1>7. m <= l + x
    <2>1. Sink \in Nodes
      BY DEF Nodes
    <2>2. \A y : Totals(Spent(r, r[Sink]), y) => r[Sink] <= LatestRelease + y
      BY <1>1, <2>1, StartIsExplained
    <2> QED
      BY <1>2, <1>4, <1>5, <1>6, <2>2
  <1>8. PICK p \in [Operations -> Nat] : /\ p = [n \in Operations |-> Proc(n)]
                                         /\ \A n \in Operations : p[n] = Proc(n)
    <2>1. [n \in Operations |-> Proc(n)] \in [Operations -> Nat]
      BY <1>3
    <2> QED
      BY <2>1
  <1>9. PICK q \in [Operations -> Nat] : \A n \in Operations : q[n] = p[n] + h
    <2>1. [n \in Operations |-> p[n] + h] \in [Operations -> Nat]
      OBVIOUS
    <2> QED
      BY <2>1
  <1>10. PICK y \in Nat : Totals(q, y)
    BY TotalExists
  <1>11. PICK s \in Nat : s = SumOverOperations(Proc) /\ Totals(p, s)
    BY <1>8, RunningTimes, TotalIsNumber
  <1>12. y = s + h * Cardinality(Operations)
    BY <1>9, <1>10, <1>11, TotalShifted
  <1>13. x <= y
    <2>1. ASSUME NEW n \in Operations PROVE e[n] <= q[n]
      <3>1. e[n] = (IF r[n] < m THEN Proc(n) + h ELSE 0) /\ q[n] = Proc(n) + h
        BY <1>4, <1>5, <1>8, <1>9 DEF Spent
      <3> QED
        BY <1>3, <3>1
    <2> QED
      BY <1>6, <1>10, <2>1, TotalIsMonotone
  <1>14. PICK N \in Nat : N = Cardinality(Operations)
    BY OperationsListed
  <1>15. Horizon = l + s + h * (N + 1)
    BY <1>4, <1>11, <1>14 DEF Horizon
  <1>16. h * N \in Int /\ h * (N + 1) = h * N + h
    OBVIOUS
  <1>17. PICK k \in Int : k = h * N
    BY <1>16
  <1>18. Horizon = l + s + (k + h) /\ y = s + k
    BY <1>12, <1>14, <1>15, <1>16, <1>17
  <1>19. m <= l + s + (k + h)
    BY <1>7, <1>13, <1>18
  <1> QED
    BY <1>1, <1>2, <1>18, <1>19

\* No train is cleared sooner than alone: its route takes its running times.
LEMMA NotSoonerThanAlone ==
    ASSUME problem \in Problems, NEW c, Decided(c), NEW t \in Trains
    PROVE  EarliestMakespan(c) >= problem.release[t]
                + SumOverOperations(LAMBDA n : IF n[1] = t THEN Proc(n) ELSE 0)
  <1>1. PICK r \in [Nodes -> Nat] :
            /\ EarliestMakespan(c) = r[Sink]
            /\ \A a \in Intervals(c) : r[a[2]] >= r[a[1]] + IntervalWeight(a)
    BY IntervalPaths
  <1>2. PICK L \in Nat : L = Len(problem.ops[t]) /\ L >= 1 /\ DOMAIN problem.ops[t] = 1..L
    <2>1. /\ Len(problem.ops[t]) \in Nat \ {0}
          /\ DOMAIN problem.ops[t] = 1..Len(problem.ops[t])
      BY ProblemTyping
    <2>2. \A k \in Nat \ {0} : k \in Nat /\ k >= 1
      OBVIOUS
    <2> QED
      BY <2>1, <2>2
  <1>3. \A i \in 1..L : <<t, i>> \in Operations
    BY <1>2 DEF Operations
  <1>4. \A n \in Operations : /\ n = <<n[1], n[2]>> /\ n[2] \in Nat /\ n[2] >= 1 /\ Proc(n) \in Nat
                              /\ n[1] = t => n[2] \in 1..L
    <2>1. \A n \in Operations : n[1] = t => n[2] \in DOMAIN problem.ops[t]
      BY DEF Operations
    <2>2. \A n \in Operations : n[2] \in Nat /\ n[2] >= 1 /\ n = <<n[1], n[2]>>
      <3>1. \A k \in Nat \ {0} : k \in Nat /\ k >= 1
        OBVIOUS
      <3> QED
        BY <3>1, ProblemTyping
    <2> QED
      BY <1>2, <2>1, <2>2, Weights
  <1>5. \A n \in Nodes : r[n] \in Nat
    OBVIOUS
  <1>6. PICK l \in Nat : l = problem.release[t]
    BY ProblemsAssumption DEF ProblemsAssumption, Trains
  <1> DEFINE before(i) == [n \in Operations |-> IF n[1] = t /\ n[2] < i THEN Proc(n) ELSE 0]
             after(i) == \A x : Totals(before(i), x) => r[<<t, i>>] >= l + x
             K == {k \in Nat : k + 1 <= L => after(k + 1)}
  <1>7. \A i : before(i) \in [Operations -> Nat]
    BY <1>4
  <1>8. 0 \in K
    <2> SUFFICES ASSUME NEW x, Totals(before(1), x) PROVE r[<<t, 1>>] >= l + x
      OBVIOUS
    <2>1. \A n \in Operations : before(1)[n] = 0
      BY <1>4
    <2>2. x = 0
      <3>1. before(1) \in [Operations -> Nat]
        BY <1>7
      <3> HIDE DEF before
      <3> QED
        BY <2>1, <3>1, TotalOfNothing
    <2>3. <<Source, First(t)>> \in Intervals(c)
      BY DEF Intervals, FixedArcs
    <2>4. IntervalWeight(<<Source, First(t)>>) = l
      BY <1>6, Weights DEF IntervalWeight
    <2>5. r[First(t)] >= r[Source] + l
      BY <1>1, <2>3, <2>4
    <2>6. r[First(t)] \in Nat /\ r[Source] \in Nat /\ First(t) = <<t, 1>>
      BY ProblemTyping DEF Nodes, First
    <2> QED
      BY <2>2, <2>5, <2>6
  <1>9. ASSUME NEW k \in Nat, k \in K PROVE k + 1 \in K
    <2> SUFFICES ASSUME (k + 1) + 1 <= L PROVE after((k + 1) + 1)
      <3> HIDE DEF after
      <3> QED
        OBVIOUS
    <2>1. PICK i \in Nat : i = k + 1 /\ i + 1 = (k + 1) + 1 /\ i \in 1..L /\ i + 1 \in 1..L
      BY <1>2
    <2>2. after(i)
      <3>1. k + 1 <= L
        BY <1>2
      <3> HIDE DEF after
      <3> QED
        BY <1>9, <2>1, <3>1
    <2>3. PICK n \in Operations, m \in Operations : n = <<t, i>> /\ m = <<t, i + 1>>
      BY <1>3, <2>1
    <2>4. <<n, m>> \in Intervals(c)
      BY <2>3 DEF Intervals, FixedArcs
    <2>5. IntervalWeight(<<n, m>>) \in Nat /\ IntervalWeight(<<n, m>>) >= Proc(n)
      <3>1. n # Source
        BY ProblemTyping DEF Source
      <3> QED
        BY <2>4, <3>1, IntervalWeights
    <2>6. r[m] >= r[n] + IntervalWeight(<<n, m>>)
      BY <1>1, <2>4
    <2>7. r[m] \in Nat /\ r[n] \in Nat /\ Proc(n) \in Nat
      BY <1>4, <1>5 DEF Nodes
    <2>8. r[m] >= r[n] + Proc(n)
      BY <2>5, <2>6, <2>7
    <2>9. ASSUME NEW x, Totals(before(i + 1), x) PROVE r[m] >= l + x
      <3>1. PICK g \in [Operations -> Nat], y \in Nat : g = before(i) /\ Totals(g, y)
        <4>1. before(i) \in [Operations -> Nat]
          BY <1>7
        <4> HIDE DEF before
        <4> QED
          BY <4>1, TotalExists
      <3>2. PICK h \in [Operations -> Nat] : h = before(i + 1) /\ Totals(h, x)
        <4>1. before(i + 1) \in [Operations -> Nat]
          BY <1>7
        <4> HIDE DEF before
        <4> QED
          BY <2>9, <4>1
      <3>3. g[n] = 0 /\ h[n] = Proc(n)
        <4>1. n[1] = t /\ n[2] = i /\ ~(i < i) /\ i < i + 1
          BY <2>3
        <4> QED
          BY <3>1, <3>2, <4>1
      <3>4. ASSUME NEW o \in Operations, o # n PROVE h[o] = g[o]
        <4>1. o[1] = t => o[2] # i
          BY <1>4, <2>3, <3>4
        <4>2. (o[1] = t /\ o[2] < i) <=> (o[1] = t /\ o[2] < i + 1)
          BY <1>4, <4>1
        <4> QED
          BY <3>1, <3>2, <4>2
      <3>5. x = y + Proc(n)
        <4>1. h[n] = g[n] + Proc(n)
          BY <2>7, <3>3
        <4> QED
          BY <2>7, <3>1, <3>2, <3>4, <4>1, TotalGrows
      <3>6. r[n] >= l + y
        <4> HIDE DEF before
        <4> QED
          BY <2>2, <2>3, <3>1
      <3> QED
        BY <2>7, <2>8, <3>5, <3>6
    <2> QED
      <3> HIDE DEF before
      <3> QED
        BY <2>1, <2>3, <2>9
  <1> HIDE DEF K
  <1>10. Nat \subseteq K
    BY <1>8, <1>9, NumbersReached
  <1>11. after(L)
    <2>1. L - 1 \in Nat /\ (L - 1) + 1 = L
      BY <1>2
    <2>2. L - 1 \in K
      BY <1>10, <2>1
    <2> HIDE DEF after
    <2> QED
      BY <1>2, <2>1, <2>2 DEF K
  <1>12. PICK n \in Operations : n = <<t, L>> /\ n = Final(t)
    <2>1. L \in 1..L
      BY <1>2
    <2>2. <<t, L>> \in Operations
      BY <1>3, <2>1
    <2>3. Final(t) = <<t, L>>
      BY <1>2 DEF Final
    <2> QED
      BY <2>2, <2>3
  <1>13. PICK x \in Nat : Totals(before(L), x)
    <2>1. before(L) \in [Operations -> Nat]
      BY <1>7
    <2> HIDE DEF before
    <2> QED
      BY <2>1, TotalExists
  <1>14. r[n] >= l + x
    <2> HIDE DEF before
    <2> QED
      BY <1>11, <1>12, <1>13
  <1>15. PICK s \in Nat :
            /\ s = SumOverOperations(LAMBDA m : IF m[1] = t THEN Proc(m) ELSE 0)
            /\ Totals([m \in Operations |-> IF m[1] = t THEN Proc(m) ELSE 0], s)
    <2>1. [m \in Operations |-> IF m[1] = t THEN Proc(m) ELSE 0] \in [Operations -> Nat]
      BY <1>4
    <2> QED
      BY <2>1, RunningTimesOf, TotalIsNumber
  <1>16. s = x + Proc(n)
    <2>1. PICK g \in [Operations -> Nat] : g = before(L) /\ Totals(g, x)
      <3>1. before(L) \in [Operations -> Nat]
        BY <1>7
      <3> HIDE DEF before
      <3> QED
        BY <1>13, <3>1
    <2>2. PICK h \in [Operations -> Nat] :
              h = [m \in Operations |-> IF m[1] = t THEN Proc(m) ELSE 0] /\ Totals(h, s)
      <3>1. [m \in Operations |-> IF m[1] = t THEN Proc(m) ELSE 0] \in [Operations -> Nat]
        BY <1>4
      <3> QED
        BY <1>15, <3>1
    <2>3. g[n] = 0 /\ h[n] = Proc(n)
      <3>1. n[1] = t /\ n[2] = L /\ ~(L < L)
        BY <1>12
      <3> QED
        BY <2>1, <2>2, <3>1
    <2>4. ASSUME NEW o \in Operations, o # n PROVE h[o] = g[o]
      <3>1. o[1] = t => o[2] # L
        BY <1>4, <1>12, <2>4
      <3>2. o[1] = t <=> (o[1] = t /\ o[2] < L)
        BY <1>4, <3>1
      <3> QED
        BY <2>1, <2>2, <3>2
    <2>5. Proc(n) \in Nat
      BY <1>4
    <2>6. h[n] = g[n] + Proc(n)
      BY <2>3, <2>5
    <2> HIDE DEF before
    <2> QED
      BY <2>1, <2>2, <2>4, <2>5, <2>6, TotalGrows
  <1>17. r[Sink] >= r[n] + Proc(n)
    <2>1. <<n, Sink>> \in Intervals(c)
      BY <1>12 DEF Intervals, FixedArcs
    <2>2. IntervalWeight(<<n, Sink>>) = Proc(n)
      BY Weights DEF IntervalWeight
    <2> QED
      BY <1>1, <2>1, <2>2
  <1>18. r[Sink] \in Nat /\ r[n] \in Nat /\ Proc(n) \in Nat
    BY <1>4, <1>5 DEF Nodes
  <1>19. r[Sink] >= l + s
    BY <1>14, <1>16, <1>17, <1>18
  <1> QED
    BY <1>1, <1>6, <1>15, <1>19

\* The free-running makespan is one that some train alone has, or zero.
LEMMA FreeRunIsBelow ==
    ASSUME problem \in Problems
    PROVE  /\ FreeRunMakespan \in Nat
           /\ \A c : Decided(c) => FreeRunMakespan <= EarliestMakespan(c)
  <1> DEFINE alone(t) == problem.release[t]
                            + SumOverOperations(LAMBDA n : IF n[1] = t THEN Proc(n) ELSE 0)
             V == {alone(t) : t \in Trains}
             S == {0} \cup V
             of == [t \in Trains |-> alone(t)]
  <1>1. \A t \in Trains : alone(t) \in Nat
    <2> SUFFICES ASSUME NEW t \in Trains PROVE alone(t) \in Nat
      OBVIOUS
    <2>1. PICK l \in Nat : l = problem.release[t]
      BY ProblemsAssumption DEF ProblemsAssumption, Trains
    <2>2. PICK g \in [Operations -> Nat] :
              g = [n \in Operations |-> IF n[1] = t THEN Proc(n) ELSE 0]
      <3>1. [n \in Operations |-> IF n[1] = t THEN Proc(n) ELSE 0] \in [Operations -> Nat]
        BY Weights
      <3> QED
        BY <3>1
    <2>3. PICK s : /\ s = SumOverOperations(LAMBDA n : IF n[1] = t THEN Proc(n) ELSE 0)
                   /\ Totals(g, s)
      BY <2>2, RunningTimesOf
    <2>4. s \in Nat
      BY <2>3, TotalIsNumber
    <2>5. alone(t) = l + s
      BY <2>1, <2>3
    <2> HIDE DEF alone
    <2> QED
      BY <2>4, <2>5
  <1>2. \A c : Decided(c) => EarliestMakespan(c) \in Nat
                             /\ \A t \in Trains : alone(t) <= EarliestMakespan(c)
    <2> SUFFICES ASSUME NEW c, Decided(c)
                 PROVE  EarliestMakespan(c) \in Nat
                        /\ \A t \in Trains : alone(t) <= EarliestMakespan(c)
      OBVIOUS
    <2>1. EarliestMakespan(c) \in Nat
      BY WithinTheHorizon
    <2>2. \A t \in Trains : EarliestMakespan(c) >= alone(t)
      BY NotSoonerThanAlone
    <2> HIDE DEF alone
    <2> QED
      BY <1>1, <2>1, <2>2
  <1>3. FreeRunMakespan = Max(S)
    BY DEF FreeRunMakespan
  <1> HIDE DEF alone
  <1>4. IsFiniteSet(Trains)
    <2>1. problem.ops \in Seq(Seq(Operation) \ {<<>>})
      BY ProblemsAssumption DEF ProblemsAssumption
    <2>2. PICK n \in Nat : Trains = 1..n
      BY <2>1, LenProperties DEF Trains
    <2> QED
      BY <2>2, FS_Interval
  <1>5. IsFiniteSet(V)
    <2>1. of \in Surjection(Trains, V)
      BY DEF Surjection
    <2> HIDE DEF of, V
    <2> QED
      BY <1>4, <2>1, FS_Surjection
  <1>6. S \subseteq Nat /\ S \subseteq Int /\ S # {}
    BY <1>1
  <1>7. IsFiniteSet(S)
    <2>1. S = V \cup {0}
      OBVIOUS
    <2> HIDE DEF V, S
    <2> QED
      BY <1>5, <2>1, FS_AddElement
  <1>8. Max(S) \in S
    <2> HIDE DEF S
    <2> QED
      BY <1>6, <1>7, GreatestNumber DEF Max
  <1>9. \A c : Decided(c) => Max(S) <= EarliestMakespan(c)
    BY <1>2, <1>8
  <1>10. Max(S) \in Nat
    <2> HIDE DEF S
    <2> QED
      BY <1>6, <1>8
  <1> HIDE DEF S
  <1> QED
    BY <1>3, <1>9, <1>10

\* The makespans of the constraint model: one for every complete choice.
LEMMA CpSatIsLeast ==
    ASSUME problem \in Problems, NEW choice, Decided(choice)
    PROVE  /\ CpSatMakespans # {}
           /\ \A c : Decided(c) => EarliestMakespan(c) \in Nat /\ SolveOptimal <= EarliestMakespan(c)
           /\ \E c : Decided(c) /\ SolveOptimal = EarliestMakespan(c)
  <1> DEFINE S == {EarliestMakespan(c) : c \in CompleteOrders}
  <1>1. \A c : Decided(c) => EarliestMakespan(c) \in Nat /\ EarliestMakespan(c) <= Horizon
    BY WithinTheHorizon
  <1>2. CpSatMakespans = {m \in S : m <= Horizon}
    BY DEF CpSatMakespans, CompleteOrders
  <1>3. \A c : Decided(c) <=> c \in CompleteOrders
    BY OrdersAreDecided
  <1>4. \A m \in S : m \in Nat /\ m <= Horizon
    BY <1>1, <1>3
  <1>5. \A c : Decided(c) => EarliestMakespan(c) \in S
    BY <1>3
  <1>6. \A m \in S : \E c : Decided(c) /\ m = EarliestMakespan(c)
    BY <1>3
  <1> HIDE DEF S
  <1>7. CpSatMakespans = S /\ S \subseteq Nat /\ S # {}
    BY <1>2, <1>4, <1>5
  <1>8. Min(S) \in S /\ \A x \in S : Min(S) <= x
    BY <1>7, LeastIsOne
  <1>9. SolveOptimal = Min(S)
    BY <1>7 DEF SolveOptimal
  <1> QED
    BY <1>1, <1>5, <1>6, <1>7, <1>8, <1>9

\* The strategies that have been tried by the time the next one is.
SolvedInv ==
    /\ strategy = "priority" => "amcc" \in DOMAIN solved
    /\ strategy = "done" => {"amcc", "priority"} \subseteq DOMAIN solved

\* Both strategies have been tried when the study compares them.
LEMMA SolvedInvariant == Spec => []SolvedInv
  <1>1. Init => SolvedInv
    BY DEF Init, SolvedInv
  <1>2. ASSUME AltInv, SolvedInv, [Next]_vars PROVE SolvedInv'
    <2>1. CASE AvoidMostCritical \/ FollowPriority \/ Finished \/ UNCHANGED vars
      <3>1. strategy' = strategy /\ solved' = solved
        BY <2>1 DEF AvoidMostCritical, FollowPriority, Decide, Finished, vars
      <3> QED
        BY <1>2, <3>1 DEF SolvedInv
    <2>2. CASE Finalize
      <3>1. strategy \in {"amcc", "priority"}
        BY <1>2, <2>2 DEF AltInv, TypeOK, Finalize
      <3>2. DOMAIN solved' = DOMAIN solved \cup {strategy}
        BY <2>2 DEF Finalize
      <3>3. strategy' = IF strategy = "amcc" THEN "priority" ELSE "done"
        BY <2>2 DEF Finalize
      <3> QED
        BY <1>2, <3>1, <3>2, <3>3 DEF SolvedInv
    <2> QED
      BY <1>2, <2>1, <2>2 DEF Next
  <1> QED
    BY <1>1, <1>2, AltInvariant, PTL DEF Spec

\* strategy_study.py, "a true lower bound on what any rule can achieve": the
\* constraint model has a schedule below its horizon for every order the trains
\* can take, whatever the problem, none clears them sooner than they run alone,
\* and, unless a train comes back to a resource, its least makespan is the
\* optimum and no rule has a smaller one: the gap reported is never negative.
THEOREM LowerBound == Spec => []OptimalIsALowerBound
  <1>1. ASSUME AltInv, OrderInv, SolvedInv PROVE OptimalIsALowerBound
    <2> SUFFICES ASSUME strategy = "done"
                 PROVE  /\ CpSatMakespans # {}
                        /\ ClearanceDelay.optimal >= 0
                        /\ Revisits = {} =>
                             /\ SolveOptimal = Optimum
                             /\ ClearanceDelay.optimal <= ClearanceDelay.amcc
                             /\ ClearanceDelay.optimal <= ClearanceDelay.priority
      BY DEF OptimalIsALowerBound
    <2>1. problem \in Problems /\ \A s \in {"amcc", "priority"} : Decided(solved[s])
      BY <1>1 DEF AltInv, OrderInv, SolvedInv
    <2>2. /\ CpSatMakespans # {}
          /\ \A c : Decided(c) => EarliestMakespan(c) \in Nat /\ SolveOptimal <= EarliestMakespan(c)
          /\ \E c : Decided(c) /\ SolveOptimal = EarliestMakespan(c)
      BY <2>1, CpSatIsLeast
    <2>3. PICK c : Decided(c) /\ SolveOptimal = EarliestMakespan(c)
      BY <2>2
    <2>4. PICK best \in Nat, alone \in Nat :
              best = SolveOptimal /\ alone = FreeRunMakespan /\ alone <= best
      BY <2>1, <2>2, <2>3, FreeRunIsBelow
    <2>5. /\ ClearanceDelay.optimal = best - alone
          /\ ClearanceDelay.amcc = Makespan(solved["amcc"]) - alone
          /\ ClearanceDelay.priority = Makespan(solved["priority"]) - alone
      BY <2>4 DEF ClearanceDelay
    <2>6. ClearanceDelay.optimal >= 0
      BY <2>4, <2>5
    <2>7. ASSUME Revisits = {}
          PROVE  /\ SolveOptimal = Optimum
                 /\ ClearanceDelay.optimal <= ClearanceDelay.amcc
                 /\ ClearanceDelay.optimal <= ClearanceDelay.priority
      <3>1. \A d : Decided(d) => EarliestMakespan(d) = Makespan(d)
        BY <2>1, <2>7, SameModel
      <3>2. PICK d : Decided(d) /\ Optimum = Makespan(d)
        BY <2>1, OptimumIsLeast
      <3>3. Optimum <= Makespan(c) /\ Makespan(c) = best /\ Makespan(c) \in Nat
        BY <2>1, <2>3, <2>4, <3>1, OptimumIsLeast
      <3>4. best <= Optimum /\ Optimum \in Nat
        BY <2>2, <2>4, <3>1, <3>2
      <3>5. SolveOptimal = Optimum
        BY <2>4, <3>3, <3>4
      <3>6. PICK x \in Nat, y \in Nat :
                x = Makespan(solved["amcc"]) /\ y = Makespan(solved["priority"])
                /\ best <= x /\ best <= y
        BY <2>1, <2>2, <2>4, <3>1
      <3>7. best - alone <= x - alone /\ best - alone <= y - alone
        BY <3>6
      <3> QED
        BY <2>5, <3>5, <3>6, <3>7
    <2> QED
      BY <2>2, <2>6, <2>7
  <1> QED
    BY <1>1, AltInvariant, OrderInvariant, SolvedInvariant, PTL
=============================================================================
