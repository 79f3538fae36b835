--------------------------- MODULE WorkflowProofs ---------------------------
(***************************************************************************)
(* The proofs about workflows: the traversal of a graph (WorkflowPaths),   *)
(* the validation of a definition (WorkflowGraph) and the engine           *)
(* (WorkflowEngine), for every set of nodes, instances and requests.       *)
(*                                                                         *)
(* The traversal is a recursive function, so what it returns is found by   *)
(* induction: SetInduction says it of sets of numbers.  TraverseIsLoop     *)
(* unfolds it once; TraversalEnds and SentOnce say that on an acyclic      *)
(* graph the loop leaves every node for one further on, which is why it    *)
(* ends within as many turns as there are nodes and passes none twice.     *)
(*                                                                         *)
(* CheckInv is the invariant of the depth-first search: the calls are a    *)
(* path, and what is done is closed under edges and acyclic.  IInv is that *)
(* of the engine: what is known of a request's copies, which are of a past *)
(* state, and of the present one as long as the version is still the row's.*)
(***************************************************************************)
EXTENDS WorkflowGraph, WorkflowEngine, WellFoundedInduction, FiniteSetTheorems,
        SequenceTheorems, TLAPS

-----------------------------------------------------------------------------
(* Induction and recursion on the natural numbers.                           *)

\* A set of numbers with 0 and with the successor of each of its members is Nat:
\* induction, said of sets, for the provers take no predicate for a parameter.
LEMMA SetInduction ==
  ASSUME NEW T, 0 \in T, \A n \in T \cap Nat : n + 1 \in T
  PROVE  Nat \subseteq T
  <1> DEFINE Missing == Nat \ T
             Less == OpToRel(<, Nat)
  <1>1. SUFFICES ASSUME Missing # {}
                 PROVE  FALSE
    OBVIOUS
  <1>2. PICK m \in Missing : \A k \in Missing : <<k, m>> \notin Less
    <2>1. IsWellFoundedOn(Less, Nat) /\ Missing \subseteq Nat
      BY NatLessThanWellFounded
    <2> HIDE DEF Less, Missing
    <2> QED
      BY <1>1, <2>1, WFMin
  <1>3. m \in Nat /\ m # 0 /\ m - 1 \in Nat /\ m - 1 < m
    OBVIOUS
  <1>4. m - 1 \notin T
    BY <1>3
  <1>5. <<m - 1, m>> \in Less
    BY <1>3 DEF OpToRel
  <1> QED
    BY <1>2, <1>3, <1>4, <1>5

\* The first n + 1 values of a recursion: it starts at first and goes on by step.
Iterates(f, n, first, step) ==
    f[0] = first /\ \A k \in 0..(n - 1) : f[k + 1] = step[f[k]]

\* Two runs of the same recursion agree as far as both go.
LEMMA IteratesAgree ==
  ASSUME NEW first, NEW step, NEW f, NEW h, NEW n \in Nat, NEW m \in Nat,
         Iterates(f, n, first, step), Iterates(h, m, first, step), n <= m
  PROVE  \A k \in 0..n : f[k] = h[k]
  <1> DEFINE T == {k \in Nat : k <= n => f[k] = h[k]}
  <1>1. 0 \in T
    BY DEF Iterates
  <1>2. ASSUME NEW k \in T \cap Nat
        PROVE  k + 1 \in T
    <2>1. CASE k + 1 <= n
      <3>1. k \in 0..(n - 1) /\ k \in 0..(m - 1) /\ k <= n
        BY <2>1
      <3>2. f[k + 1] = step[f[k]] /\ h[k + 1] = step[h[k]] /\ f[k] = h[k]
        BY <3>1 DEF Iterates
      <3> QED
        BY <3>2
    <2>2. CASE ~(k + 1 <= n)
      BY <2>2
    <2> QED
      BY <2>1, <2>2
  <1>3. Nat \subseteq T
    <2> HIDE DEF T
    <2> QED
      BY <1>1, <1>2, SetInduction
  <1> QED
    BY <1>3

\* A recursion on the naturals whose step stays in D defines a function into D.
LEMMA RecursionExists ==
  ASSUME NEW D, NEW first \in D, NEW step \in [D -> D]
  PROVE  \E F \in [Nat -> D] : F[0] = first /\ \A n \in Nat : F[n + 1] = step[F[n]]
  <1> DEFINE Part(n) == {f \in [0..n -> D] : Iterates(f, n, first, step)}
             T == {n \in Nat : Part(n) # {}}
  <1>1. 0 \in T
    <2> DEFINE f == [k \in 0..0 |-> first]
    <2>1. f \in [0..0 -> D] /\ f[0] = first
      OBVIOUS
    <2>2. f \in Part(0)
      BY <2>1 DEF Iterates
    <2> QED
      BY <2>2
  <1>2. ASSUME NEW n \in T \cap Nat
        PROVE  n + 1 \in T
    <2>1. PICK f \in [0..n -> D] : Iterates(f, n, first, step)
      OBVIOUS
    <2> DEFINE h == [k \in 0..(n + 1) |-> IF k = n + 1 THEN step[f[n]] ELSE f[k]]
    <2>2. h \in [0..(n + 1) -> D]
      <3>1. n \in 0..n /\ \A k \in 0..(n + 1) : k # n + 1 => k \in 0..n
        OBVIOUS
      <3> QED
        BY <2>1, <3>1
    <2>3. h[0] = first /\ h[n + 1] = step[f[n]] /\ \A k \in 0..n : h[k] = f[k]
      BY <2>1 DEF Iterates
    <2> HIDE DEF h
    <2>4. ASSUME NEW k \in 0..(n + 1 - 1)
          PROVE  h[k + 1] = step[h[k]]
      <3>1. CASE k = n
        BY <2>3, <3>1
      <3>2. CASE k # n
        <4>1. k \in 0..(n - 1) /\ k \in 0..n /\ k + 1 \in 0..n
          BY <3>2
        <4> QED
          BY <2>1, <2>3, <4>1 DEF Iterates
      <3> QED
        BY <3>1, <3>2
    <2>5. h \in Part(n + 1)
      BY <2>2, <2>3, <2>4 DEF Iterates
    <2> QED
      BY <2>5
  <1>3. \A n \in Nat : Part(n) # {}
    <2>1. Nat \subseteq T
      <3> HIDE DEF T
      <3> QED
        BY <1>1, <1>2, SetInduction
    <2> QED
      BY <2>1
  <1> DEFINE part == [n \in Nat |-> CHOOSE f \in Part(n) : TRUE]
             F == [n \in Nat |-> part[n][n]]
  <1>4. ASSUME NEW n \in Nat
        PROVE  /\ part[n] \in [0..n -> D]
               /\ Iterates(part[n], n, first, step)
    <2>1. part[n] \in Part(n)
      BY <1>3
    <2> QED
      BY <2>1
  <1> HIDE DEF part, Part
  <1>5. F \in [Nat -> D]
    <2>1. \A n \in Nat : part[n][n] \in D
      <3> TAKE n \in Nat
      <3>1. n \in 0..n
        OBVIOUS
      <3> QED
        BY <1>4, <3>1
    <2> QED
      BY <2>1
  <1>6. F[0] = first
    BY <1>4 DEF Iterates
  <1>7. ASSUME NEW n \in Nat
        PROVE  F[n + 1] = step[F[n]]
    <2>1. n + 1 \in Nat /\ n \in 0..(n + 1 - 1) /\ n \in 0..n /\ n <= n + 1
      OBVIOUS
    <2>2. part[n + 1][n + 1] = step[part[n + 1][n]]
      BY <1>4, <2>1 DEF Iterates
    <2>3. part[n][n] = part[n + 1][n]
      BY <1>4, <2>1, IteratesAgree
    <2> QED
      BY <2>1, <2>2, <2>3
  <1> QED
    BY <1>5, <1>6, <1>7

-----------------------------------------------------------------------------
(* The order of an acyclic graph.                                            *)

\* A set of nodes no edge leads out of.
Closed(g, S) == \A m \in S : Successors(g, m) \subseteq S

\* The nodes an automatic walk can be at that was at n, and those it can be at later.
From(g, n) == {m \in Nodes : \A S \in SUBSET Nodes : n \in S /\ Closed(g, S) => m \in S}
After(g, n) == UNION {From(g, m) : m \in Successors(g, n)}

\* Edges lead to nodes, and into the same closed sets their tails are in.
LEMMA FromFacts ==
    ASSUME NEW g \in Graph, NEW n \in Nodes
    PROVE  /\ Successors(g, n) \subseteq Nodes
           /\ n \in From(g, n) /\ From(g, n) \subseteq Nodes
           /\ Closed(g, From(g, n))
           /\ \A m \in From(g, n) : From(g, m) \subseteq From(g, n)
<1>1. \A m \in Nodes : Successors(g, m) \subseteq Nodes
  BY DEF Graph, Successors, Out
<1>2. n \in From(g, n) /\ From(g, n) \subseteq Nodes
  BY DEF From
<1>3. Closed(g, From(g, n))
  <2> SUFFICES ASSUME NEW m \in From(g, n), NEW k \in Successors(g, m)
               PROVE  k \in From(g, n)
    BY DEF Closed
  <2>1. ASSUME NEW S \in SUBSET Nodes, n \in S, Closed(g, S)
        PROVE  k \in S
    <3>1. m \in S
      BY <2>1 DEF From
    <3> QED
      BY <2>1, <3>1 DEF Closed
  <2> QED
    BY <1>1, <1>2, <2>1 DEF From
<1>4. ASSUME NEW m \in From(g, n), NEW k \in From(g, m)
      PROVE  k \in From(g, n)
  BY <1>2, <1>3, <1>4 DEF From
<1> QED
  BY <1>1, <1>2, <1>3, <1>4

\* What comes after a node: its successors and what comes after them.
LEMMA AfterFacts ==
    ASSUME NEW g \in Graph, NEW n \in Nodes
    PROVE  /\ After(g, n) \subseteq Nodes
           /\ Successors(g, n) \subseteq After(g, n)
           /\ From(g, n) = {n} \cup After(g, n)
           /\ \A m \in After(g, n) : After(g, m) \subseteq After(g, n)
           /\ \A m \in After(g, n) : From(g, m) \subseteq After(g, n)
<1>1. \A m \in Nodes : Successors(g, m) \subseteq Nodes
  BY FromFacts
<1>2. After(g, n) \subseteq Nodes /\ Successors(g, n) \subseteq After(g, n)
  BY <1>1, FromFacts DEF After
<1>3. \A m \in After(g, n) : From(g, m) \subseteq After(g, n)
  <2> SUFFICES ASSUME NEW s \in Successors(g, n), NEW m \in From(g, s)
               PROVE  From(g, m) \subseteq From(g, s)
    BY DEF After
  <2> QED
    BY <1>1, FromFacts
<1>4. Closed(g, {n} \cup After(g, n))
  <2> SUFFICES ASSUME NEW m \in {n} \cup After(g, n), NEW k \in Successors(g, m)
               PROVE  k \in After(g, n)
    BY DEF Closed
  <2>1. CASE m = n
    BY <1>2, <2>1
  <2>2. CASE m \in After(g, n)
    <3>1. k \in From(g, m)
      BY <1>2, <2>2, FromFacts DEF Closed
    <3> QED
      BY <1>3, <2>2, <3>1
  <2> QED
    BY <2>1, <2>2
<1>5. From(g, n) \subseteq {n} \cup After(g, n)
  <2>1. {n} \cup After(g, n) \in SUBSET Nodes /\ n \in {n} \cup After(g, n)
    BY <1>2
  <2> QED
    BY <1>4, <2>1 DEF From
<1>6. After(g, n) \subseteq From(g, n)
  <2> SUFFICES ASSUME NEW s \in Successors(g, n)
               PROVE  From(g, s) \subseteq From(g, n)
    BY DEF After
  <2>1. s \in From(g, n)
    BY FromFacts DEF Closed
  <2> QED
    BY <2>1, FromFacts
<1>7. \A m \in After(g, n) : After(g, m) \subseteq After(g, n)
  <2> SUFFICES ASSUME NEW m \in After(g, n), NEW s \in Successors(g, m)
               PROVE  From(g, s) \subseteq After(g, n)
    BY DEF After
  <2>1. s \in From(g, m)
    BY <1>2, FromFacts DEF Closed
  <2>2. s \in After(g, n)
    BY <1>3, <2>1
  <2> QED
    BY <1>3, <2>2
<1> QED
  BY <1>2, <1>3, <1>5, <1>6, <1>7, FromFacts

\* In an acyclic graph no node comes after itself.
LEMMA NothingAfterItself ==
    ASSUME NEW g \in Graph, Shaped(g), Acyclic(g), NEW n \in Nodes
    PROVE  n \notin After(g, n)
<1> DEFINE S == {m \in Present(g) : n \in After(g, m)}
<1>1. SUFFICES ASSUME n \in After(g, n)
               PROVE  FALSE
  OBVIOUS
<1>2. ASSUME NEW m \in Nodes, Successors(g, m) # {}
      PROVE  m \in Present(g)
  BY <1>2 DEF Successors, Out, Shaped, Graph
<1>3. n \in S
  BY <1>1, <1>2 DEF After
<1>4. ASSUME NEW m \in S
      PROVE  Successors(g, m) \cap S # {}
  <2>0. m \in Nodes
    BY DEF Present
  <2>1. PICK k \in Successors(g, m) : n \in From(g, k)
    BY DEF After
  <2>2. k \in Nodes /\ n \in {k} \cup After(g, k)
    BY <2>0, <2>1, FromFacts, AfterFacts
  <2>3. n \in After(g, k)
    BY <1>1, <2>2
  <2>4. Successors(g, k) # {}
    BY <2>3 DEF After
  <2> QED
    BY <1>2, <2>1, <2>2, <2>3, <2>4
<1> QED
  BY <1>3, <1>4 DEF Acyclic

-----------------------------------------------------------------------------
(* What a traversal returns.                                                 *)

Traversal == [status : {"walking", "pending", "completed", "no node", "no path"},
              node : Nodes, sent : Seq(Nodes)]

\* Each notification comes after the ones built before it.
InOrder(g, sent) == \A j, k \in 1..Len(sent) : j < k => sent[k] \in After(g, sent[j])

\* A traversal that began at first is there, or at a node after it and after all it
\* built notifications for; and it stopped for the reason it says.
OnItsWay(g, after, truth, first, t) ==
    /\ t.node \in Present(g)
    /\ InOrder(g, t.sent)
    /\ \A k \in 1..Len(t.sent) : t.node \in After(g, t.sent[k])
    /\ \/ t.node = first /\ t.sent = <<>>
       \/ t.node \in After(g, first) /\ \A k \in 1..Len(t.sent) : t.sent[k] \in After(g, first)
    /\ t.status # "no node"
    /\ t.status = "pending" => g.type[t.node] = "approval" /\ {t.node} # after
    /\ t.status = "completed" => g.type[t.node] = "end"
    /\ t.status = "no path" => g.type[t.node] # "end" /\ Chosen(g, t.node, truth) = {}

\* The edge a turn follows leads to a successor that is in the graph.
LEMMA ChosenFacts ==
    ASSUME NEW g \in Graph, Shaped(g), NEW n \in Nodes, NEW truth \in Truths,
           Chosen(g, n, truth) # {}
    PROVE  /\ (CHOOSE e \in Chosen(g, n, truth) : TRUE).to \in Successors(g, n)
           /\ (CHOOSE e \in Chosen(g, n, truth) : TRUE).to \in Present(g)
<1> DEFINE e == CHOOSE x \in Chosen(g, n, truth) : TRUE
<1>1. e \in Chosen(g, n, truth)
  OBVIOUS
<1>2. Chosen(g, n, truth) \subseteq Out(g, n)
  BY DEF Chosen
<1>3. e \in Out(g, n) /\ e \in g.edges
  BY <1>1, <1>2 DEF Out
<1>4. e.to \in Present(g)
  BY <1>3 DEF Shaped
<1> QED
  BY <1>3, <1>4 DEF Successors

\* One turn of the loop keeps a traversal on its way.
LEMMA TurnKeeps ==
    ASSUME NEW g \in Graph, Shaped(g), NEW truth \in Truths, NEW after,
           NEW first \in Present(g), g.type[first] # "notification",
           NEW t \in Traversal, OnItsWay(g, after, truth, first, t)
    PROVE  /\ Turn(g, after, truth, t) \in Traversal
           /\ OnItsWay(g, after, truth, first, Turn(g, after, truth, t))
<1> DEFINE halt == Halt(g, after, truth, t.node)
           sent == IF g.type[t.node] = "notification" THEN Append(t.sent, t.node) ELSE t.sent
           m == (CHOOSE e \in Chosen(g, t.node, truth) : TRUE).to
<1>0. first \in Nodes /\ t.node \in Nodes /\ t.sent \in Seq(Nodes) /\ t.node \in Present(g)
  BY DEF Present, Traversal, OnItsWay
<1>1. CASE t.status # "walking"
  BY <1>1 DEF Turn
<1>2. CASE t.status = "walking" /\ halt # "walking"
  <2> DEFINE u == [t EXCEPT !.status = halt]
  <2>1. Turn(g, after, truth, t) = u
    BY <1>2 DEF Turn
  <2>2. /\ halt \in {"pending", "completed", "no path"}
        /\ halt = "pending" => g.type[t.node] = "approval" /\ {t.node} # after
        /\ halt = "completed" => g.type[t.node] = "end"
        /\ halt = "no path" => g.type[t.node] # "end" /\ Chosen(g, t.node, truth) = {}
    BY <1>0, <1>2 DEF Halt
  <2> HIDE DEF halt
  <2>3. u \in Traversal /\ u.status = halt /\ u.node = t.node /\ u.sent = t.sent
    BY <2>2 DEF Traversal
  <2> HIDE DEF u
  <2> QED
    BY <2>1, <2>2, <2>3 DEF OnItsWay
<1>3. CASE t.status = "walking" /\ halt = "walking"
  <2>0. Chosen(g, t.node, truth) # {}
    BY <1>0, <1>3 DEF Halt
  <2>1. Turn(g, after, truth, t) = Walking(m, sent)
    BY <1>3 DEF Turn
  <2>2. m \in After(g, t.node) /\ m \in Present(g) /\ m \in Nodes
    BY <1>0, <2>0, ChosenFacts, AfterFacts DEF Present
  <2> HIDE DEF m, sent, halt
  <2>3. sent \in Seq(Nodes)
    BY <1>0 DEF sent
  <2>4. /\ Len(t.sent) \in Nat
        /\ \/ sent = t.sent
           \/ /\ sent = Append(t.sent, t.node)
              /\ Len(sent) = Len(t.sent) + 1 /\ sent[Len(t.sent) + 1] = t.node
              /\ g.type[t.node] = "notification"
              /\ \A k \in 1..Len(t.sent) : sent[k] = t.sent[k]
    BY <1>0 DEF sent
  <2>5. ASSUME NEW k \in 1..Len(sent)
        PROVE  \/ k \in 1..Len(t.sent) /\ sent[k] = t.sent[k]
               \/ k = Len(t.sent) + 1 /\ sent[k] = t.node /\ g.type[t.node] = "notification"
    BY <2>4
  <2>c. \A k \in 1..Len(t.sent) : t.sent[k] \in Nodes
    BY <1>0
  <2>6. InOrder(g, sent)
    <3> SUFFICES ASSUME NEW j \in 1..Len(sent), NEW k \in 1..Len(sent), j < k
                 PROVE  sent[k] \in After(g, sent[j])
      BY DEF InOrder
    <3>1. j \in 1..Len(t.sent) /\ sent[j] = t.sent[j]
      BY <2>4, <2>5
    <3>2. CASE k \in 1..Len(t.sent) /\ sent[k] = t.sent[k]
      BY <3>1, <3>2 DEF OnItsWay, InOrder
    <3>3. CASE sent[k] = t.node
      BY <3>1, <3>3 DEF OnItsWay
    <3> QED
      BY <2>5, <3>2, <3>3
  <2>7. \A k \in 1..Len(sent) : m \in After(g, sent[k])
    <3> TAKE k \in 1..Len(sent)
    <3>1. CASE sent[k] = t.node
      BY <2>2, <3>1
    <3>2. CASE k \in 1..Len(t.sent) /\ sent[k] = t.sent[k]
      <4>1. t.node \in After(g, t.sent[k]) /\ t.sent[k] \in Nodes
        BY <2>c, <3>2 DEF OnItsWay
      <4>2. After(g, t.node) \subseteq After(g, t.sent[k])
        BY <4>1, AfterFacts
      <4> QED
        BY <2>2, <3>2, <4>2
    <3> QED
      BY <2>5, <3>1, <3>2
  <2>8. m \in After(g, first) /\ \A k \in 1..Len(sent) : sent[k] \in After(g, first)
    <3>1. CASE t.node = first /\ t.sent = <<>>
      <4>1. Len(t.sent) = 0
        BY <3>1
      <4>2. \A k \in 1..Len(sent) : FALSE
        BY <2>4, <2>5, <3>1, <4>1
      <4> QED
        BY <2>2, <3>1, <4>2
    <3>2. CASE t.node \in After(g, first) /\ \A k \in 1..Len(t.sent) : t.sent[k] \in After(g, first)
      <4>1. After(g, t.node) \subseteq After(g, first)
        BY <1>0, <3>2, AfterFacts
      <4> QED
        BY <2>2, <2>5, <3>2, <4>1
    <3> QED
      BY <3>1, <3>2 DEF OnItsWay
  <2> DEFINE u == Walking(m, sent)
  <2>9. u \in Traversal /\ u.status = "walking" /\ u.node = m /\ u.sent = sent
    BY <2>2, <2>3 DEF Walking, Traversal
  <2> HIDE DEF u
  <2>10. u = Turn(g, after, truth, t)
    BY <2>1 DEF u
  <2> QED
    BY <2>2, <2>6, <2>7, <2>8, <2>9, <2>10 DEF OnItsWay
<1> QED
  BY <1>1, <1>2, <1>3

\* Where a traversal begins.
First(g, after) == IF after = {} THEN StartOf(g) ELSE CHOOSE n \in after : TRUE

\* The node a traversal is at after k turns of its loop.
Loop(g, after, truth) ==
    CHOOSE f : f = [k \in Nat |-> IF k = 0 THEN Walking(First(g, after), <<>>)
                                  ELSE Turn(g, after, truth, f[k - 1])]

\* What a traversal may begin after: nothing, or an approval of the graph.
Afters(g) == {{}} \cup {{n} : n \in OfType(g, "approval")}

\* A traversal begins at a node of the graph that is no notification.
LEMMA FirstFacts ==
    ASSUME NEW g \in Graph, Shaped(g), NEW after \in Afters(g)
    PROVE  /\ First(g, after) \in Present(g)
           /\ g.type[First(g, after)] # "notification"
<1>1. CASE after = {}
  <2>1. OfType(g, "start") # {}
    BY FS_EmptySet DEF Shaped
  <2>2. \E n \in Nodes : g.type[n] = "start"
    BY <2>1 DEF OfType
  <2>3. StartOf(g) \in Nodes /\ g.type[StartOf(g)] = "start"
    BY <2>2 DEF StartOf
  <2> QED
    BY <1>1, <2>3 DEF First, Present
<1>2. ASSUME NEW n \in OfType(g, "approval"), after = {n}
      PROVE  /\ First(g, after) \in Present(g)
             /\ g.type[First(g, after)] # "notification"
  <2>1. First(g, after) = n
    BY <1>2 DEF First
  <2> QED
    BY <2>1 DEF OfType, Present
<1> QED
  BY <1>1, <1>2 DEF Afters

\* The loop is the recursion it is written as, and every turn of it is on its way.
LEMMA LoopFacts ==
    ASSUME NEW g \in Graph, Shaped(g), NEW truth \in Truths, NEW after \in Afters(g)
    PROVE  /\ Loop(g, after, truth)[0] = Walking(First(g, after), <<>>)
           /\ \A k \in Nat :
                /\ Loop(g, after, truth)[k + 1] = Turn(g, after, truth, Loop(g, after, truth)[k])
                /\ Loop(g, after, truth)[k] \in Traversal
                /\ OnItsWay(g, after, truth, First(g, after), Loop(g, after, truth)[k])
<1> DEFINE first == First(g, after)
           D == {t \in Traversal : OnItsWay(g, after, truth, first, t)}
           step == [t \in D |-> Turn(g, after, truth, t)]
           start == Walking(first, <<>>)
<1>1. first \in Present(g) /\ g.type[first] # "notification" /\ first \in Nodes
  BY FirstFacts DEF Present
<1> HIDE DEF first
<1>2. start \in D
  <2>1. <<>> \in Seq(Nodes) /\ Len(<<>>) = 0
    OBVIOUS
  <2>2. start \in Traversal /\ start.status = "walking" /\ start.node = first /\ start.sent = <<>>
    BY <1>1, <2>1 DEF Walking, Traversal
  <2>3. \A k \in 1..Len(start.sent) : FALSE
    BY <2>1, <2>2
  <2> HIDE DEF start
  <2> QED
    BY <1>1, <2>2, <2>3 DEF OnItsWay, InOrder
<1>3. step \in [D -> D]
  BY <1>1, TurnKeeps
<1> HIDE DEF D, start
<1>4. PICK F \in [Nat -> D] : F[0] = start /\ \A n \in Nat : F[n + 1] = step[F[n]]
  <2> HIDE DEF step
  <2> QED
    BY <1>2, <1>3, RecursionExists
<1> DEFINE Solves(f) == f = [k \in Nat |-> IF k = 0 THEN start ELSE Turn(g, after, truth, f[k - 1])]
<1>5. Solves(F)
  <2>1. ASSUME NEW k \in Nat
        PROVE  F[k] = IF k = 0 THEN start ELSE Turn(g, after, truth, F[k - 1])
    <3>1. CASE k = 0
      BY <1>4, <3>1
    <3>2. CASE k # 0
      <4>1. k - 1 \in Nat /\ (k - 1) + 1 = k
        BY <3>2
      <4>2. F[k - 1] \in D /\ F[(k - 1) + 1] = step[F[k - 1]]
        BY <1>4, <4>1
      <4> QED
        BY <3>2, <4>1, <4>2
    <3> QED
      BY <3>1, <3>2
  <2> QED
    BY <2>1
<1> DEFINE L == Loop(g, after, truth)
<1>6. Solves(L)
  BY <1>5 DEF Loop, start, first
<1> HIDE DEF L
<1>7. L[0] = start /\ \A k \in Nat : L[k + 1] = Turn(g, after, truth, L[k])
  BY <1>6
<1> DEFINE T == {k \in Nat : L[k] \in D}
<1>8. Nat \subseteq T
  <2>1. 0 \in T
    BY <1>2, <1>7
  <2>2. ASSUME NEW k \in T \cap Nat
        PROVE  k + 1 \in T
    <3>1. L[k] \in D /\ L[k + 1] = step[L[k]]
      BY <1>7
    <3> QED
      BY <1>3, <3>1
  <2> HIDE DEF T
  <2> QED
    BY <2>1, <2>2, SetInduction
<1> QED
  BY <1>7, <1>8 DEF L, D, start, first

\* A traversal is its loop after one turn more than the graph has nodes.
LEMMA TraverseIsLoop ==
    ASSUME NEW g, NEW after, NEW truth
    PROVE  Traverse(g, after, truth) = Loop(g, after, truth)[Cardinality(Present(g)) + 1]
BY DEF Traverse, Loop, First

\* A graph has a number of nodes.
LEMMA NodeCount ==
    ASSUME NEW g
    PROVE  IsFiniteSet(Present(g)) /\ Cardinality(Present(g)) \in Nat
<1>1. Present(g) \in SUBSET Nodes
  BY DEF Present
<1> QED
  BY <1>1, FiniteNodes, FS_Subset, FS_CardinalityType

\* A traversal returns where it is on its way.
LEMMA TraverseFacts ==
    ASSUME NEW g \in Graph, Shaped(g), NEW truth \in Truths, NEW after \in Afters(g)
    PROVE  /\ Traverse(g, after, truth) \in Traversal
           /\ OnItsWay(g, after, truth, First(g, after), Traverse(g, after, truth))
<1>1. Cardinality(Present(g)) + 1 \in Nat
  BY NodeCount
<1> QED
  BY <1>1, LoopFacts, TraverseIsLoop

\* A turn that does not stop goes to a successor of the node it is at.
LEMMA TurnWalks ==
    ASSUME NEW g \in Graph, Shaped(g), NEW truth \in Truths, NEW after,
           NEW t \in Traversal, Turn(g, after, truth, t).status = "walking"
    PROVE  /\ t.status = "walking"
           /\ Turn(g, after, truth, t).node \in Successors(g, t.node)
<1> DEFINE halt == Halt(g, after, truth, t.node)
<1>1. t.status = "walking" /\ halt = "walking"
  <2>1. CASE t.status # "walking"
    BY <2>1 DEF Turn
  <2>2. CASE t.status = "walking" /\ halt # "walking"
    <3>1. Turn(g, after, truth, t) = [t EXCEPT !.status = halt]
      BY <2>2 DEF Turn
    <3> HIDE DEF halt
    <3>2. [t EXCEPT !.status = halt].status = halt
      BY DEF Traversal
    <3> QED
      BY <2>2, <3>1, <3>2
  <2> QED
    BY <2>1, <2>2
<1>2. Chosen(g, t.node, truth) # {}
  BY <1>1 DEF Halt
<1>3. Turn(g, after, truth, t).node = (CHOOSE e \in Chosen(g, t.node, truth) : TRUE).to
  BY <1>1 DEF Turn, Walking
<1>4. t.node \in Nodes
  BY DEF Traversal
<1> QED
  BY <1>1, <1>2, <1>3, <1>4, ChosenFacts

\* In an acyclic graph a traversal that still walks after k turns has k nodes behind it.
LEMMA NodesBehind ==
    ASSUME NEW g \in Graph, Shaped(g), Acyclic(g), NEW truth \in Truths, NEW after \in Afters(g),
           NEW k \in Nat, Loop(g, after, truth)[k].status = "walking"
    PROVE  \E S \in SUBSET Present(g) :
              /\ IsFiniteSet(S) /\ Cardinality(S) = k
              /\ \A m \in S : Loop(g, after, truth)[k].node \in After(g, m)
<1> DEFINE L == Loop(g, after, truth)
           Behind(n, S) == /\ S \in SUBSET Present(g) /\ IsFiniteSet(S) /\ Cardinality(S) = n
                           /\ \A m \in S : L[n].node \in After(g, m)
           T == {n \in Nat : L[n].status = "walking" => \E S \in SUBSET Present(g) : Behind(n, S)}
<1> HIDE DEF L
<1>1. \A n \in Nat : /\ L[n + 1] = Turn(g, after, truth, L[n])
                     /\ L[n] \in Traversal /\ L[n].node \in Present(g)
  <2> TAKE n \in Nat
  <2>1. OnItsWay(g, after, truth, First(g, after), L[n])
    BY LoopFacts DEF L
  <2>2. L[n].node \in Present(g)
    BY <2>1 DEF OnItsWay
  <2> QED
    BY <2>2, LoopFacts DEF L
<1>2. 0 \in T
  <2>1. Behind(0, {})
    BY FS_EmptySet
  <2> QED
    BY <2>1
<1>3. ASSUME NEW n \in T \cap Nat
      PROVE  n + 1 \in T
  <2> SUFFICES ASSUME L[n + 1].status = "walking"
               PROVE  \E S \in SUBSET Present(g) : Behind(n + 1, S)
    OBVIOUS
  <2>1. L[n].status = "walking" /\ L[n + 1].node \in Successors(g, L[n].node)
    BY <1>1, TurnWalks
  <2>2. PICK S \in SUBSET Present(g) : Behind(n, S)
    BY <2>1
  <2> DEFINE m == L[n].node
  <2>3. m \in Nodes /\ m \in Present(g)
    BY <1>1 DEF Present
  <2>4. L[n + 1].node \in After(g, m)
    BY <2>1, <2>3, AfterFacts
  <2>5. m \notin S
    BY <2>2, <2>3, NothingAfterItself
  <2>6. \A s \in S : L[n + 1].node \in After(g, s)
    <3> TAKE s \in S
    <3>1. s \in Nodes /\ m \in After(g, s)
      BY <2>2 DEF Present
    <3>2. After(g, m) \subseteq After(g, s)
      BY <3>1, AfterFacts
    <3> QED
      BY <2>4, <3>2
  <2>7. IsFiniteSet(S \cup {m}) /\ Cardinality(S \cup {m}) = n + 1
    BY <2>2, <2>5, FS_AddElement
  <2>8. Behind(n + 1, S \cup {m})
    BY <2>2, <2>3, <2>4, <2>6, <2>7
  <2> QED
    BY <2>3, <2>8
<1>4. Nat \subseteq T
  <2> HIDE DEF T
  <2> QED
    BY <1>2, <1>3, SetInduction
<1>5. \E S \in SUBSET Present(g) : Behind(k, S)
  BY <1>4 DEF L
<1> QED
  BY <1>5 DEF L

\* The limit of turns is never reached: in an acyclic graph a traversal stops.
LEMMA TraversalEnds ==
    ASSUME NEW g \in Graph, Shaped(g), Acyclic(g), NEW truth \in Truths, NEW after \in Afters(g)
    PROVE  Traverse(g, after, truth).status \in {"pending", "completed", "no path"}
<1> DEFINE n == Cardinality(Present(g)) + 1
<1>1. n \in Nat /\ Cardinality(Present(g)) \in Nat /\ IsFiniteSet(Present(g))
  BY NodeCount
<1>2. Traverse(g, after, truth) = Loop(g, after, truth)[n]
  BY TraverseIsLoop
<1>3. Traverse(g, after, truth).status # "walking"
  <2> SUFFICES ASSUME Loop(g, after, truth)[n].status = "walking"
               PROVE  FALSE
    BY <1>2
  <2> HIDE DEF n
  <2>1. PICK S \in SUBSET Present(g) : Cardinality(S) = n
    BY <1>1, NodesBehind
  <2>2. Cardinality(S) <= Cardinality(Present(g))
    BY <1>1, FS_Subset
  <2> QED
    BY <1>1, <2>1, <2>2 DEF n
<1> DEFINE r == Traverse(g, after, truth)
<1>4. r \in Traversal /\ r.status # "no node" /\ r.status # "walking"
  BY <1>3, TraverseFacts DEF OnItsWay
<1> HIDE DEF r
<1>5. r.status \in {"pending", "completed", "no path"}
  BY <1>4 DEF Traversal
<1> QED
  BY <1>5 DEF r

\* No notification is built twice.
LEMMA SentOnce ==
    ASSUME NEW g \in Graph, Shaped(g), Acyclic(g), NEW sent \in Seq(Nodes), InOrder(g, sent)
    PROVE  \A i, j \in 1..Len(sent) : sent[i] = sent[j] => i = j
<1> SUFFICES ASSUME NEW i \in 1..Len(sent), NEW j \in 1..Len(sent), sent[i] = sent[j], i # j
             PROVE  FALSE
  OBVIOUS
<1>1. sent[i] \in Nodes /\ sent[j] \in Nodes
  OBVIOUS
<1>2. i < j \/ j < i
  OBVIOUS
<1>3. sent[i] \in After(g, sent[i])
  BY <1>2 DEF InOrder
<1> QED
  BY <1>1, <1>3, NothingAfterItself

\* The edges of a graph are finitely many.
LEMMA FiniteEdges ==
    ASSUME NEW g \in Graph
    PROVE  IsFiniteSet(g.edges)
<1> DEFINE Edges == [from : Nodes, to : Nodes, label : BOOLEAN]
<1>1. IsFiniteSet(BOOLEAN)
  <2>1. IsFiniteSet({TRUE}) /\ BOOLEAN = {TRUE} \cup {FALSE}
    BY FS_Singleton, Zenon
  <2> QED
    BY <2>1, FS_AddElement, Zenon
<1>2. IsFiniteSet(Nodes \X BOOLEAN)
  BY <1>1, FiniteNodes, FS_Product
<1> DEFINE Both == Nodes \X (Nodes \X BOOLEAN)
           pair == [x \in Both |-> [from |-> x[1], to |-> x[2][1], label |-> x[2][2]]]
<1>3. IsFiniteSet(Both)
  BY <1>2, FiniteNodes, FS_Product
<1>4. pair \in Surjection(Both, Edges)
  <2>1. pair \in [Both -> Edges]
    OBVIOUS
  <2>2. ASSUME NEW e \in Edges
        PROVE  \E x \in Both : pair[x] = e
    <3>1. <<e.from, <<e.to, e.label>>>> \in Both
      OBVIOUS
    <3>2. pair[<<e.from, <<e.to, e.label>>>>] = e
      BY <3>1
    <3> QED
      BY <3>1, <3>2
  <2> QED
    BY <2>1, <2>2 DEF Surjection
<1>5. IsFiniteSet(Edges)
  <2> HIDE DEF Both, pair, Edges
  <2> QED
    BY <1>3, <1>4, FS_Surjection
<1>6. g.edges \in SUBSET Edges
  BY DEF Graph
<1> HIDE DEF Edges
<1> QED
  BY <1>5, <1>6, FS_Subset

\* A node a traversal finds no path from has several edges and is no condition.
LEMMA NoPathIsAFork ==
    ASSUME NEW g \in Graph, Shaped(g), NEW n \in Present(g), ~DeadEnd(g, n), NEW truth \in Truths,
           g.type[n] # "end", Chosen(g, n, truth) = {}
    PROVE  g.type[n] # "condition" /\ Cardinality(Out(g, n)) > 1
<1>1. n \in Nodes
  BY DEF Present
<1>2. g.type[n] # "condition"
  <2> SUFFICES ASSUME g.type[n] = "condition"
               PROVE  FALSE
    OBVIOUS
  <2>1. truth[n] \in BOOLEAN /\ n \in OfType(g, "condition")
    BY <1>1 DEF Truths, OfType
  <2>2. \E e \in Out(g, n) : e.label = truth[n]
    BY <2>1 DEF Shaped
  <2> QED
    BY <2>2 DEF Chosen
<1>3. Out(g, n) # {} /\ Cardinality(Out(g, n)) # 1
  BY <1>2 DEF Chosen, DeadEnd
<1>4. IsFiniteSet(Out(g, n))
  <2>1. Out(g, n) \in SUBSET g.edges
    BY DEF Out
  <2> QED
    BY <2>1, FiniteEdges, FS_Subset
<1>5. Cardinality(Out(g, n)) \in Nat /\ Cardinality(Out(g, n)) # 0
  BY <1>3, <1>4, FS_CardinalityType, FS_EmptySet
<1> QED
  BY <1>2, <1>3, <1>5

-----------------------------------------------------------------------------
(* The check of a definition.                                                *)

Frame == [node : Nodes, todo : SUBSET graph.edges]

\* The calls of walk are a path from the start, without a node twice; each has
\* followed its other edges into what is done, but the one to the next call.
CallsArePath ==
    /\ stack \in Seq(Frame) /\ stack # <<>>
    /\ stack[1].node = StartOf(graph)
    /\ \A i \in 1..Len(stack) :
        /\ stack[i].todo \subseteq Out(graph, stack[i].node)
        /\ \A e \in Out(graph, stack[i].node) \ stack[i].todo :
                e.to \in visited \/ (i < Len(stack) /\ e.to = stack[i + 1].node)
        /\ i < Len(stack) => stack[i + 1].node \in Successors(graph, stack[i].node)
        /\ stack[i].node \in Present(graph) \ visited
        /\ stack[i].node \in From(graph, StartOf(graph))
        /\ ~DeadEnd(graph, stack[i].node)
    /\ \A i, j \in 1..Len(stack) : stack[i].node = stack[j].node => i = j

\* What is done is reached from the start, leads nowhere else, and has neither a
\* cycle nor a dead end.
DoneIsSound ==
    /\ visited \subseteq Present(graph) \cap From(graph, StartOf(graph))
    /\ Closed(graph, visited)
    /\ \A n \in visited : ~DeadEnd(graph, n)
    /\ \A S \in SUBSET visited : S # {} => \E n \in S : Successors(graph, n) \cap S = {}

\* The one traversal recorded is one of the accepted graph.
OutcomeIsTraversal ==
    outcome # None =>
        /\ verdict = "accepted"
        /\ \E after \in Afters(graph), truth \in Truths :
                outcome = [after |-> after, result |-> Traverse(graph, after, truth)]

CheckInv ==
    /\ graph \in Graph
    /\ verdict \in {"new", "walking", "accepted", "rejected"}
    /\ verdict = "new" => visited = {} /\ stack = <<>>
    /\ verdict = "walking" => Shaped(graph) /\ CallsArePath /\ DoneIsSound
    /\ AcceptsSoundGraphs
    /\ OutcomeIsTraversal

\* A shaped graph has its start.
LEMMA StartFacts ==
    ASSUME NEW g \in Graph, Shaped(g)
    PROVE  StartOf(g) \in Nodes /\ StartOf(g) \in Present(g)
<1>1. {} \in Afters(g) /\ First(g, {}) = StartOf(g)
  BY DEF Afters, First
<1> QED
  BY <1>1, FirstFacts DEF Present

\* Adding a node that leads into an acyclic closed set, and is not in it, leaves the
\* an acyclic closed set, and is not in it, leaves the set acyclic and closed.
LEMMA DoneGrows ==
    ASSUME NEW g \in Graph, NEW V \in SUBSET Nodes, NEW n \in Nodes, n \notin V, Closed(g, V),
           Successors(g, n) \subseteq V,
           \A S \in SUBSET V : S # {} => \E m \in S : Successors(g, m) \cap S = {}
    PROVE  /\ Closed(g, V \cup {n})
           /\ \A S \in SUBSET (V \cup {n}) : S # {} => \E m \in S : Successors(g, m) \cap S = {}
<1>1. Closed(g, V \cup {n})
  BY DEF Closed
<1>2. ASSUME NEW S \in SUBSET (V \cup {n}), S # {}
      PROVE  \E m \in S : Successors(g, m) \cap S = {}
  <2>1. CASE S \cap V = {}
    <3>1. S = {n}
      BY <1>2, <2>1
    <3> QED
      BY <3>1
  <2>2. CASE S \cap V # {}
    <3>1. S \cap V \in SUBSET V
      OBVIOUS
    <3>2. PICK m \in S \cap V : Successors(g, m) \cap (S \cap V) = {}
      BY <2>2, <3>1
    <3>3. Successors(g, m) \subseteq V
      BY <3>2 DEF Closed
    <3> QED
      BY <3>2, <3>3
  <2> QED
    BY <2>1, <2>2
<1> QED
  BY <1>1, <1>2

\* The first call of walk is the start's.
LEMMA BeginKeeps ==
    ASSUME CheckInv, Begin
    PROVE  CheckInv'
<1> USE DEF CheckInv
<1>0. verdict = "new" /\ visited = {} /\ stack = <<>>
  BY DEF Begin
<1> USE <1>0
<1>1. CASE ~Shaped(graph)
  BY <1>1 DEF Begin, Refuse, AcceptsSoundGraphs, Sound, OutcomeIsTraversal
<1>2. CASE Shaped(graph)
  <2> DEFINE n == StartOf(graph)
  <2>1. n \in Nodes /\ n \in Present(graph)
    BY <1>2, StartFacts
  <2>2. CASE DeadEnd(graph, n)
    <3>1. ~Sound(graph)
      BY <2>1, <2>2 DEF Sound
    <3> QED
      BY <1>2, <2>2, <3>1 DEF Begin, Enter, Refuse, AcceptsSoundGraphs, OutcomeIsTraversal
  <2>3. CASE ~DeadEnd(graph, n)
    <3> DEFINE f == [node |-> n, todo |-> Out(graph, n)]
    <3>1. /\ stack' = Append(<<>>, f) /\ verdict' = "walking"
          /\ UNCHANGED <<graph, visited, outcome>>
      BY <1>2, <2>3 DEF Begin, Enter
    <3>2. f \in Frame /\ f.node = n /\ f.todo = Out(graph, n)
      BY <2>1 DEF Frame, Out
    <3> HIDE DEF f
    <3>3. stack' \in Seq(Frame) /\ Len(stack') = 1 /\ stack'[1] = f
      BY <3>1, <3>2
    <3>4. stack' # <<>>
      <4>1. Len(<<>>) = 0
        OBVIOUS
      <4> QED
        BY <3>3, <4>1
    <3>5. n \in From(graph, n)
      BY <2>1, FromFacts
    <3>6. CallsArePath'
      <4>1. stack' \in Seq(Frame')
        BY <3>1, <3>3 DEF Frame
      <4>2. visited' = {} /\ graph' = graph
        BY <3>1
      <4>3. \A i \in 1..Len(stack') : i = 1 /\ ~(i < Len(stack'))
        BY <3>3
      <4> QED
        BY <2>1, <2>3, <3>2, <3>3, <3>4, <3>5, <4>1, <4>2, <4>3 DEF CallsArePath
    <3>7. DoneIsSound'
      BY <3>1 DEF DoneIsSound, Closed
    <3> QED
      BY <1>2, <3>1, <3>6, <3>7 DEF AcceptsSoundGraphs, OutcomeIsTraversal
  <2> QED
    BY <2>2, <2>3
<1> QED
  BY <1>1, <1>2

\* The top call: its node and an edge it has not followed.
LEMMA TopFacts ==
    ASSUME CallsArePath, graph \in Graph, Shaped(graph)
    PROVE  /\ Len(stack) \in Nat \ {0} /\ Len(stack) \in 1..Len(stack)
           /\ Top \in Frame /\ Top.node \in Nodes
           /\ Top.todo \subseteq Out(graph, Top.node)
           /\ \A e \in Top.todo :
                /\ e.to \in Successors(graph, Top.node)
                /\ e.to \in Present(graph)
                /\ e.to \in From(graph, StartOf(graph))
<1>1. Len(stack) \in Nat /\ Len(stack) # 0
  BY DEF CallsArePath
<1>2. Len(stack) \in 1..Len(stack) /\ stack[Len(stack)] \in Frame
  BY <1>1 DEF CallsArePath
<1>3. Top \in Frame /\ Top.node \in Nodes /\ Top.todo \subseteq Out(graph, Top.node)
  BY <1>2 DEF Top, Frame, CallsArePath
<1>4. Top.node \in From(graph, StartOf(graph))
  BY <1>2 DEF CallsArePath, Top
<1>5. ASSUME NEW e \in Top.todo
      PROVE  /\ e.to \in Successors(graph, Top.node)
             /\ e.to \in Present(graph)
             /\ e.to \in From(graph, StartOf(graph))
  <2>1. e \in Out(graph, Top.node) /\ e \in graph.edges
    BY <1>3 DEF Out
  <2>2. e.to \in Successors(graph, Top.node) /\ e.to \in Present(graph)
    BY <2>1 DEF Successors, Shaped
  <2>3. Closed(graph, From(graph, StartOf(graph)))
    BY StartFacts, FromFacts
  <2> QED
    BY <1>4, <2>2, <2>3 DEF Closed
<1> QED
  BY <1>1, <1>2, <1>3, <1>5

\* A sequence with one element replaced.
LEMMA ReplacedElement ==
    ASSUME NEW S, NEW s \in Seq(S), NEW n \in 1..Len(s), NEW x \in S, NEW t,
           t = [s EXCEPT ![n] = x]
    PROVE  /\ t \in Seq(S) /\ Len(t) = Len(s) /\ t[n] = x
           /\ \A i \in 1..Len(s) : i # n => t[i] = s[i]
OBVIOUS

\* A sequence with one element more.
LEMMA AddedElement ==
    ASSUME NEW S, NEW s \in Seq(S), NEW x \in S
    PROVE  /\ Append(s, x) \in Seq(S) /\ Len(Append(s, x)) = Len(s) + 1
           /\ Append(s, x)[Len(s) + 1] = x
           /\ \A i \in 1..Len(s) : Append(s, x)[i] = s[i]
OBVIOUS

\* Only the edges the top call has left change: the walk is where it was.
LEMMA SkipKeeps ==
    ASSUME CheckInv, verdict = "walking", NEW e \in Top.todo, e.to \in visited,
           stack' = [stack EXCEPT ![Len(stack)].todo = @ \ {e}],
           UNCHANGED <<graph, visited, verdict, outcome>>
    PROVE  CheckInv'
<1> DEFINE n == Len(stack)
<1>0. Shaped(graph) /\ CallsArePath /\ DoneIsSound /\ graph \in Graph
  BY DEF CheckInv
<1>1. /\ n \in Nat \ {0} /\ n \in 1..n /\ n = Len(stack) /\ n \in 1..Len(stack) /\ Top \in Frame
      /\ Top = stack[n] /\ stack \in Seq(Frame)
  BY <1>0, TopFacts DEF CallsArePath, Top
<1> DEFINE f == [stack[n] EXCEPT !.todo = @ \ {e}]
<1>2. f \in Frame /\ f.node = stack[n].node /\ f.todo = stack[n].todo \ {e}
  BY <1>1 DEF Frame
<1>3. stack' = [stack EXCEPT ![n] = f]
  OBVIOUS
<1> HIDE DEF f
<1>4. /\ stack' \in Seq(Frame) /\ Len(stack') = n /\ stack'[n] = f
      /\ \A i \in 1..n : i # n => stack'[i] = stack[i]
  <2> DEFINE t == [stack EXCEPT ![n] = f]
  <2>1. /\ t \in Seq(Frame) /\ Len(t) = n /\ t[n] = f
        /\ \A i \in 1..n : i # n => t[i] = stack[i]
    BY <1>1, <1>2, ReplacedElement
  <2>2. stack' = t
    BY <1>3
  <2> HIDE DEF t
  <2> QED
    BY <2>1, <2>2
<1> HIDE DEF n
<1>5. \A i \in 1..n : /\ stack'[i].node = stack[i].node
                      /\ stack'[i].todo \subseteq stack[i].todo
                      /\ i # n => stack'[i].todo = stack[i].todo
                      /\ i = n => stack'[i].todo = stack[i].todo \ {e}
  BY <1>2, <1>4
<1>6. stack' # <<>>
  <2>1. Len(<<>>) = 0
    OBVIOUS
  <2> QED
    BY <1>1, <1>4, <2>1
<1>7. CallsArePath'
  <2>1. stack' \in Seq(Frame')
    BY <1>4 DEF Frame
  <2>2. ASSUME NEW i \in 1..n
        PROVE  /\ stack'[i].todo \subseteq Out(graph, stack'[i].node)
               /\ \A x \in Out(graph, stack'[i].node) \ stack'[i].todo :
                    x.to \in visited \/ (i < n /\ x.to = stack'[i + 1].node)
               /\ i < n => stack'[i + 1].node \in Successors(graph, stack'[i].node)
               /\ stack'[i].node \in Present(graph) \ visited
               /\ stack'[i].node \in From(graph, StartOf(graph))
               /\ ~DeadEnd(graph, stack'[i].node)
    <3>1. /\ stack[i].todo \subseteq Out(graph, stack[i].node)
          /\ \A x \in Out(graph, stack[i].node) \ stack[i].todo :
               x.to \in visited \/ (i < n /\ x.to = stack[i + 1].node)
          /\ i < n => stack[i + 1].node \in Successors(graph, stack[i].node)
          /\ stack[i].node \in Present(graph) \ visited
          /\ stack[i].node \in From(graph, StartOf(graph))
          /\ ~DeadEnd(graph, stack[i].node)
      BY <1>0 DEF CallsArePath, n
    <3>2. i < n => i + 1 \in 1..n
      BY <1>1
    <3>3. i < n => stack'[i + 1].node = stack[i + 1].node
      BY <1>5, <3>2
    <3>4. \A x \in Out(graph, stack'[i].node) \ stack'[i].todo :
               x.to \in visited \/ (i < n /\ x.to = stack'[i + 1].node)
      <4>1. CASE i = n
        BY <1>5, <3>1, <4>1
      <4>2. CASE i # n
        BY <1>5, <3>1, <3>3, <4>2
      <4> QED
        BY <4>1, <4>2
    <3> QED
      BY <1>5, <3>1, <3>3, <3>4
  <2>3. \A i, j \in 1..n : stack'[i].node = stack'[j].node => i = j
    BY <1>0, <1>5 DEF CallsArePath, n
  <2>4. stack'[1].node = StartOf(graph)
    BY <1>0, <1>1, <1>5 DEF CallsArePath
  <2>5. graph' = graph /\ visited' = visited /\ Len(stack') = n
    BY <1>4
  <2> QED
    BY <1>6, <2>1, <2>2, <2>3, <2>4, <2>5 DEF CallsArePath
<1>8. DoneIsSound'
  BY <1>0 DEF DoneIsSound
<1> QED
  BY <1>7, <1>8 DEF CheckInv, AcceptsSoundGraphs, OutcomeIsTraversal

\* A call of walk for the node an edge of the top call leads to.
LEMMA CallKeeps ==
    ASSUME CheckInv, verdict = "walking", NEW e \in Top.todo,
           e.to \notin visited, e.to \notin Visiting, ~DeadEnd(graph, e.to),
           stack' = Append([stack EXCEPT ![Len(stack)].todo = @ \ {e}],
                           [node |-> e.to, todo |-> Out(graph, e.to)]),
           UNCHANGED <<graph, visited, verdict, outcome>>
    PROVE  CheckInv'
<1> DEFINE n == Len(stack)
<1>0. Shaped(graph) /\ CallsArePath /\ DoneIsSound /\ graph \in Graph
  BY DEF CheckInv
<1>1. /\ n \in Nat \ {0} /\ n \in 1..n /\ n = Len(stack) /\ n \in 1..Len(stack) /\ Top \in Frame
      /\ Top = stack[n] /\ stack \in Seq(Frame)
  BY <1>0, TopFacts DEF CallsArePath, Top
<1>a. /\ e.to \in Successors(graph, stack[n].node) /\ e.to \in Present(graph)
      /\ e.to \in From(graph, StartOf(graph)) /\ e.to \in Nodes
  BY <1>0, <1>1, TopFacts DEF Present
<1> DEFINE f == [stack[n] EXCEPT !.todo = @ \ {e}]
           top == [node |-> e.to, todo |-> Out(graph, e.to)]
           rest == [stack EXCEPT ![n] = f]
<1>2. /\ f \in Frame /\ f.node = stack[n].node /\ f.todo = stack[n].todo \ {e}
      /\ top \in Frame /\ top.node = e.to /\ top.todo = Out(graph, e.to)
  BY <1>1, <1>a DEF Frame, Out
<1>3. stack' = Append(rest, top)
  OBVIOUS
<1> HIDE DEF f, top
<1>b. /\ rest \in Seq(Frame) /\ Len(rest) = n /\ rest[n] = f
      /\ \A i \in 1..n : i # n => rest[i] = stack[i]
  BY <1>1, <1>2, ReplacedElement
<1> HIDE DEF rest
<1>4. /\ stack' \in Seq(Frame) /\ Len(stack') = n + 1 /\ stack'[n] = f /\ stack'[n + 1] = top
      /\ \A i \in 1..n : i # n => stack'[i] = stack[i]
  <2>1. /\ stack' \in Seq(Frame) /\ Len(stack') = n + 1 /\ stack'[n + 1] = top
        /\ \A i \in 1..n : stack'[i] = rest[i]
    <3> DEFINE t == Append(rest, top)
    <3>1. /\ t \in Seq(Frame) /\ Len(t) = n + 1 /\ t[n + 1] = top
          /\ \A i \in 1..n : t[i] = rest[i]
      BY <1>2, <1>b, AddedElement
    <3>2. stack' = t
      BY <1>3
    <3> HIDE DEF t
    <3> QED
      BY <3>1, <3>2
  <2> HIDE DEF n
  <2> QED
    BY <1>1, <1>b, <2>1
<1>c. \A i \in 1..n : stack[i].node # e.to
  BY DEF Visiting, n
<1> HIDE DEF n
<1>5. \A i \in 1..n : /\ stack'[i].node = stack[i].node
                      /\ stack'[i].todo \subseteq stack[i].todo
                      /\ i # n => stack'[i].todo = stack[i].todo
                      /\ i = n => stack'[i].todo = stack[i].todo \ {e}
  BY <1>2, <1>4
<1>6. stack' # <<>>
  <2>1. Len(<<>>) = 0
    OBVIOUS
  <2> QED
    BY <1>1, <1>4, <2>1
<1>7. CallsArePath'
  <2>1. stack' \in Seq(Frame')
    BY <1>4 DEF Frame
  <2>2. ASSUME NEW i \in 1..(n + 1)
        PROVE  /\ stack'[i].todo \subseteq Out(graph, stack'[i].node)
               /\ \A x \in Out(graph, stack'[i].node) \ stack'[i].todo :
                    x.to \in visited \/ (i < n + 1 /\ x.to = stack'[i + 1].node)
               /\ i < n + 1 => stack'[i + 1].node \in Successors(graph, stack'[i].node)
               /\ stack'[i].node \in Present(graph) \ visited
               /\ stack'[i].node \in From(graph, StartOf(graph))
               /\ ~DeadEnd(graph, stack'[i].node)
    <3>1. CASE i = n + 1
      <4>1. stack'[i].node = e.to /\ stack'[i].todo = Out(graph, e.to) /\ ~(i < n + 1)
        BY <1>1, <1>2, <1>4, <3>1
      <4> QED
        BY <1>a, <4>1
    <3>2. CASE i # n + 1
      <4>0. i \in 1..n /\ (i < n => i + 1 \in 1..n)
        BY <1>1, <3>2
      <4>1. /\ stack[i].todo \subseteq Out(graph, stack[i].node)
            /\ \A x \in Out(graph, stack[i].node) \ stack[i].todo :
                 x.to \in visited \/ (i < n /\ x.to = stack[i + 1].node)
            /\ i < n => stack[i + 1].node \in Successors(graph, stack[i].node)
            /\ stack[i].node \in Present(graph) \ visited
            /\ stack[i].node \in From(graph, StartOf(graph))
            /\ ~DeadEnd(graph, stack[i].node)
        BY <1>0, <4>0 DEF CallsArePath, n
      <4>2. stack'[i].node = stack[i].node /\ stack'[i].todo \subseteq stack[i].todo
        BY <1>5, <4>0
      <4>3. /\ \A x \in Out(graph, stack'[i].node) \ stack'[i].todo :
                    x.to \in visited \/ (i < n + 1 /\ x.to = stack'[i + 1].node)
            /\ i < n + 1 => stack'[i + 1].node \in Successors(graph, stack'[i].node)
        <5>1. CASE i = n
          <6>1. stack'[i + 1].node = e.to /\ i < n + 1 /\ ~(i < n)
            BY <1>1, <1>2, <1>4, <5>1
          <6>2. stack'[i].todo = stack[i].todo \ {e}
            BY <1>5, <4>0, <5>1
          <6> QED
            BY <1>a, <4>1, <4>2, <5>1, <6>1, <6>2
        <5>2. CASE i # n
          <6>0. i < n /\ i + 1 \in 1..n
            BY <1>1, <4>0, <5>2
          <6>1. i < n /\ stack'[i + 1].node = stack[i + 1].node /\ stack'[i].todo = stack[i].todo
            BY <1>5, <4>0, <5>2, <6>0
          <6>2. \A x \in Out(graph, stack[i].node) \ stack[i].todo :
                    x.to \in visited \/ (i < n + 1 /\ x.to = stack'[i + 1].node)
            BY <1>1, <4>0, <4>1, <6>1
          <6> QED
            BY <4>1, <4>2, <6>1, <6>2
        <5> QED
          BY <5>1, <5>2
      <4> QED
        BY <4>1, <4>2, <4>3
    <3> QED
      BY <3>1, <3>2
  <2>3. \A i, j \in 1..(n + 1) : stack'[i].node = stack'[j].node => i = j
    <3>1. \A i \in 1..(n + 1) : \/ i = n + 1 /\ stack'[i].node = e.to
                                \/ i \in 1..n /\ stack'[i].node = stack[i].node
      BY <1>1, <1>2, <1>4, <1>5
    <3>2. \A i, j \in 1..n : stack[i].node = stack[j].node => i = j
      BY <1>0 DEF CallsArePath, n
    <3> QED
      BY <1>c, <3>1, <3>2
  <2>4. stack'[1].node = StartOf(graph)
    BY <1>0, <1>1, <1>5 DEF CallsArePath
  <2>5. graph' = graph /\ visited' = visited /\ Len(stack') = n + 1
    BY <1>4
  <2> QED
    BY <1>6, <2>1, <2>2, <2>3, <2>4, <2>5 DEF CallsArePath
<1>8. DoneIsSound'
  BY <1>0 DEF DoneIsSound
<1> QED
  BY <1>7, <1>8 DEF CheckInv, AcceptsSoundGraphs, OutcomeIsTraversal

\* An edge back into a call that has not returned closes a cycle.
LEMMA EdgeBackIsCycle ==
    ASSUME graph \in Graph, Shaped(graph), CallsArePath, NEW e \in Top.todo, e.to \in Visiting
    PROVE  ~Acyclic(graph)
<1> DEFINE n == Len(stack)
<1>1. n \in Nat \ {0} /\ n \in 1..n /\ e.to \in Successors(graph, stack[n].node)
  BY TopFacts DEF Top
<1>2. PICK i \in 1..n : stack[i].node = e.to
  BY DEF Visiting
<1> DEFINE S == {stack[j].node : j \in i..n}
<1>3. S \in SUBSET Present(graph) /\ S # {}
  <2>1. \A j \in i..n : j \in 1..n
    BY <1>1
  <2>2. i \in i..n
    BY <1>1
  <2> QED
    BY <2>1, <2>2 DEF CallsArePath
<1>4. ASSUME NEW j \in i..n
      PROVE  Successors(graph, stack[j].node) \cap S # {}
  <2>1. CASE j = n
    <3>1. e.to \in S
      BY <1>1, <1>2
    <3> QED
      BY <1>1, <2>1, <3>1
  <2>2. CASE j # n
    <3>1. j \in 1..n /\ j < n /\ j + 1 \in i..n
      BY <1>1, <2>2
    <3>2. stack[j + 1].node \in Successors(graph, stack[j].node)
      BY <3>1 DEF CallsArePath
    <3> QED
      BY <3>1, <3>2
  <2> QED
    BY <2>1, <2>2
<1>5. \A x \in S : Successors(graph, x) \cap S # {}
  BY <1>4
<1> HIDE DEF S
<1> QED
  BY <1>3, <1>5 DEF Acyclic

\* A walk that refuses a graph that is not sound keeps the invariant.
LEMMA RefuseKeeps ==
    ASSUME CheckInv, verdict = "walking", Refuse, ~Sound(graph)
    PROVE  CheckInv'
BY DEF CheckInv, Refuse, AcceptsSoundGraphs, OutcomeIsTraversal

\* The loop over the edges of the top call.
LEMMA FollowKeeps ==
    ASSUME CheckInv, Follow
    PROVE  CheckInv'
<1>1. verdict = "walking" /\ Shaped(graph) /\ CallsArePath /\ DoneIsSound /\ graph \in Graph
  BY DEF CheckInv, Follow
<1> DEFINE Rest(e) == [stack EXCEPT ![Len(stack)].todo = @ \ {e}]
<1>2. Visiting \cap visited = {}
  BY <1>1 DEF Visiting, CallsArePath
<1>3. PICK e \in Top.todo :
        \/ e.to \in Visiting /\ Refuse
        \/ /\ e.to \in visited
           /\ stack' = Rest(e) /\ UNCHANGED <<graph, visited, verdict, outcome>>
        \/ e.to \notin visited \cup Visiting /\ DeadEnd(graph, e.to) /\ Refuse
        \/ /\ e.to \notin visited \cup Visiting /\ ~DeadEnd(graph, e.to)
           /\ stack' = Append(Rest(e), [node |-> e.to, todo |-> Out(graph, e.to)])
           /\ UNCHANGED <<graph, visited, verdict, outcome>>
  BY <1>2 DEF Follow
<1>4. e.to \in Present(graph)
  BY <1>1, TopFacts
<1>5. CASE e.to \in Visiting /\ Refuse
  <2>1. ~Sound(graph)
    BY <1>1, <1>5, EdgeBackIsCycle DEF Sound
  <2> QED
    BY <1>1, <1>5, <2>1, RefuseKeeps
<1>6. CASE /\ e.to \in visited
           /\ stack' = Rest(e) /\ UNCHANGED <<graph, visited, verdict, outcome>>
  BY <1>1, <1>6, SkipKeeps
<1>7. CASE e.to \notin visited \cup Visiting /\ DeadEnd(graph, e.to) /\ Refuse
  <2>1. ~Sound(graph)
    BY <1>4, <1>7 DEF Sound
  <2> QED
    BY <1>1, <1>7, <2>1, RefuseKeeps
<1>8. CASE /\ e.to \notin visited \cup Visiting /\ ~DeadEnd(graph, e.to)
           /\ stack' = Append(Rest(e), [node |-> e.to, todo |-> Out(graph, e.to)])
           /\ UNCHANGED <<graph, visited, verdict, outcome>>
  BY <1>1, <1>8, CallKeeps
<1> QED
  BY <1>3, <1>5, <1>6, <1>7, <1>8

\* A sequence without its last element.
LEMMA AllButLast ==
    ASSUME NEW S, NEW s \in Seq(S), Len(s) # 0
    PROVE  /\ SubSeq(s, 1, Len(s) - 1) \in Seq(S)
           /\ Len(SubSeq(s, 1, Len(s) - 1)) = Len(s) - 1
           /\ \A i \in 1..(Len(s) - 1) : SubSeq(s, 1, Len(s) - 1)[i] = s[i]
<1> DEFINE n == Len(s) - 1
<1>1. n \in Nat /\ 1 \in 1..(Len(s) + 1) /\ n \in (1 - 1)..Len(s)
  OBVIOUS
<1>2. /\ SubSeq(s, 1, n) \in Seq(S) /\ Len(SubSeq(s, 1, n)) = n - 1 + 1
      /\ \A i \in 1..(n - 1 + 1) : SubSeq(s, 1, n)[i] = s[1 + i - 1]
  <2> HIDE DEF n
  <2> QED
    BY <1>1, SubSeqProperties
<1> HIDE DEF n
<1>3. \A i \in 1..n : i \in 1..(n - 1 + 1) /\ 1 + i - 1 = i
  BY <1>1
<1>4. /\ SubSeq(s, 1, n) \in Seq(S) /\ Len(SubSeq(s, 1, n)) = n
      /\ \A i \in 1..n : SubSeq(s, 1, n)[i] = s[i]
  BY <1>1, <1>2, <1>3
<1> QED
  BY <1>4 DEF n

\* The top call returns: its node is done; the last call leaves it to the count.
LEMMA ReturnKeeps ==
    ASSUME CheckInv, Return
    PROVE  CheckInv'
<1> DEFINE n == Len(stack)
           m == Top.node
           done == visited \cup {m}
<1>0. /\ verdict = "walking" /\ Shaped(graph) /\ CallsArePath /\ DoneIsSound /\ graph \in Graph
      /\ Top.todo = {} /\ visited' = done /\ graph' = graph /\ outcome' = outcome
      /\ verdict' = IF n > 1 THEN "walking" ELSE IF done = Present(graph) THEN "accepted" ELSE "rejected"
      /\ AcceptsSoundGraphs /\ OutcomeIsTraversal
  BY DEF Return, CheckInv
<1>1. /\ n \in Nat \ {0} /\ n \in 1..n /\ n = Len(stack) /\ n \in 1..Len(stack)
      /\ m = stack[n].node /\ stack[n].todo = {} /\ stack \in Seq(Frame) /\ m \in Nodes
  BY <1>0, TopFacts DEF CallsArePath, Top
<1>2. /\ m \in Present(graph) \ visited /\ m \in From(graph, StartOf(graph)) /\ ~DeadEnd(graph, m)
      /\ \A e \in Out(graph, m) : e.to \in visited
  BY <1>0, <1>1 DEF CallsArePath
<1>3. /\ Closed(graph, done)
      /\ \A S \in SUBSET done : S # {} => \E x \in S : Successors(graph, x) \cap S = {}
  <2>1. visited \in SUBSET Nodes
    BY <1>0 DEF DoneIsSound, Present
  <2>2. Successors(graph, m) \subseteq visited
    BY <1>2 DEF Successors
  <2>3. m \notin visited /\ Closed(graph, visited)
    BY <1>0, <1>2 DEF DoneIsSound
  <2>4. \A S \in SUBSET visited : S # {} => \E x \in S : Successors(graph, x) \cap S = {}
    BY <1>0 DEF DoneIsSound
  <2> QED
    BY <1>0, <1>1, <2>1, <2>2, <2>3, <2>4, DoneGrows
<1>4. /\ done \subseteq Present(graph) \cap From(graph, StartOf(graph))
      /\ \A x \in done : ~DeadEnd(graph, x)
  BY <1>0, <1>2 DEF DoneIsSound
<1> DEFINE t == SubSeq(stack, 1, n - 1)
<1>5. /\ t \in Seq(Frame) /\ Len(t) = n - 1 /\ \A i \in 1..(n - 1) : t[i] = stack[i]
  BY <1>1, AllButLast
<1>6. stack' = t
  BY DEF Return
<1> HIDE DEF t, m
<1>7. CASE n > 1
  <2>1. verdict' = "walking"
    BY <1>0, <1>7
  <2>2. Len(stack') = n - 1 /\ \A i \in 1..(n - 1) : stack'[i] = stack[i] /\ i \in 1..n
    BY <1>1, <1>5, <1>6
  <2>3. CallsArePath'
    <3>1. stack' \in Seq(Frame')
      BY <1>0, <1>5, <1>6 DEF Frame
    <3>2. stack' # <<>>
      <4>1. Len(<<>>) = 0
        OBVIOUS
      <4> QED
        BY <1>1, <1>7, <2>2, <4>1
    <3>3. ASSUME NEW i \in 1..(n - 1)
          PROVE  /\ stack'[i].todo \subseteq Out(graph, stack'[i].node)
                 /\ \A e \in Out(graph, stack'[i].node) \ stack'[i].todo :
                        e.to \in done \/ (i < n - 1 /\ e.to = stack'[i + 1].node)
                 /\ i < n - 1 => stack'[i + 1].node \in Successors(graph, stack'[i].node)
                 /\ stack'[i].node \in Present(graph) \ done
                 /\ stack'[i].node \in From(graph, StartOf(graph))
                 /\ ~DeadEnd(graph, stack'[i].node)
      <4>1. i \in 1..n /\ i < n /\ i # n
        BY <1>1
      <4>2. /\ stack[i].todo \subseteq Out(graph, stack[i].node)
            /\ \A e \in Out(graph, stack[i].node) \ stack[i].todo :
                   e.to \in visited \/ (i < n /\ e.to = stack[i + 1].node)
            /\ i < n => stack[i + 1].node \in Successors(graph, stack[i].node)
            /\ stack[i].node \in Present(graph) \ visited
            /\ stack[i].node \in From(graph, StartOf(graph))
            /\ ~DeadEnd(graph, stack[i].node)
        BY <1>0, <4>1 DEF CallsArePath
      <4>3. stack[i].node # m
        BY <1>0, <1>1, <4>1 DEF CallsArePath
      <4>4. CASE i = n - 1
        <5>1. stack[i + 1].node = m
          BY <1>1, <4>4
        <5>2. stack'[i] = stack[i] /\ ~(i < n - 1)
          BY <1>1, <2>2, <4>4
        <5> QED
          BY <4>2, <4>3, <5>1, <5>2
      <4>5. CASE i # n - 1
        <5>1. i < n - 1 /\ i + 1 \in 1..(n - 1)
          BY <1>1, <4>5
        <5>2. stack'[i] = stack[i] /\ stack'[i + 1] = stack[i + 1]
          BY <2>2, <5>1
        <5> QED
          BY <4>1, <4>2, <4>3, <5>1, <5>2
      <4> QED
        BY <4>4, <4>5
    <3>4. \A i, j \in 1..(n - 1) : stack'[i].node = stack'[j].node => i = j
      BY <1>0, <1>1, <2>2 DEF CallsArePath
    <3>5. stack'[1].node = StartOf(graph)
      <4>1. 1 \in 1..(n - 1)
        BY <1>1, <1>7
      <4> QED
        BY <1>0, <2>2, <4>1 DEF CallsArePath
    <3> HIDE DEF n, done
    <3> QED
      BY <1>0, <2>2, <3>1, <3>2, <3>3, <3>4, <3>5 DEF CallsArePath
  <2>4. DoneIsSound'
    <3> HIDE DEF done
    <3> QED
      BY <1>0, <1>3, <1>4 DEF DoneIsSound
  <2> QED
    BY <1>0, <2>1, <2>3, <2>4 DEF CheckInv, AcceptsSoundGraphs, OutcomeIsTraversal
<1>8. CASE ~(n > 1)
  <2>0. n = 1 /\ stack[1].node = StartOf(graph)
    <3>1. stack[1].node = StartOf(graph)
      BY <1>0 DEF CallsArePath
    <3> HIDE DEF n
    <3> QED
      BY <1>1, <1>8, <3>1
  <2>1. n = 1 /\ m = StartOf(graph)
    BY <1>1, <2>0
  <2>2. /\ verdict' = IF done = Present(graph) THEN "accepted" ELSE "rejected"
        /\ outcome = None
    BY <1>0, <1>8 DEF OutcomeIsTraversal
  <2>3. CASE done = Present(graph)
    <3>1. Acyclic(graph)
      BY <1>3, <2>3 DEF Acyclic
    <3>2. AllReachable(graph)
      <4> SUFFICES ASSUME NEW S \in SUBSET Nodes, StartOf(graph) \in S,
                          \A x \in S : Successors(graph, x) \subseteq S
                   PROVE  Present(graph) \subseteq S
        BY DEF AllReachable
      <4>1. From(graph, StartOf(graph)) \subseteq S
        BY DEF From, Closed
      <4> QED
        BY <1>4, <2>3, <4>1
    <3>3. Sound(graph)
      BY <1>0, <1>4, <2>3, <3>1, <3>2 DEF Sound
    <3> QED
      BY <1>0, <2>2, <2>3, <3>3 DEF CheckInv, AcceptsSoundGraphs, OutcomeIsTraversal
  <2>4. CASE done # Present(graph)
    <3>1. ~AllReachable(graph)
      <4>1. done \in SUBSET Nodes /\ StartOf(graph) \in done
        BY <1>4, <2>1 DEF Present
      <4>2. \A x \in done : Successors(graph, x) \subseteq done
        BY <1>3 DEF Closed
      <4>3. ~(Present(graph) \subseteq done)
        BY <1>4, <2>4
      <4> HIDE DEF done
      <4> QED
        BY <4>1, <4>2, <4>3 DEF AllReachable
    <3>2. ~Sound(graph)
      BY <3>1 DEF Sound
    <3> QED
      BY <1>0, <2>2, <2>4, <3>2 DEF CheckInv, AcceptsSoundGraphs, OutcomeIsTraversal
  <2> QED
    BY <2>3, <2>4
<1> QED
  BY <1>7, <1>8

\* Every action of the check keeps its invariant.
LEMMA CheckKeeps ==
    ASSUME CheckInv, [CheckNext]_checkVars
    PROVE  CheckInv'
<1>1. CASE UNCHANGED checkVars
  <2> USE <1>1 DEF checkVars, CheckInv
  <2>1. CallsArePath' = CallsArePath
    BY DEF CallsArePath, Frame
  <2>2. DoneIsSound' = DoneIsSound
    BY DEF DoneIsSound
  <2>3. AcceptsSoundGraphs' /\ OutcomeIsTraversal'
    BY DEF AcceptsSoundGraphs, OutcomeIsTraversal
  <2> QED
    BY <2>1, <2>2, <2>3
<1>2. ASSUME Run
      PROVE  CheckInv'
  <2>1. /\ verdict = "accepted" /\ UNCHANGED <<graph, stack, visited, verdict>>
        /\ \E after \in Afters(graph), truth \in Truths :
              outcome' = [after |-> after, result |-> Traverse(graph, after, truth)]
    BY <1>2 DEF Run, Afters
  <2> QED
    BY <2>1 DEF CheckInv, AcceptsSoundGraphs, OutcomeIsTraversal
<1> QED
  BY <1>1, <1>2, BeginKeeps, FollowKeeps, ReturnKeeps DEF CheckNext

\* The check begins with nothing visited.
LEMMA CheckInvariance == CheckSpec => []CheckInv
<1>1. CheckInit => CheckInv
  BY DEF CheckInit, CheckBegins, CheckInv, AcceptsSoundGraphs, OutcomeIsTraversal
<1>2. CheckInv /\ [CheckNext]_checkVars => CheckInv'
  BY CheckKeeps
<1> QED
  BY <1>1, <1>2, PTL DEF CheckSpec

\* For graphs of any size, in whatever order the edges are walked, the check accepts
\* exactly those that are shaped, acyclic, reachable from the start and without dead ends.
THEOREM CheckIsExact == CheckSpec => []AcceptsSoundGraphs
<1>1. CheckInv => AcceptsSoundGraphs
  BY DEF CheckInv
<1> QED
  BY <1>1, CheckInvariance, PTL

\* Where a traversal that began after "after" should stop, and what it should have built.
Stops(g, after, r) ==
    /\ \/ r.status = "pending" /\ g.type[r.node] = "approval" /\ {r.node} # after
       \/ r.status = "completed" /\ g.type[r.node] = "end"
       \/ /\ r.status = "no path" /\ g.type[r.node] # "condition"
          /\ Cardinality(Out(g, r.node)) > 1
    /\ \A i, j \in 1..Len(r.sent) : r.sent[i] = r.sent[j] => i = j

\* A traversal of a sound graph stops where it should, and notifies nobody twice.
LEMMA SoundTraversal ==
    ASSUME NEW g \in Graph, Sound(g), NEW after \in Afters(g), NEW truth \in Truths
    PROVE  Stops(g, after, Traverse(g, after, truth))
<1> DEFINE r == Traverse(g, after, truth)
<1>1. Shaped(g) /\ Acyclic(g) /\ \A n \in Present(g) : ~DeadEnd(g, n)
  BY DEF Sound
<1>2. /\ r \in Traversal
      /\ OnItsWay(g, after, truth, First(g, after), r)
      /\ r.status \in {"pending", "completed", "no path"}
  BY <1>1, TraverseFacts, TraversalEnds
<1> HIDE DEF r
<1>3. r.sent \in Seq(Nodes) /\ InOrder(g, r.sent) /\ r.node \in Present(g)
  BY <1>2 DEF Traversal, OnItsWay
<1>4. \A i, j \in 1..Len(r.sent) : r.sent[i] = r.sent[j] => i = j
  BY <1>1, <1>3, SentOnce
<1>5. ASSUME r.status = "no path" PROVE Stops(g, after, r)
  <2>1. g.type[r.node] # "end" /\ Chosen(g, r.node, truth) = {}
    BY <1>2, <1>5 DEF OnItsWay
  <2>2. g.type[r.node] # "condition" /\ Cardinality(Out(g, r.node)) > 1
    BY <1>1, <1>3, <2>1, NoPathIsAFork
  <2> QED
    BY <1>4, <1>5, <2>2 DEF Stops
<1>6. ASSUME r.status # "no path" PROVE Stops(g, after, r)
  BY <1>2, <1>4, <1>6 DEF OnItsWay, Stops
<1> QED
  BY <1>5, <1>6 DEF r

\* In a graph of any size that the check accepted, a traversal never loses its node
\* nor runs into its limit of turns: it stops at another approval, an end or a fork.
THEOREM AcceptedGraphsAreWalked == CheckSpec => []TraversalStops
<1>1. CheckInv => TraversalStops
  <2> SUFFICES ASSUME CheckInv, outcome # None
               PROVE  TraversalStops
    BY DEF TraversalStops
  <2>1. graph \in Graph /\ Sound(graph)
    BY DEF CheckInv, OutcomeIsTraversal, AcceptsSoundGraphs
  <2>2. PICK after \in Afters(graph), truth \in Truths :
            outcome = [after |-> after, result |-> Traverse(graph, after, truth)]
    BY DEF CheckInv, OutcomeIsTraversal
  <2>3. outcome.after = after /\ outcome.result = Traverse(graph, after, truth)
    BY <2>2
  <2>4. Stops(graph, after, Traverse(graph, after, truth))
    BY <2>1, SoundTraversal
  <2>5. Stops(graph, outcome.after, outcome.result)
    BY <2>3, <2>4
  <2> QED
    BY <2>5 DEF TraversalStops, Stops
<1> QED
  BY <1>1, CheckInvariance, PTL

-----------------------------------------------------------------------------
(* The engine.                                                               *)

\* A request's copy of the definition is old, or it is the definition.
DefinitionCopies ==
    \A r \in Actors : request[r].pc \in {"starting", "deciding"} =>
        /\ request[r].under <= definition.version
        /\ request[r].under = definition.version =>
              definition.status = "active" /\ request[r].graph = definition.graph

\* What a request decides is an approval of the graph it decides by.
DecidesApproval ==
    \A r \in Actors : request[r].pc = "deciding" => request[r].graph.type[request[r].node] = "approval"

\* A request's copy of the instance is old, or the instance is still where it was.
InstanceCopies ==
    \A r \in Actors : request[r].pc \in {"loading", "deciding"} =>
        LET i == request[r].id
        IN  /\ Started(i)
            /\ request[r].version <= instance[i].version
            /\ request[r].version = instance[i].version => request[r].node = instance[i].node

\* Where an instance is, by the definition that led it there.
Arrived ==
    \A i \in Instances : Started(i) =>
        /\ origin[i].status = "started"
        /\ MovedUnder(i) <= definition.version
        /\ instance[i].status = "pending" /\ MovedUnder(i) = definition.version =>
              definition.status = "active" /\ definition.graph.type[instance[i].node] = "approval"

\* Nothing is recorded of an instance that was not started.
Unstarted == \A i \in Instances : ~Started(i) => actions[i] = <<>>

IInv ==
    /\ TypeOK
    /\ DefinitionCopies
    /\ DecidesApproval
    /\ InstanceCopies
    /\ HistoryIsPath
    /\ Arrived
    /\ Unstarted

\* The initial rows are of their types and no request knows anything.
LEMMA InitIInv == Init => IInv
<1> SUFFICES ASSUME Init PROVE IInv
  OBVIOUS
<1>1. TypeOK
  BY DEF Init, TypeOK, RequestState
<1>2. \A i \in Instances : ~Started(i) /\ actions[i] = <<>>
  BY DEF Init, Started, Absent
<1>3. \A r \in Actors : request[r] = [pc |-> "idle"]
  BY DEF Init, Idle
<1> QED
  BY <1>1, <1>2, <1>3 DEF IInv, DefinitionCopies, DecidesApproval, InstanceCopies, HistoryIsPath, Arrived, Unstarted

\* Where a traversal of g leads from the approval in after, or from the start.
LeadsOn(g, after, t) ==
    /\ t.node \in Nodes /\ t.sent \in Seq(Nodes)
    /\ InOrder(g, t.sent)
    /\ \A n \in after : \A k \in 1..Len(t.sent) : t.sent[k] \in After(g, n)
    /\ t.status = "pending" =>
         /\ g.type[t.node] = "approval"
         /\ \A n \in after : t.node \in After(g, n)
         /\ \A k \in 1..Len(t.sent) : t.node \in After(g, t.sent[k])

\* By an accepted definition, a traversal leads on.
LEMMA DefinitionsLeadOn ==
    ASSUME NEW g \in Definitions, NEW after \in Afters(g), NEW truth \in Truths
    PROVE  g \in Graph /\ Sound(g) /\ LeadsOn(g, after, Traverse(g, after, truth))
<1> DEFINE t == Traverse(g, after, truth)
<1>1. g \in Graph /\ Sound(g) /\ Shaped(g)
  BY WorkflowEngineAssumption, AcceptedDefinitions DEF Sound
<1>2. t \in Traversal /\ OnItsWay(g, after, truth, First(g, after), t)
  BY <1>1, TraverseFacts
<1> HIDE DEF t
<1>3. t.node \in Nodes /\ t.sent \in Seq(Nodes)
  BY <1>2 DEF Traversal
<1>4. Len(<<>>) = 0
  OBVIOUS
<1>5. ASSUME NEW n \in after
      PROVE  /\ \A k \in 1..Len(t.sent) : t.sent[k] \in After(g, n)
             /\ t.status = "pending" => t.node \in After(g, n)
  <2>1. after = {n} /\ First(g, after) = n
    BY DEF Afters, First
  <2>2. CASE t.node = n /\ t.sent = <<>>
    <3>1. t.status # "pending"
      BY <1>2, <2>1, <2>2 DEF OnItsWay
    <3>2. \A k \in 1..Len(t.sent) : FALSE
      BY <1>4, <2>2
    <3> QED
      BY <3>1, <3>2
  <2>3. CASE t.node \in After(g, n) /\ \A k \in 1..Len(t.sent) : t.sent[k] \in After(g, n)
    BY <2>3
  <2> QED
    BY <1>2, <2>1, <2>2, <2>3 DEF OnItsWay
<1>6. LeadsOn(g, after, t)
  BY <1>2, <1>3, <1>5 DEF LeadsOn, OnItsWay
<1> QED
  BY <1>1, <1>6 DEF t

-----------------------------------------------------------------------------
(* What each action preserves.                                             *)

\* A request in a phase that holds copies holds copies of the right types.
LEMMA RequestTypes ==
    ASSUME TypeOK, NEW r \in Actors
    PROVE  /\ request[r].pc \in {"idle", "starting", "loading", "deciding"}
           /\ request[r].pc \in {"starting", "deciding"} =>
                 request[r].under \in Nat /\ request[r].graph \in Definitions
           /\ request[r].pc \in {"loading", "deciding"} =>
                 /\ request[r].id \in Instances
                 /\ request[r].node \in Nodes
                 /\ request[r].version \in Nat
<1>1. request[r] \in RequestState
  BY DEF TypeOK
<1> QED
  BY <1>1 DEF RequestState, Idle

\* A sequence that is not empty ends with one of its elements.
LEMMA LastElement ==
    ASSUME NEW S, NEW seq \in Seq(S), seq # <<>>
    PROVE  Len(seq) \in Nat \ {0} /\ seq[Len(seq)] \in S
<1>1. Len(seq) \in Nat /\ Len(seq) # 0
  OBVIOUS
<1> QED
  BY <1>1

\* A sequence's elements come from the set it is a sequence over.
LEMMA ElementsOf ==
    ASSUME NEW S, NEW seq \in Seq(S)
    PROVE  \A k \in 1..Len(seq) : seq[k] \in S
OBVIOUS

\* What is appended to a sequence is the last of it.
LEMMA AppendedLast ==
    ASSUME NEW S, NEW seq \in Seq(S), NEW e \in S
    PROVE  Append(seq, e) # <<>> /\ Append(seq, e)[Len(Append(seq, e))] = e
<1>1. Len(Append(seq, e)) = Len(seq) + 1 /\ Append(seq, e)[Len(seq) + 1] = e /\ Len(seq) \in Nat
  OBVIOUS
<1>2. Len(Append(seq, e)) # 0
  BY <1>1
<1>3. Append(seq, e) # <<>>
  <2>1. Len(<<>>) = 0
    OBVIOUS
  <2> QED
    BY <1>2, <2>1, Zenon
<1> QED
  BY <1>1, <1>3

\* The version an instance got where it is under is a number.
LEMMA MovedUnderType ==
    ASSUME IInv, NEW i \in Instances, Started(i)
    PROVE  MovedUnder(i) \in Nat
<1>1. CASE actions[i] = <<>>
  <2>1. origin[i].status = "started"
    BY DEF IInv, Arrived
  <2>2. origin[i] \in {Absent} \cup [status : {"started"}, node : Nodes, under : Nat]
    BY DEF IInv, TypeOK
  <2>3. origin[i].under \in Nat
    BY <2>1, <2>2 DEF Absent
  <2> QED
    BY <1>1, <2>3 DEF MovedUnder
<1>2. CASE actions[i] # <<>>
  <2>1. actions[i] \in Seq([node : Nodes, to : Nodes, status : Decided, under : Nat])
    BY DEF IInv, TypeOK
  <2>2. actions[i][Len(actions[i])] \in [node : Nodes, to : Nodes, status : Decided, under : Nat]
    BY <1>2, <2>1, LastElement
  <2> QED
    BY <1>2, <2>2 DEF MovedUnder
<1> QED
  BY <1>1, <1>2

\* A new version of the definition makes every copy of it an old one.
LEMMA DefinitionChanges ==
    ASSUME IInv, NEW g \in Definitions, NEW status \in {"active", "archived"},
           definition' = [graph |-> g, version |-> definition.version + 1, status |-> status],
           UNCHANGED <<instance, actions, notifications, origin, request>>
    PROVE  IInv'
<1> USE DEF IInv
<1>1. definition.version \in Nat
  BY DEF TypeOK
<1>2. TypeOK'
  <2>1. definition' \in [graph : Definitions, version : Nat, status : {"active", "archived"}]
    BY <1>1
  <2> QED
    BY <2>1 DEF TypeOK, RequestState
<1>3. DefinitionCopies'
  BY <1>1, RequestTypes DEF DefinitionCopies
<1>4. InstanceCopies' /\ DecidesApproval'
  BY DEF InstanceCopies, Started, DecidesApproval
<1>5. HistoryIsPath'
  BY DEF HistoryIsPath, Started
<1>6. \A i \in Instances : Started(i) => MovedUnder(i) <= definition.version /\ MovedUnder(i) \in Nat
  BY MovedUnderType DEF Arrived
<1>7. Arrived'
  <2> SUFFICES ASSUME NEW i \in Instances, Started(i)'
               PROVE  /\ origin'[i].status = "started"
                      /\ MovedUnder(i)' < definition'.version
    BY <1>1, <1>6 DEF Arrived, Started, MovedUnder
  <2>1. Started(i)
    BY DEF Started
  <2>2. MovedUnder(i)' = MovedUnder(i)
    BY DEF MovedUnder
  <2> QED
    BY <2>1, <2>2, <1>1, <1>6 DEF Arrived
<1>8. Unstarted'
  BY DEF Unstarted, Started
<1> QED
  BY <1>2, <1>3, <1>4, <1>5, <1>7, <1>8

\* A request that goes on or ends changes no row; what it knows then is right.
LEMMA RequestChanges ==
    ASSUME IInv, NEW r \in Actors, NEW req \in RequestState,
           Goes(r, req), UNCHANGED <<definition, instance, actions, notifications, origin>>,
           req.pc \in {"starting", "deciding"} =>
                /\ req.under <= definition.version
                /\ req.under = definition.version =>
                      definition.status = "active" /\ req.graph = definition.graph,
           req.pc \in {"loading", "deciding"} =>
                /\ Started(req.id)
                /\ req.version <= instance[req.id].version
                /\ req.version = instance[req.id].version => req.node = instance[req.id].node,
           req.pc = "deciding" => req.graph.type[req.node] = "approval"
    PROVE  IInv'
<1> USE DEF IInv
<1>1. request \in [Actors -> RequestState] /\ request' = [request EXCEPT ![r] = req]
  BY DEF TypeOK, Goes
<1>2. request'[r] = req /\ \A q \in Actors : q # r => request'[q] = request[q]
  BY <1>1
<1>3. TypeOK'
  <2>1. request' \in [Actors -> RequestState]
    BY <1>1
  <2> QED
    BY <2>1 DEF TypeOK, RequestState
<1>4. DefinitionCopies'
  <2> SUFFICES ASSUME NEW q \in Actors, request'[q].pc \in {"starting", "deciding"}
               PROVE  /\ request'[q].under <= definition.version
                      /\ request'[q].under = definition.version =>
                            definition.status = "active" /\ request'[q].graph = definition.graph
    BY DEF DefinitionCopies
  <2>1. CASE q = r
    BY <2>1, <1>2
  <2>2. CASE q # r
    BY <2>2, <1>2 DEF DefinitionCopies
  <2> QED
    BY <2>1, <2>2
<1>5. InstanceCopies'
  <2> SUFFICES ASSUME NEW q \in Actors, request'[q].pc \in {"loading", "deciding"}
               PROVE  /\ Started(request'[q].id)
                      /\ request'[q].version <= instance[request'[q].id].version
                      /\ request'[q].version = instance[request'[q].id].version =>
                            request'[q].node = instance[request'[q].id].node
    BY DEF InstanceCopies, Started
  <2>1. CASE q = r
    BY <2>1, <1>2
  <2>2. CASE q # r
    BY <2>2, <1>2 DEF InstanceCopies
  <2> QED
    BY <2>1, <2>2
<1>6. HistoryIsPath'
  BY DEF HistoryIsPath, Started
<1>7. Arrived'
  BY DEF Arrived, Started, MovedUnder
<1>8. Unstarted'
  BY DEF Unstarted, Started
<1>9. DecidesApproval'
  BY <1>2 DEF DecidesApproval
<1> QED
  BY <1>3, <1>4, <1>5, <1>6, <1>7, <1>8, <1>9

\* A request that ends knows nothing.
LEMMA RequestEnds ==
    ASSUME IInv, NEW r \in Actors, Goes(r, Idle),
           UNCHANGED <<definition, instance, actions, notifications, origin>>
    PROVE  IInv'
<1>1. Idle \in RequestState /\ Idle.pc = "idle"
  BY DEF RequestState, Idle
<1> QED
  BY <1>1, RequestChanges

\* The definition read is the present one.
LEMMA StartGetKeeps ==
    ASSUME IInv, NEW r \in Actors, StartGet(r)
    PROVE  IInv'
<1> DEFINE req == [pc |-> "starting", graph |-> definition.graph, under |-> definition.version]
<1>1. definition.graph \in Definitions /\ definition.version \in Nat
  BY DEF IInv, TypeOK
<1>2. req \in RequestState
  BY <1>1 DEF RequestState
<1>3. /\ definition.status = "active"
      /\ Goes(r, req)
      /\ UNCHANGED <<definition, instance, actions, notifications, origin>>
  BY DEF StartGet, Rows
<1>4. req.pc = "starting" /\ req.under = definition.version /\ req.graph = definition.graph
  OBVIOUS
<1> HIDE DEF req
<1>5. req.under <= definition.version
  BY <1>1, <1>4
<1> QED
  BY <1>2, <1>3, <1>4, <1>5, RequestChanges

\* The instance read is where it is.
LEMMA ActGetKeeps ==
    ASSUME IInv, NEW r \in Actors, NEW i \in Instances, ActGet(r, i)
    PROVE  IInv'
<1> DEFINE req == [pc |-> "loading", id |-> i, node |-> instance[i].node, version |-> instance[i].version]
<1>1. instance[i] \in {Absent} \cup [status : Decided, node : Nodes, version : Nat]
  BY DEF IInv, TypeOK
<1>2. instance[i].status = "pending"
  BY DEF ActGet
<1>3. instance[i].node \in Nodes /\ instance[i].version \in Nat
  BY <1>1, <1>2 DEF Absent
<1>4. req \in RequestState
  BY <1>3 DEF RequestState
<1>5. Goes(r, req) /\ UNCHANGED <<definition, instance, actions, notifications, origin>>
  BY DEF ActGet, Rows
<1>6. /\ req.pc = "loading" /\ req.id = i /\ req.node = instance[i].node
      /\ req.version = instance[i].version
  OBVIOUS
<1> HIDE DEF req
<1>7. Started(req.id) /\ req.version <= instance[i].version
  BY <1>2, <1>3, <1>6 DEF Started
<1> QED
  BY <1>4, <1>5, <1>6, <1>7, RequestChanges

\* The definition read is the present one, the copy of the instance the same.
LEMMA ActLoadKeeps ==
    ASSUME IInv, NEW r \in Actors, ActLoad(r)
    PROVE  IInv'
<1> DEFINE req == [pc |-> "deciding", id |-> request[r].id, node |-> request[r].node,
                   version |-> request[r].version,
                   graph |-> definition.graph, under |-> definition.version]
<1>1. definition.graph \in Definitions /\ definition.version \in Nat
  BY DEF IInv, TypeOK
<1>2. /\ request[r].pc = "loading" /\ definition.status = "active"
      /\ definition.graph.type[request[r].node] = "approval"
  BY DEF ActLoad
<1>3. /\ request[r].id \in Instances /\ request[r].node \in Nodes
      /\ request[r].version \in Nat
  BY <1>2, RequestTypes DEF IInv
<1>4. /\ Started(request[r].id)
      /\ request[r].version <= instance[request[r].id].version
      /\ request[r].version = instance[request[r].id].version =>
            request[r].node = instance[request[r].id].node
  BY <1>2 DEF IInv, InstanceCopies
<1>5. req \in RequestState
  BY <1>1, <1>3 DEF RequestState
<1>6. Goes(r, req) /\ UNCHANGED <<definition, instance, actions, notifications, origin>>
  BY DEF ActLoad, Rows
<1>7. /\ req.pc = "deciding" /\ req.id = request[r].id /\ req.node = request[r].node
      /\ req.version = request[r].version
      /\ req.graph = definition.graph /\ req.under = definition.version
  OBVIOUS
<1> HIDE DEF req
<1>8. req.under <= definition.version
  BY <1>1, <1>7
<1> QED
  BY <1>2, <1>4, <1>5, <1>6, <1>7, <1>8, RequestChanges

\* An instance starts where the definition just read leads.
LEMMA StartKeeps ==
    ASSUME IInv, NEW r \in Actors, NEW i \in Instances, Start(r, i)
    PROVE  IInv'
<1>1. PICK truth \in Truths :
        LET t == Traverse(request[r].graph, {}, truth)
        IN  /\ t.status \in {"pending", "completed"}
            /\ instance' = [instance EXCEPT ![i] = [status |-> t.status, node |-> t.node, version |-> 1]]
            /\ notifications' = [notifications EXCEPT ![i] = t.sent]
            /\ origin' = [origin EXCEPT ![i] = [status |-> "started", node |-> t.node, under |-> request[r].under]]
  BY DEF Start
<1> DEFINE t == Traverse(request[r].graph, {}, truth)
<1>2. request[r].pc = "starting" /\ instance[i] = Absent
  BY DEF Start
<1>3. request[r].graph \in Definitions /\ request[r].under \in Nat /\ definition.version \in Nat
  BY <1>2, RequestTypes DEF IInv, TypeOK
<1>4. /\ t.node \in Nodes /\ t.sent \in Seq(Nodes)
      /\ t.status = "pending" => request[r].graph.type[t.node] = "approval"
  <2>1. {} \in Afters(request[r].graph)
    BY DEF Afters
  <2> QED
    BY <1>3, <2>1, DefinitionsLeadOn DEF LeadsOn
<1>5. /\ request[r].under <= definition.version
      /\ request[r].under = definition.version =>
            definition.status = "active" /\ request[r].graph = definition.graph
  BY <1>2 DEF IInv, DefinitionCopies
<1>6. ~Started(i) /\ actions[i] = <<>>
  BY <1>2 DEF IInv, Unstarted, Started, Absent
<1>7. /\ t.status \in {"pending", "completed"}
      /\ instance' = [instance EXCEPT ![i] = [status |-> t.status, node |-> t.node, version |-> 1]]
      /\ notifications' = [notifications EXCEPT ![i] = t.sent]
      /\ origin' = [origin EXCEPT ![i] = [status |-> "started", node |-> t.node, under |-> request[r].under]]
  BY <1>1
<1>8. actions' = actions /\ definition' = definition /\ Goes(r, Idle)
  BY DEF Start
<1> HIDE DEF t
<1>9. TypeOK'
  <2>1. TypeOK
    BY DEF IInv
  <2>2. instance' \in [Instances -> {Absent} \cup [status : Decided, node : Nodes, version : Nat]]
    BY <2>1, <1>4, <1>7 DEF TypeOK, Decided
  <2>3. notifications' \in [Instances -> Seq(Nodes)]
    BY <2>1, <1>4, <1>7 DEF TypeOK
  <2>4. origin' \in [Instances -> {Absent} \cup [status : {"started"}, node : Nodes, under : Nat]]
    BY <2>1, <1>3, <1>4, <1>7 DEF TypeOK
  <2>5. request' \in [Actors -> RequestState]
    BY <2>1, <1>8 DEF TypeOK, Goes, RequestState
  <2> QED
    BY <2>1, <2>2, <2>3, <2>4, <2>5, <1>8 DEF TypeOK
<1>10. /\ instance'[i] = [status |-> t.status, node |-> t.node, version |-> 1]
       /\ origin'[i] = [status |-> "started", node |-> t.node, under |-> request[r].under]
       /\ \A j \in Instances : j # i => instance'[j] = instance[j] /\ origin'[j] = origin[j]
  BY <1>7 DEF IInv, TypeOK
<1>11. request'[r].pc = "idle" /\ \A q \in Actors : q # r => request'[q] = request[q]
  BY <1>8 DEF IInv, TypeOK, Goes, Idle
<1>12. DefinitionCopies' /\ DecidesApproval'
  BY <1>8, <1>11 DEF IInv, DefinitionCopies, DecidesApproval
<1>13. InstanceCopies'
  <2> SUFFICES ASSUME NEW q \in Actors, request'[q].pc \in {"loading", "deciding"}
               PROVE  /\ instance'[request'[q].id].status # "absent"
                      /\ request'[q].version <= instance'[request'[q].id].version
                      /\ request'[q].version = instance'[request'[q].id].version =>
                            request'[q].node = instance'[request'[q].id].node
    BY DEF InstanceCopies, Started
  <2>1. request'[q] = request[q] /\ request[q].id \in Instances /\ Started(request[q].id)
    BY <1>11, RequestTypes DEF IInv, InstanceCopies
  <2>2. instance'[request[q].id] = instance[request[q].id]
    BY <2>1, <1>6, <1>10
  <2> QED
    BY <2>1, <2>2 DEF IInv, InstanceCopies, Started
<1>14. HistoryIsPath'
  <2> SUFFICES ASSUME NEW j \in Instances, Started(j)'
               PROVE  LET n == Len(actions'[j])
                      IN  /\ instance'[j].version = n + 1
                          /\ \A k \in 1..n : actions'[j][k].node =
                                IF k = 1 THEN origin'[j].node ELSE actions'[j][k - 1].to
                          /\ \A k \in 1..(n - 1) : actions'[j][k].status = "pending"
                          /\ n = 0 => instance'[j].node = origin'[j].node
                          /\ n > 0 => /\ instance'[j].node = actions'[j][n].to
                                      /\ instance'[j].status = actions'[j][n].status
    BY DEF HistoryIsPath, Started
  <2>1. CASE j = i
    BY <2>1, <1>6, <1>8, <1>10
  <2>2. CASE j # i
    BY <2>2, <1>8, <1>10 DEF IInv, HistoryIsPath, Started
  <2> QED
    BY <2>1, <2>2
<1>15. Arrived'
  <2> SUFFICES ASSUME NEW j \in Instances, Started(j)'
               PROVE  /\ origin'[j].status = "started"
                      /\ MovedUnder(j)' <= definition.version
                      /\ instance'[j].status = "pending" /\ MovedUnder(j)' = definition.version =>
                            /\ definition.status = "active"
                            /\ definition.graph.type[instance'[j].node] = "approval"
    BY <1>8 DEF Arrived, Started, MovedUnder
  <2>1. CASE j = i
    <3>1. MovedUnder(i)' = request[r].under
      BY <1>6, <1>8, <1>10 DEF MovedUnder
    <3> QED
      BY <2>1, <3>1, <1>4, <1>5, <1>10
  <2>2. CASE j # i
    <3>1. MovedUnder(j)' = MovedUnder(j) /\ Started(j)
      BY <2>2, <1>8, <1>10 DEF MovedUnder, Started
    <3> QED
      BY <2>2, <3>1, <1>10 DEF IInv, Arrived
  <2> QED
    BY <2>1, <2>2
<1>16. Unstarted'
  BY <1>6, <1>8, <1>10 DEF IInv, Unstarted, Started
<1> QED
  BY <1>9, <1>12, <1>13, <1>14, <1>15, <1>16 DEF IInv

\* A decision at the version the request read extends the path by one action; at
\* any other it changes nothing.
LEMMA AdvanceKeeps ==
    ASSUME IInv, NEW r \in Actors, NEW status \in Decided, NEW node \in Nodes, NEW sent \in Seq(Nodes),
           request[r].pc = "deciding",
           status = "pending" => request[r].graph.type[node] = "approval",
           Advance(r, status, node, sent)
    PROVE  IInv'
<1> DEFINE i == request[r].id
           row == [node |-> request[r].node, to |-> node, status |-> status, under |-> request[r].under]
<1>1. /\ i \in Instances /\ request[r].node \in Nodes /\ request[r].version \in Nat
      /\ request[r].under \in Nat /\ definition.version \in Nat
  BY RequestTypes DEF IInv, TypeOK
<1>2. CASE ~(instance[i].status = "pending" /\ instance[i].version = request[r].version)
  BY <1>2, RequestEnds DEF Advance
<1>3. CASE instance[i].status = "pending" /\ instance[i].version = request[r].version
  <2>1. /\ instance' = [instance EXCEPT ![i] = [status |-> status, node |-> node, version |-> @.version + 1]]
        /\ actions' = [actions EXCEPT ![i] = Append(@, row)]
        /\ notifications' = [notifications EXCEPT ![i] = @ \o sent]
        /\ Goes(r, Idle) /\ definition' = definition /\ origin' = origin
    BY <1>3 DEF Advance
  <2>2. TypeOK
    BY DEF IInv
  <2>3. row \in [node : Nodes, to : Nodes, status : Decided, under : Nat]
    BY <1>1
  <2>4. /\ row.node = request[r].node /\ row.to = node
        /\ row.status = status /\ row.under = request[r].under
    OBVIOUS
  <2> HIDE DEF row
  <2>5. /\ instance[i].version \in Nat /\ notifications[i] \in Seq(Nodes)
        /\ actions[i] \in Seq([node : Nodes, to : Nodes, status : Decided, under : Nat])
    BY <1>1, <1>3, <2>2 DEF TypeOK
  <2>6. /\ instance'[i] = [status |-> status, node |-> node, version |-> instance[i].version + 1]
        /\ actions'[i] = Append(actions[i], row)
        /\ \A j \in Instances : j # i => instance'[j] = instance[j] /\ actions'[j] = actions[j]
    BY <1>1, <2>1, <2>2 DEF TypeOK
  <2>7. request'[r].pc = "idle" /\ \A q \in Actors : q # r => request'[q] = request[q]
    BY <2>1, <2>2 DEF TypeOK, Goes, Idle
  <2>8. TypeOK'
    <3>1. instance' \in [Instances -> {Absent} \cup [status : Decided, node : Nodes, version : Nat]]
      <4>1. instance'[i] \in [status : Decided, node : Nodes, version : Nat]
        BY <2>5, <2>6
      <4> QED
        BY <4>1, <2>1, <2>2 DEF TypeOK
    <3>2. actions' \in [Instances -> Seq([node : Nodes, to : Nodes, status : Decided, under : Nat])]
      <4>1. actions'[i] \in Seq([node : Nodes, to : Nodes, status : Decided, under : Nat])
        BY <2>3, <2>5, <2>6
      <4> QED
        BY <4>1, <2>1, <2>2 DEF TypeOK
    <3>3. notifications' \in [Instances -> Seq(Nodes)]
      <4>1. notifications[i] \o sent \in Seq(Nodes)
        BY <2>5
      <4> QED
        BY <4>1, <2>1, <2>2 DEF TypeOK
    <3>4. request' \in [Actors -> RequestState]
      BY <2>1, <2>2 DEF TypeOK, Goes, RequestState
    <3> QED
      BY <2>1, <2>2, <3>1, <3>2, <3>3, <3>4 DEF TypeOK
  <2>9. DefinitionCopies' /\ DecidesApproval'
    BY <2>1, <2>7 DEF IInv, DefinitionCopies, DecidesApproval
  <2>10. Started(i) /\ request[r].node = instance[i].node
    BY <1>3 DEF IInv, InstanceCopies
  <2>11. InstanceCopies'
    <3> SUFFICES ASSUME NEW q \in Actors, request'[q].pc \in {"loading", "deciding"}
                 PROVE  /\ instance'[request'[q].id].status # "absent"
                        /\ request'[q].version <= instance'[request'[q].id].version
                        /\ request'[q].version = instance'[request'[q].id].version =>
                              request'[q].node = instance'[request'[q].id].node
      BY DEF InstanceCopies, Started
    <3>1. /\ request'[q] = request[q] /\ request[q].id \in Instances /\ request[q].version \in Nat
          /\ Started(request[q].id)
          /\ request[q].version <= instance[request[q].id].version
          /\ request[q].version = instance[request[q].id].version =>
                request[q].node = instance[request[q].id].node
      BY <2>7, RequestTypes DEF IInv, InstanceCopies
    <3>2. CASE request[q].id = i
      <4>1. /\ request[q].version <= instance[i].version
            /\ instance'[request[q].id].version = instance[i].version + 1
            /\ instance'[request[q].id].status \in Decided
        BY <2>6, <3>1, <3>2
      <4>2. request[q].version < instance[i].version + 1
        BY <2>5, <3>1, <4>1
      <4> QED
        BY <2>5, <3>1, <4>1, <4>2 DEF Decided
    <3>3. CASE request[q].id # i
      BY <2>6, <3>1, <3>3 DEF Started
    <3> QED
      BY <3>2, <3>3
  <2>12. HistoryIsPath'
    <3> SUFFICES ASSUME NEW j \in Instances, Started(j)'
                 PROVE  LET n == Len(actions'[j])
                        IN  /\ instance'[j].version = n + 1
                            /\ \A k \in 1..n : actions'[j][k].node =
                                  IF k = 1 THEN origin'[j].node ELSE actions'[j][k - 1].to
                            /\ \A k \in 1..(n - 1) : actions'[j][k].status = "pending"
                            /\ n = 0 => instance'[j].node = origin'[j].node
                            /\ n > 0 => /\ instance'[j].node = actions'[j][n].to
                                        /\ instance'[j].status = actions'[j][n].status
      BY DEF HistoryIsPath, Started
    <3>1. CASE j = i
      <4> DEFINE old == actions[i]
                 len == Len(actions[i])
      <4>1. /\ instance[i].version = len + 1
            /\ \A k \in 1..len : old[k].node = IF k = 1 THEN origin[i].node ELSE old[k - 1].to
            /\ \A k \in 1..(len - 1) : old[k].status = "pending"
            /\ len = 0 => instance[i].node = origin[i].node
            /\ len > 0 => instance[i].node = old[len].to /\ instance[i].status = old[len].status
        BY <2>10, <1>1 DEF IInv, HistoryIsPath
      <4>2. /\ len \in Nat /\ Len(actions'[i]) = len + 1
            /\ \A k \in 1..len : actions'[i][k] = old[k]
            /\ actions'[i][len + 1] = row
        BY <2>3, <2>5, <2>6
      <4> HIDE DEF old, len
      <4>3. instance'[i].version = (len + 1) + 1
        BY <2>6, <4>1
      <4>4. \A k \in 1..(len + 1) : actions'[i][k].node =
                IF k = 1 THEN origin'[i].node ELSE actions'[i][k - 1].to
        <5> TAKE k \in 1..(len + 1)
        <5>1. CASE k <= len
          <6>1. k \in 1..len /\ actions'[i][k] = old[k] /\ (k # 1 => actions'[i][k - 1] = old[k - 1])
            <7>1. k \in 1..len /\ (k # 1 => k - 1 \in 1..len)
              BY <5>1, <4>2
            <7> QED
              BY <7>1, <4>2
          <6>2. old[k].node = IF k = 1 THEN origin[i].node ELSE old[k - 1].to
            BY <6>1, <4>1
          <6> QED
            BY <6>1, <6>2, <2>1
        <5>2. CASE k = len + 1
          <6>1. actions'[i][k].node = instance[i].node
            BY <5>2, <4>2, <2>4, <2>10
          <6>2. CASE len = 0
            BY <6>1, <6>2, <5>2, <4>1, <2>1
          <6>3. CASE len > 0
            <7>1. actions'[i][k - 1] = old[len] /\ k # 1
              BY <6>3, <5>2, <4>2
            <7> QED
              BY <7>1, <6>1, <6>3, <4>1
          <6> QED
            BY <6>2, <6>3, <4>2
        <5> QED
          BY <5>1, <5>2, <4>2
      <4>5. \A k \in 1..len : actions'[i][k].status = "pending"
        <5> TAKE k \in 1..len
        <5>1. CASE k = len
          BY <5>1, <4>1, <4>2, <1>3
        <5>2. CASE k # len
          <6>1. k \in 1..(len - 1)
            BY <5>2, <4>2
          <6> QED
            BY <6>1, <4>1, <4>2
        <5> QED
          BY <5>1, <5>2
      <4>6. instance'[i].node = row.to /\ instance'[i].status = row.status
        BY <2>4, <2>6
      <4> QED
        BY <3>1, <4>2, <4>3, <4>4, <4>5, <4>6
    <3>2. CASE j # i
      BY <3>2, <2>1, <2>6 DEF IInv, HistoryIsPath, Started
    <3> QED
      BY <3>1, <3>2
  <2>13. Arrived'
    <3> SUFFICES ASSUME NEW j \in Instances, Started(j)'
                 PROVE  /\ origin'[j].status = "started"
                        /\ MovedUnder(j)' <= definition.version
                        /\ instance'[j].status = "pending" /\ MovedUnder(j)' = definition.version =>
                              /\ definition.status = "active"
                              /\ definition.graph.type[instance'[j].node] = "approval"
      BY <2>1 DEF Arrived, Started, MovedUnder
    <3>1. CASE j = i
      <4>1. MovedUnder(j)' = request[r].under
        <5>1. actions'[j] # <<>> /\ actions'[j][Len(actions'[j])] = row
          <6>1. Append(actions[i], row) # <<>> /\ Append(actions[i], row)[Len(Append(actions[i], row))] = row
            BY <2>3, <2>5, AppendedLast
          <6> QED
            BY <6>1, <3>1, <2>6
        <5> QED
          BY <5>1, <2>4 DEF MovedUnder
      <4>2. /\ request[r].under <= definition.version
            /\ request[r].under = definition.version =>
                  definition.status = "active" /\ request[r].graph = definition.graph
        BY DEF IInv, DefinitionCopies
      <4>3. origin[i].status = "started"
        BY <1>1, <2>10 DEF IInv, Arrived
      <4> QED
        BY <3>1, <4>1, <4>2, <4>3, <2>1, <2>6
    <3>2. CASE j # i
      <4>1. MovedUnder(j)' = MovedUnder(j) /\ Started(j)
        BY <3>2, <2>1, <2>6 DEF MovedUnder, Started
      <4> QED
        BY <3>2, <4>1, <2>1, <2>6 DEF IInv, Arrived
    <3> QED
      BY <3>1, <3>2
  <2>14. Unstarted'
    <3> SUFFICES ASSUME NEW j \in Instances, ~Started(j)'
                 PROVE  actions'[j] = <<>>
      BY DEF Unstarted
    <3>1. j # i
      BY <2>6 DEF Started, Decided
    <3> QED
      BY <3>1, <2>6 DEF IInv, Unstarted, Started
  <2> QED
    BY <2>8, <2>9, <2>11, <2>12, <2>13, <2>14 DEF IInv
<1> QED
  BY <1>2, <1>3

-----------------------------------------------------------------------------

\* Every action of Next is one of those above.
LEMMA NextKeeps ==
    ASSUME IInv, [Next]_vars
    PROVE  IInv'
<1>1. CASE UNCHANGED vars
  <2>1. TypeOK'
    BY <1>1 DEF vars, IInv, TypeOK, RequestState
  <2>2. DefinitionCopies' /\ InstanceCopies'
    BY <1>1 DEF vars, IInv, DefinitionCopies, InstanceCopies, Started
  <2>4. DecidesApproval'
    BY <1>1 DEF vars, IInv, DecidesApproval
  <2>3. HistoryIsPath' /\ Arrived' /\ Unstarted'
    BY <1>1 DEF vars, IInv, HistoryIsPath, Arrived, Unstarted, Started, MovedUnder
  <2> QED
    BY <2>1, <2>2, <2>3, <2>4 DEF IInv
<1>2. ASSUME NEW g \in Definitions, Define(g) PROVE IInv'
  <2>1. definition' = [graph |-> g, version |-> definition.version + 1, status |-> "active"]
    BY <1>2 DEF Define, IInv, TypeOK
  <2> QED
    BY <1>2, <2>1, DefinitionChanges DEF Define, Rows
<1>3. CASE Archive
  <2>1. /\ definition.graph \in Definitions
        /\ definition' = [graph |-> definition.graph, version |-> definition.version + 1, status |-> "archived"]
    BY <1>3 DEF Archive, IInv, TypeOK
  <2> QED
    BY <1>3, <2>1, DefinitionChanges DEF Archive, Rows
<1>4. ASSUME NEW r \in Actors, Approve(r) PROVE IInv'
  <2>1. request[r].pc = "deciding"
    BY <1>4 DEF Approve
  <2>2. PICK truth \in Truths :
            LET t == Traverse(request[r].graph, {request[r].node}, truth)
            IN  /\ t.status \in {"pending", "completed"}
                /\ Advance(r, t.status, t.node, t.sent)
    BY <1>4 DEF Approve
  <2> DEFINE t == Traverse(request[r].graph, {request[r].node}, truth)
  <2>3. t.status \in {"pending", "completed"} /\ Advance(r, t.status, t.node, t.sent)
    BY <2>2
  <2>4. request[r].graph \in Definitions /\ request[r].node \in Nodes
    BY <2>1, RequestTypes DEF IInv
  <2>5. /\ t.node \in Nodes /\ t.sent \in Seq(Nodes)
        /\ t.status = "pending" => request[r].graph.type[t.node] = "approval"
    <3>1. request[r].graph.type[request[r].node] = "approval"
      BY <2>1 DEF IInv, DecidesApproval
    <3>2. {request[r].node} \in Afters(request[r].graph)
      BY <2>4, <3>1 DEF Afters, OfType
    <3> QED
      BY <2>4, <3>2, DefinitionsLeadOn DEF LeadsOn
  <2> HIDE DEF t
  <2>6. t.status \in Decided
    BY <2>3 DEF Decided
  <2> QED
    BY <2>1, <2>3, <2>5, <2>6, AdvanceKeeps
<1>5. ASSUME NEW r \in Actors, Reject(r) PROVE IInv'
  <2>1. request[r].pc = "deciding" /\ Advance(r, "rejected", request[r].node, <<>>)
    BY <1>5 DEF Reject
  <2>2. request[r].node \in Nodes /\ <<>> \in Seq(Nodes)
    BY <2>1, RequestTypes DEF IInv
  <2> QED
    BY <2>1, <2>2, AdvanceKeeps DEF Decided
<1>6. ASSUME NEW r \in Actors, GiveUp(r) PROVE IInv'
  BY <1>6, RequestEnds DEF GiveUp, Rows
<1> QED
  BY <1>1, <1>2, <1>3, <1>4, <1>5, <1>6, StartGetKeeps, StartKeeps, ActGetKeeps, ActLoadKeeps
     DEF Next, Act

\* The invariant holds of every behaviour.
LEMMA Invariance == Spec => []IInv
<1>1. Init => IInv
  BY InitIInv
<1>2. IInv /\ [Next]_vars => IInv'
  BY NextKeeps
<1> QED
  BY <1>1, <1>2, PTL DEF Spec

\* Rows and requests keep their types: Advance and Start write nothing else.
THEOREM TypeCorrect == Spec => []TypeOK
<1>1. IInv => TypeOK
  BY DEF IInv
<1> QED
  BY <1>1, Invariance, PTL

\* Whatever the definitions, the instances and the number of concurrent requests,
\* the actions of an instance are one path and its row is where the path ends.
THEOREM PathHolds == Spec => []HistoryIsPath
<1>1. IInv => HistoryIsPath
  BY DEF IInv
<1> QED
  BY <1>1, Invariance, PTL

\* Only a later version of its definition can leave an instance undecidable.
THEOREM StuckOnlyByNewerDefinition == Spec => []StuckExplained
<1>1. IInv => StuckExplained
  <2> SUFFICES ASSUME IInv, NEW i \in Instances, Started(i), instance[i].status = "pending",
                      definition.status # "active" \/ definition.graph.type[instance[i].node] # "approval"
               PROVE  MovedUnder(i) < definition.version
    BY DEF StuckExplained
  <2>1. MovedUnder(i) <= definition.version /\ MovedUnder(i) # definition.version
    BY DEF IInv, Arrived
  <2>2. MovedUnder(i) \in Nat /\ definition.version \in Nat
    BY MovedUnderType DEF IInv, TypeOK
  <2> QED
    BY <2>1, <2>2
<1> QED
  BY <1>1, Invariance, PTL

-----------------------------------------------------------------------------
(* One version, one graph: the nodes an instance passes under it come one   *)
(* after another.                                                           *)

\* All decisions on an instance were made under the version it was started under.
OneVersion(i) == \A k \in 1..Len(actions[i]) : actions[i][k].under = origin[i].under

\* An instance climbs an acyclic graph: each decision is on a node after those
\* decided before, each notification for a node after those notified before, and an
\* instance that waits does so after all of them.
Climbs(i, g) ==
    /\ \A j, k \in 1..Len(actions[i]) :
            j < k => actions[i][k].node \in After(g, actions[i][j].node)
    /\ InOrder(g, notifications[i])
    /\ instance[i].status = "pending" =>
        /\ \A k \in 1..Len(actions[i]) : instance[i].node \in After(g, actions[i][k].node)
        /\ \A k \in 1..Len(notifications[i]) : instance[i].node \in After(g, notifications[i][k])

\* saved[v] is the graph of version v: what was read under a version is its graph.
SavedAs(saved) ==
    /\ definition.graph = saved[definition.version]
    /\ \A r \in Actors : request[r].pc \in {"starting", "deciding"} =>
            request[r].graph = saved[request[r].under]
    /\ \A i \in Instances : Started(i) /\ OneVersion(i) => Climbs(i, saved[origin[i].under])

\* Some history of saves explains what is there.
OnePathAVersion == \E saved \in [Nat -> Definitions] : SavedAs(saved)

\* An instance under one version was started under no version still to come.
LEMMA StartedUnder ==
    ASSUME IInv, NEW i \in Instances, Started(i), OneVersion(i)
    PROVE  origin[i].under \in Nat /\ origin[i].under <= definition.version
<1>1. MovedUnder(i) = origin[i].under
  <2>1. CASE actions[i] = <<>>
    BY <2>1 DEF MovedUnder
  <2>2. CASE actions[i] # <<>>
    <3>1. actions[i] \in Seq([node : Nodes, to : Nodes, status : Decided, under : Nat])
      BY DEF IInv, TypeOK
    <3>2. Len(actions[i]) \in Nat \ {0}
      BY <2>2, <3>1, LastElement
    <3>3. Len(actions[i]) \in 1..Len(actions[i])
      BY <3>2
    <3> QED
      BY <2>2, <3>3 DEF MovedUnder, OneVersion
  <2> QED
    BY <2>1, <2>2
<1> QED
  BY <1>1, MovedUnderType DEF IInv, Arrived

\* A save gives the new version its graph and leaves those of the others.
LEMMA DefinitionClimbs ==
    ASSUME IInv, OnePathAVersion, NEW g \in Definitions,
           definition'.graph = g, definition'.version = definition.version + 1,
           UNCHANGED <<instance, actions, notifications, origin, request>>
    PROVE  OnePathAVersion'
<1>1. PICK saved \in [Nat -> Definitions] : SavedAs(saved)
  BY DEF OnePathAVersion
<1>2. definition.version \in Nat
  BY DEF IInv, TypeOK
<1> DEFINE v == definition.version + 1
<1>3. PICK now \in [Nat -> Definitions] : now[v] = g /\ \A n \in Nat : n # v => now[n] = saved[n]
  <2> DEFINE w == [saved EXCEPT ![v] = g]
  <2>1. w \in [Nat -> Definitions] /\ w[v] = g /\ \A n \in Nat : n # v => w[n] = saved[n]
    BY <1>2
  <2> HIDE DEF w
  <2> QED
    BY <2>1
<1>4. ASSUME NEW r \in Actors, request[r].pc \in {"starting", "deciding"}
      PROVE  request[r].graph = now[request[r].under]
  <2>1. request[r].under \in Nat /\ request[r].under # v
    BY <1>2, <1>4, RequestTypes DEF IInv, DefinitionCopies
  <2> QED
    BY <1>1, <1>3, <1>4, <2>1 DEF SavedAs
<1>5. ASSUME NEW i \in Instances, Started(i), OneVersion(i)
      PROVE  Climbs(i, now[origin[i].under])
  <2>1. origin[i].under \in Nat /\ origin[i].under # v
    BY <1>2, <1>5, StartedUnder
  <2> QED
    BY <1>1, <1>3, <1>5, <2>1 DEF SavedAs
<1>6. \A i \in Instances : \A h : /\ Started(i)' = Started(i) /\ OneVersion(i)' = OneVersion(i)
                                  /\ Climbs(i, h)' = Climbs(i, h)
  BY DEF Started, OneVersion, Climbs
<1>7. SavedAs(now)'
  BY <1>3, <1>4, <1>5, <1>6 DEF SavedAs
<1> QED
  BY <1>3, <1>7 DEF OnePathAVersion

\* A request that goes on with copies of the present definition, or ends.
LEMMA RequestClimbs ==
    ASSUME IInv, OnePathAVersion, NEW r \in Actors, NEW req \in RequestState, Goes(r, req),
           UNCHANGED <<definition, instance, actions, notifications, origin>>,
           req.pc \in {"starting", "deciding"} =>
                req.graph = definition.graph /\ req.under = definition.version
    PROVE  OnePathAVersion'
<1>1. PICK saved \in [Nat -> Definitions] : SavedAs(saved)
  BY DEF OnePathAVersion
<1>2. request'[r] = req /\ \A q \in Actors : q # r => request'[q] = request[q]
  BY DEF IInv, TypeOK, Goes
<1>3. \A i \in Instances : \A h : /\ Started(i)' = Started(i) /\ OneVersion(i)' = OneVersion(i)
                                  /\ Climbs(i, h)' = Climbs(i, h)
  BY DEF Started, OneVersion, Climbs
<1>4. ASSUME NEW q \in Actors, request'[q].pc \in {"starting", "deciding"}
      PROVE  request'[q].graph = saved[request'[q].under]
  <2>1. CASE q = r
    BY <1>1, <1>2, <1>4, <2>1 DEF SavedAs
  <2>2. CASE q # r
    BY <1>1, <1>2, <1>4, <2>2 DEF SavedAs
  <2> QED
    BY <2>1, <2>2
<1>5. SavedAs(saved)'
  BY <1>1, <1>3, <1>4 DEF SavedAs
<1> QED
  BY <1>5 DEF OnePathAVersion

\* An instance starts where its traversal led.
LEMMA StartClimbs ==
    ASSUME IInv, OnePathAVersion, NEW r \in Actors, NEW i \in Instances, Start(r, i)
    PROVE  OnePathAVersion'
<1>1. PICK saved \in [Nat -> Definitions] : SavedAs(saved)
  BY DEF OnePathAVersion
<1>2. /\ request[r].pc = "starting" /\ instance[i] = Absent /\ request[r].graph \in Definitions
      /\ request[r].graph = saved[request[r].under]
  BY <1>1, RequestTypes DEF Start, IInv, SavedAs
<1>a. PICK g \in Definitions : g = request[r].graph
  BY <1>2
<1>3. PICK truth \in Truths :
        LET t == Traverse(g, {}, truth)
        IN  /\ t.status \in {"pending", "completed"}
            /\ instance' = [instance EXCEPT ![i] = [status |-> t.status, node |-> t.node, version |-> 1]]
            /\ notifications' = [notifications EXCEPT ![i] = t.sent]
            /\ origin' = [origin EXCEPT ![i] = [status |-> "started", node |-> t.node, under |-> request[r].under]]
  BY <1>a DEF Start
<1> DEFINE t == Traverse(g, {}, truth)
<1>4. LeadsOn(g, {}, t)
  <2>1. {} \in Afters(g)
    BY DEF Afters
  <2> QED
    BY <2>1, DefinitionsLeadOn
<1>5. /\ instance' = [instance EXCEPT ![i] = [status |-> t.status, node |-> t.node, version |-> 1]]
      /\ notifications' = [notifications EXCEPT ![i] = t.sent]
      /\ origin' = [origin EXCEPT ![i] = [status |-> "started", node |-> t.node, under |-> request[r].under]]
  BY <1>3
<1> HIDE DEF t
<1>6. actions[i] = <<>> /\ Len(actions[i]) = 0 /\ actions' = actions /\ definition' = definition
  <2>1. actions[i] = <<>> /\ actions' = actions /\ definition' = definition
    BY <1>2 DEF Start, IInv, Unstarted, Started, Absent
  <2> QED
    BY <2>1
<1>7. /\ instance'[i].status = t.status /\ instance'[i].node = t.node
      /\ notifications'[i] = t.sent /\ origin'[i].under = request[r].under
      /\ \A j \in Instances : j # i => /\ instance'[j] = instance[j]
                                       /\ notifications'[j] = notifications[j]
                                       /\ origin'[j] = origin[j]
  BY <1>5 DEF IInv, TypeOK
<1>8. Climbs(i, g)'
  <2>1. \A k \in 1..Len(actions'[i]) : FALSE
    BY <1>6
  <2>2. InOrder(g, t.sent) /\ (t.status = "pending" => \A k \in 1..Len(t.sent) : t.node \in After(g, t.sent[k]))
    BY <1>4 DEF LeadsOn
  <2> QED
    BY <1>7, <2>1, <2>2 DEF Climbs
<1>9. ASSUME NEW j \in Instances, Started(j)', OneVersion(j)',
             NEW h, h = saved[origin'[j].under]
      PROVE  Climbs(j, h)'
  <2>1. CASE j = i
    <3>1. h = g
      BY <1>2, <1>a, <1>7, <1>9, <2>1
    <3> QED
      BY <1>8, <2>1, <3>1
  <2>2. CASE j # i
    <3>1. Started(j) /\ OneVersion(j) /\ origin'[j].under = origin[j].under
      BY <1>6, <1>7, <1>9, <2>2 DEF Started, OneVersion
    <3>2. Climbs(j, h)' = Climbs(j, h)
      BY <1>6, <1>7, <2>2 DEF Climbs
    <3> QED
      BY <1>1, <1>9, <3>1, <3>2 DEF SavedAs
  <2> QED
    BY <2>1, <2>2
<1>10. ASSUME NEW q \in Actors, request'[q].pc \in {"starting", "deciding"}
       PROVE  request'[q].graph = saved[request'[q].under]
  <2>1. request' = [request EXCEPT ![r] = Idle]
    BY DEF Start, Goes
  <2>2. q # r /\ request'[q] = request[q]
    BY <1>10, <2>1 DEF IInv, TypeOK, Idle
  <2> QED
    BY <1>1, <1>10, <2>2 DEF SavedAs
<1>11. SavedAs(saved)'
  BY <1>1, <1>6, <1>9, <1>10 DEF SavedAs
<1> QED
  BY <1>11 DEF OnePathAVersion

\* A decision that counts goes on from the node the instance waits at.
LEMMA AdvanceClimbs ==
    ASSUME IInv, OnePathAVersion, NEW r \in Actors, NEW status \in Decided, NEW node \in Nodes,
           NEW sent \in Seq(Nodes), request[r].pc = "deciding",
           \A h \in Definitions : h = request[r].graph =>
                /\ InOrder(h, sent)
                /\ \A k \in 1..Len(sent) : sent[k] \in After(h, request[r].node)
                /\ status = "pending" =>
                    /\ node \in After(h, request[r].node)
                    /\ \A k \in 1..Len(sent) : node \in After(h, sent[k]),
           Advance(r, status, node, sent)
    PROVE  OnePathAVersion'
<1>1. PICK saved \in [Nat -> Definitions] : SavedAs(saved)
  BY DEF OnePathAVersion
<1>a. PICK i \in Instances : i = request[r].id
  BY RequestTypes DEF IInv
<1> DEFINE row == [node |-> request[r].node, to |-> node, status |-> status, under |-> request[r].under]
<1>2. /\ i \in Instances /\ request[r].node \in Nodes /\ request[r].graph \in Definitions
      /\ request[r].graph = saved[request[r].under] /\ request[r].under \in Nat
  BY <1>1, RequestTypes DEF IInv, SavedAs
<1>3. CASE ~(instance[i].status = "pending" /\ instance[i].version = request[r].version)
  <2>1. Idle \in RequestState /\ Idle.pc = "idle"
    BY DEF RequestState, Idle
  <2> QED
    BY <1>3, <1>a, <2>1, RequestClimbs DEF Advance
<1>4. CASE instance[i].status = "pending" /\ instance[i].version = request[r].version
  <2>1. PICK g \in Definitions : g = request[r].graph
    BY <1>2
  <2>2. /\ instance' = [instance EXCEPT ![i] = [status |-> status, node |-> node, version |-> @.version + 1]]
        /\ actions' = [actions EXCEPT ![i] = Append(@, row)]
        /\ notifications' = [notifications EXCEPT ![i] = @ \o sent]
        /\ Goes(r, Idle) /\ definition' = definition /\ origin' = origin
    BY <1>4, <1>a DEF Advance
  <2>3. row \in [node : Nodes, to : Nodes, status : Decided, under : Nat]
    BY <1>2
  <2>4. row.node = instance[i].node /\ row.under = request[r].under /\ Started(i)
    BY <1>4, <1>a DEF IInv, InstanceCopies, row
  <2> HIDE DEF row
  <2>5. /\ notifications[i] \in Seq(Nodes)
        /\ actions[i] \in Seq([node : Nodes, to : Nodes, status : Decided, under : Nat])
    BY <1>2 DEF IInv, TypeOK
  <2>6. /\ instance'[i].status = status /\ instance'[i].node = node
        /\ actions'[i] = Append(actions[i], row) /\ notifications'[i] = notifications[i] \o sent
        /\ \A j \in Instances : j # i => /\ instance'[j] = instance[j] /\ actions'[j] = actions[j]
                                         /\ notifications'[j] = notifications[j]
    BY <1>2, <2>2 DEF IInv, TypeOK
  <2> DEFINE n == Len(actions[i])
             m == Len(notifications[i])
  <2>7. /\ n \in Nat /\ Len(actions'[i]) = n + 1 /\ actions'[i][n + 1] = row
        /\ \A k \in 1..n : actions'[i][k] = actions[i][k] /\ actions[i][k].node \in Nodes
    <3>1. /\ n \in Nat /\ Len(actions'[i]) = n + 1 /\ actions'[i][n + 1] = row
          /\ \A k \in 1..n : actions'[i][k] = actions[i][k]
      BY <2>3, <2>5, <2>6
    <3>2. \A k \in 1..n : actions[i][k] \in [node : Nodes, to : Nodes, status : Decided, under : Nat]
      BY <2>5, ElementsOf, ZenonT(30)
    <3> QED
      BY <3>1, <3>2
  <2>8. /\ m \in Nat /\ Len(sent) \in Nat /\ Len(notifications'[i]) = m + Len(sent)
        /\ \A k \in 1..(m + Len(sent)) :
             \/ k \in 1..m /\ notifications'[i][k] = notifications[i][k]
             \/ k - m \in 1..Len(sent) /\ notifications'[i][k] = sent[k - m]
        /\ \A k \in 1..m : notifications[i][k] \in Nodes
    BY <2>5, <2>6
  <2>9. g \in Graph /\ instance[i].node \in Nodes
    BY <1>2, <2>4, WorkflowEngineAssumption DEF row
  <2>10. ASSUME OneVersion(i)'
         PROVE  g = saved[origin[i].under] /\ OneVersion(i) /\ Climbs(i, g)
    <3>1. row.under = origin[i].under
      BY <2>2, <2>7, <2>10 DEF OneVersion
    <3>2. OneVersion(i)
      BY <2>2, <2>7, <2>10 DEF OneVersion
    <3> QED
      BY <1>1, <1>2, <2>1, <2>4, <3>1, <3>2 DEF SavedAs
  <2>11. ASSUME OneVersion(i)'
         PROVE  Climbs(i, g)'
    <3> DEFINE at == instance[i].node
    <3>1. /\ \A j, k \in 1..n : j < k => actions[i][k].node \in After(g, actions[i][j].node)
          /\ InOrder(g, notifications[i])
          /\ \A k \in 1..n : at \in After(g, actions[i][k].node)
          /\ \A k \in 1..m : at \in After(g, notifications[i][k])
      BY <1>4, <2>10, <2>11 DEF Climbs
    <3>2. /\ InOrder(g, sent)
          /\ \A k \in 1..Len(sent) : sent[k] \in After(g, at)
          /\ status = "pending" => /\ node \in After(g, at)
                                  /\ \A k \in 1..Len(sent) : node \in After(g, sent[k])
      BY <2>1, <2>4 DEF row
    <3>3. \A x \in Nodes : at \in After(g, x) => After(g, at) \subseteq After(g, x)
      BY <2>9, AfterFacts
    <3> HIDE DEF n, m
    <3>4. \A j, k \in 1..(n + 1) : j < k => actions'[i][k].node \in After(g, actions'[i][j].node)
      <4> SUFFICES ASSUME NEW j \in 1..(n + 1), NEW k \in 1..(n + 1), j < k
                   PROVE  actions'[i][k].node \in After(g, actions'[i][j].node)
        OBVIOUS
      <4>1. j \in 1..n
        BY <2>7
      <4>2. CASE k = n + 1
        BY <2>4, <2>7, <3>1, <4>1, <4>2
      <4>3. CASE k # n + 1
        <5>1. k \in 1..n
          BY <2>7, <4>3
        <5> QED
          BY <2>7, <3>1, <4>1, <5>1
      <4> QED
        BY <4>2, <4>3
    <3>5. InOrder(g, notifications'[i])
      <4> SUFFICES ASSUME NEW j \in 1..(m + Len(sent)), NEW k \in 1..(m + Len(sent)), j < k
                   PROVE  notifications'[i][k] \in After(g, notifications'[i][j])
        BY <2>8 DEF InOrder
      <4>1. CASE k \in 1..m /\ notifications'[i][k] = notifications[i][k]
        <5>1. j \in 1..m /\ notifications'[i][j] = notifications[i][j]
          BY <2>8, <4>1
        <5> QED
          BY <3>1, <4>1, <5>1 DEF InOrder, m
      <4>2. CASE k - m \in 1..Len(sent) /\ notifications'[i][k] = sent[k - m]
        <5>1. CASE j \in 1..m /\ notifications'[i][j] = notifications[i][j]
          BY <2>8, <3>1, <3>2, <3>3, <4>2, <5>1
        <5>2. CASE j - m \in 1..Len(sent) /\ notifications'[i][j] = sent[j - m]
          <6>1. j - m < k - m
            BY <2>8
          <6> QED
            BY <3>2, <4>2, <5>2, <6>1 DEF InOrder
        <5> QED
          BY <2>8, <5>1, <5>2
      <4> QED
        BY <2>8, <4>1, <4>2
    <3>6. ASSUME status = "pending"
          PROVE  /\ \A k \in 1..(n + 1) : node \in After(g, actions'[i][k].node)
                 /\ \A k \in 1..(m + Len(sent)) : node \in After(g, notifications'[i][k])
      <4>1. ASSUME NEW k \in 1..(n + 1)
            PROVE  node \in After(g, actions'[i][k].node)
        <5>1. CASE k = n + 1
          BY <2>4, <2>7, <3>2, <3>6, <5>1
        <5>2. CASE k # n + 1
          <6>1. k \in 1..n
            BY <2>7, <5>2
          <6> QED
            BY <2>7, <3>1, <3>2, <3>3, <3>6, <6>1
        <5> QED
          BY <5>1, <5>2
      <4>2. ASSUME NEW k \in 1..(m + Len(sent))
            PROVE  node \in After(g, notifications'[i][k])
        <5>1. CASE k \in 1..m /\ notifications'[i][k] = notifications[i][k]
          BY <2>8, <3>1, <3>2, <3>3, <3>6, <5>1
        <5>2. CASE k - m \in 1..Len(sent) /\ notifications'[i][k] = sent[k - m]
          BY <3>2, <3>6, <5>2
        <5> QED
          BY <2>8, <5>1, <5>2
      <4> QED
        BY <4>1, <4>2
    <3> HIDE DEF at
    <3> QED
      BY <2>6, <2>7, <2>8, <3>4, <3>5, <3>6 DEF Climbs
  <2>12. ASSUME NEW j \in Instances, Started(j)', OneVersion(j)',
                NEW h, h = saved[origin'[j].under]
         PROVE  Climbs(j, h)'
    <3>1. CASE j = i
      <4>1. OneVersion(i)' /\ origin' = origin
        BY <2>2, <2>12, <3>1
      <4>2. h = g
        BY <2>10, <2>12, <3>1, <4>1
      <4> QED
        BY <2>11, <3>1, <4>1, <4>2
    <3>2. CASE j # i
      <4>1. Started(j) /\ OneVersion(j) /\ origin'[j].under = origin[j].under
        BY <2>2, <2>6, <2>12, <3>2 DEF Started, OneVersion
      <4>2. Climbs(j, h)' = Climbs(j, h)
        BY <2>6, <3>2 DEF Climbs
      <4> QED
        BY <1>1, <2>12, <4>1, <4>2 DEF SavedAs
    <3> QED
      BY <3>1, <3>2
  <2>13. ASSUME NEW q \in Actors, request'[q].pc \in {"starting", "deciding"}
         PROVE  request'[q].graph = saved[request'[q].under]
    <3>1. q # r /\ request'[q] = request[q]
      BY <2>2, <2>13 DEF IInv, TypeOK, Idle, Goes
    <3> QED
      BY <1>1, <2>13, <3>1 DEF SavedAs
  <2>14. SavedAs(saved)'
    BY <1>1, <2>2, <2>12, <2>13 DEF SavedAs
  <2> QED
    BY <2>14 DEF OnePathAVersion
<1> QED
  BY <1>3, <1>4


\* Every action of the engine keeps the path of a version.
LEMMA NextClimbs ==
    ASSUME IInv, OnePathAVersion, [Next]_vars
    PROVE  OnePathAVersion'
<1>1. CASE UNCHANGED vars
  <2>1. PICK saved \in [Nat -> Definitions] : SavedAs(saved)
    BY DEF OnePathAVersion
  <2>2. SavedAs(saved)'
    BY <1>1, <2>1 DEF vars, SavedAs, Started, OneVersion, Climbs
  <2> QED
    BY <2>2 DEF OnePathAVersion
<1>2. ASSUME NEW g \in Definitions, Define(g) PROVE OnePathAVersion'
  <2>1. definition'.graph = g /\ definition'.version = definition.version + 1
    BY <1>2 DEF Define, IInv, TypeOK
  <2> QED
    BY <1>2, <2>1, DefinitionClimbs DEF Define, Rows
<1>3. ASSUME Archive PROVE OnePathAVersion'
  <2>1. PICK g \in Definitions : g = definition.graph
    BY DEF IInv, TypeOK
  <2>2. definition'.graph = g /\ definition'.version = definition.version + 1
    BY <1>3, <2>1 DEF Archive, IInv, TypeOK
  <2> QED
    BY <1>3, <2>2, DefinitionClimbs DEF Archive, Rows
<1>4. ASSUME NEW r \in Actors, NEW req, Goes(r, req),
             UNCHANGED <<definition, instance, actions, notifications, origin>>,
             req.pc \in {"starting", "deciding"} =>
                  req.graph = definition.graph /\ req.under = definition.version
      PROVE  OnePathAVersion'
  <2>1. TypeOK'
    BY NextKeeps DEF IInv
  <2>2. request'[r] = req
    BY <1>4 DEF IInv, TypeOK, Goes
  <2>3. req \in RequestState
    BY <2>1, <2>2 DEF TypeOK, RequestState
  <2> QED
    BY <1>4, <2>3, RequestClimbs
<1>7. ASSUME NEW r \in Actors, StartGet(r) PROVE OnePathAVersion'
  <2> DEFINE req == [pc |-> "starting", graph |-> definition.graph, under |-> definition.version]
  <2>1. /\ Goes(r, req) /\ req.graph = definition.graph /\ req.under = definition.version
        /\ UNCHANGED <<definition, instance, actions, notifications, origin>>
    BY <1>7 DEF StartGet, Rows
  <2> HIDE DEF req
  <2> QED
    BY <1>4, <2>1
<1>8. ASSUME NEW r \in Actors, ActLoad(r) PROVE OnePathAVersion'
  <2> DEFINE req == [pc |-> "deciding", id |-> request[r].id, node |-> request[r].node,
                     version |-> request[r].version,
                     graph |-> definition.graph, under |-> definition.version]
  <2>1. /\ Goes(r, req) /\ req.graph = definition.graph /\ req.under = definition.version
        /\ UNCHANGED <<definition, instance, actions, notifications, origin>>
    BY <1>8 DEF ActLoad, Rows
  <2> HIDE DEF req
  <2> QED
    BY <1>4, <2>1
<1>9. ASSUME NEW r \in Actors, NEW i \in Instances, ActGet(r, i) PROVE OnePathAVersion'
  <2> DEFINE req == [pc |-> "loading", id |-> i, node |-> instance[i].node, version |-> instance[i].version]
  <2>1. /\ Goes(r, req) /\ req.pc = "loading"
        /\ UNCHANGED <<definition, instance, actions, notifications, origin>>
    BY <1>9 DEF ActGet, Rows
  <2> HIDE DEF req
  <2> QED
    BY <1>4, <2>1
<1>10. ASSUME NEW r \in Actors, GiveUp(r) PROVE OnePathAVersion'
  <2>1. /\ Goes(r, Idle) /\ Idle.pc = "idle"
        /\ UNCHANGED <<definition, instance, actions, notifications, origin>>
    BY <1>10 DEF GiveUp, Rows, Idle
  <2> QED
    BY <1>4, <2>1
<1>5. ASSUME NEW r \in Actors, Approve(r) PROVE OnePathAVersion'
  <2>1. request[r].pc = "deciding"
    BY <1>5 DEF Approve
  <2>2. PICK truth \in Truths :
            LET t == Traverse(request[r].graph, {request[r].node}, truth)
            IN  /\ t.status \in {"pending", "completed"}
                /\ Advance(r, t.status, t.node, t.sent)
    BY <1>5 DEF Approve
  <2>3. request[r].graph \in Definitions /\ request[r].node \in Nodes
    BY <2>1, RequestTypes DEF IInv
  <2>4. PICK g \in Definitions, at \in Nodes : g = request[r].graph /\ at = request[r].node
    BY <2>3
  <2>5. {at} \in Afters(g)
    BY <2>1, <2>4 DEF IInv, DecidesApproval, Afters, OfType
  <2> DEFINE t == Traverse(g, {at}, truth)
  <2>6. LeadsOn(g, {at}, t)
    BY <2>5, DefinitionsLeadOn
  <2>7. t.status \in {"pending", "completed"} /\ Advance(r, t.status, t.node, t.sent)
    BY <2>2, <2>4
  <2> HIDE DEF t
  <2>8. t.status \in Decided /\ t.node \in Nodes /\ t.sent \in Seq(Nodes)
    BY <2>6, <2>7 DEF Decided, LeadsOn
  <2>9. \A h \in Definitions : h = request[r].graph =>
                /\ InOrder(h, t.sent)
                /\ \A k \in 1..Len(t.sent) : t.sent[k] \in After(h, request[r].node)
                /\ t.status = "pending" =>
                    /\ t.node \in After(h, request[r].node)
                    /\ \A k \in 1..Len(t.sent) : t.node \in After(h, t.sent[k])
    BY <2>4, <2>6 DEF LeadsOn
  <2> QED
    BY <2>1, <2>7, <2>8, <2>9, AdvanceClimbs
<1>6. ASSUME NEW r \in Actors, Reject(r) PROVE OnePathAVersion'
  <2>1. request[r].pc = "deciding" /\ Advance(r, "rejected", request[r].node, <<>>)
    BY <1>6 DEF Reject
  <2>2. PICK at \in Nodes : at = request[r].node
    BY <2>1, RequestTypes DEF IInv
  <2>3. <<>> \in Seq(Nodes) /\ Len(<<>>) = 0 /\ "rejected" \in Decided
    BY DEF Decided
  <2>4. \A h \in Definitions : h = request[r].graph =>
                /\ InOrder(h, <<>>)
                /\ \A k \in 1..Len(<<>>) : <<>>[k] \in After(h, request[r].node)
                /\ "rejected" = "pending" =>
                    /\ at \in After(h, request[r].node)
                    /\ \A k \in 1..Len(<<>>) : at \in After(h, <<>>[k])
    BY <2>3 DEF InOrder
  <2> QED
    BY <2>1, <2>2, <2>3, <2>4, AdvanceClimbs
<1> QED
  BY <1>1, <1>2, <1>3, <1>5, <1>6, <1>7, <1>8, <1>9, <1>10, StartClimbs DEF Next, Act

\* Whatever the definitions and however many requests decide at once, under one version
\* of its definition no approval of an instance is decided twice and none of its
\* notifications is created twice.
THEOREM PassedOnce == Spec => []NodesPassedOnce
<1>1. Init => OnePathAVersion
  <2> SUFFICES ASSUME Init
               PROVE  OnePathAVersion
    OBVIOUS
  <2>1. PICK g \in Definitions : g = definition.graph
    BY DEF Init
  <2> DEFINE saved == [v \in Nat |-> g]
  <2>2. saved \in [Nat -> Definitions] /\ saved[1] = g /\ definition.version = 1
    BY DEF Init
  <2> HIDE DEF saved
  <2>3. \A r \in Actors : request[r].pc = "idle"
    BY DEF Init, Idle
  <2>4. \A i \in Instances : ~Started(i)
    BY DEF Init, Started, Absent
  <2>5. SavedAs(saved)
    BY <2>1, <2>2, <2>3, <2>4 DEF SavedAs
  <2> QED
    BY <2>2, <2>5 DEF OnePathAVersion
<1>2. IInv /\ OnePathAVersion => NodesPassedOnce
  <2> SUFFICES ASSUME IInv, OnePathAVersion, NEW i \in Instances, Started(i), OneVersion(i)
               PROVE  /\ \A j, k \in 1..Len(actions[i]) : actions[i][j].node = actions[i][k].node => j = k
                      /\ \A j, k \in 1..Len(notifications[i]) :
                            notifications[i][j] = notifications[i][k] => j = k
    BY DEF NodesPassedOnce, OneVersion
  <2>1. PICK saved \in [Nat -> Definitions] : SavedAs(saved)
    BY DEF OnePathAVersion
  <2>2. PICK g \in Definitions : g = saved[origin[i].under]
    BY StartedUnder
  <2>3. Climbs(i, g) /\ g \in Graph /\ Shaped(g) /\ Acyclic(g)
    BY <2>1, <2>2, WorkflowEngineAssumption, AcceptedDefinitions DEF SavedAs, Sound
  <2>4. /\ actions[i] \in Seq([node : Nodes, to : Nodes, status : Decided, under : Nat])
        /\ notifications[i] \in Seq(Nodes)
    BY DEF IInv, TypeOK
  <2>5. ASSUME NEW j \in 1..Len(actions[i]), NEW k \in 1..Len(actions[i]),
               actions[i][j].node = actions[i][k].node, j # k
        PROVE  FALSE
    <3>0. actions[i][j] \in [node : Nodes, to : Nodes, status : Decided, under : Nat]
      BY <2>4, ElementsOf, ZenonT(30)
    <3>1. actions[i][j].node \in Nodes
      BY <3>0
    <3>2. j < k \/ k < j
      BY <2>5
    <3>3. actions[i][j].node \in After(g, actions[i][j].node)
      BY <2>3, <2>5, <3>2 DEF Climbs
    <3> QED
      BY <2>3, <3>1, <3>3, NothingAfterItself
  <2>6. \A j, k \in 1..Len(notifications[i]) : notifications[i][j] = notifications[i][k] => j = k
    BY <2>3, <2>4, SentOnce DEF Climbs
  <2> QED
    BY <2>5, <2>6
<1>3. Init => IInv
  BY InitIInv
<1>4. IInv /\ [Next]_vars => IInv'
  BY NextKeeps
<1>5. IInv /\ OnePathAVersion /\ [Next]_vars => OnePathAVersion'
  BY NextClimbs
<1> QED
  BY <1>1, <1>2, <1>3, <1>4, <1>5, PTL DEF Spec
=============================================================================
