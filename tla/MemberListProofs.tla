--------------------------- MODULE MemberListProofs ---------------------------
(***************************************************************************)
(* Facts about the traversals and updates of MemberList, for any heap.     *)
(***************************************************************************)
EXTENDS MemberList, WellFoundedInduction, TLAPS

\* The next pointers of a heap lead to its nodes.
Wired(heap) == \A n \in DOMAIN heap : heap[n].next \in DOMAIN heap \cup {NULL}

\* No set of nodes leads only into itself: no chain of the heap is cyclic.
Acyclic(heap) ==
    \A S \in SUBSET DOMAIN heap : S # {} => \E n \in S : heap[n].next \notin S
-----------------------------------------------------------------------------
\* A nonempty set of naturals has a least element.
LEMMA LeastElement ==
    ASSUME NEW T \in SUBSET Nat, T # {}
    PROVE  \E x \in T : \A y \in T : x <= y
<1>1. PICK x \in T : \A y \in T : ~(<<y, x>> \in OpToRel(<, Nat))
  BY WFMin, NatLessThanWellFounded, Zenon
<1>2. \A y \in T : ~(y < x)
  BY <1>1 DEF OpToRel
<1> QED
  BY <1>2

\* So has a nonempty bounded one a greatest element.
LEMMA GreatestElement ==
    ASSUME NEW N \in Nat, NEW T \in SUBSET (1 .. N), T # {}
    PROVE  \E x \in T : \A y \in T : y <= x
<1>a. \A t \in T : t \in Nat /\ t <= N
  OBVIOUS
<1> DEFINE U == {N - t : t \in T}
<1>1. U \in SUBSET Nat
  BY <1>a
<1>0. U # {}
  OBVIOUS
<1>2. PICK u \in U : \A v \in U : u <= v
  BY <1>0, <1>1, LeastElement
<1>3. PICK x \in T : u = N - x
  OBVIOUS
<1>4. \A y \in T : N - x <= N - y
  BY <1>2, <1>3
<1>5. \A y \in T : y <= x
  <2> HIDE DEF U
  <2> QED
    BY <1>a, <1>4
<1> QED
  BY <1>5
-----------------------------------------------------------------------------
\* A loop sees only what any set that is closed under its steps contains.
LEMMA VisitedLeast ==
    ASSUME NEW heap, NEW from, NEW stop, NEW S \in SUBSET DOMAIN heap,
           ClosedUnder(heap, from, stop, S)
    PROVE  Visited(heap, from, stop) \subseteq S
BY DEF Visited

\* A loop sees nodes of the heap only.
LEMMA VisitedNodes ==
    ASSUME NEW heap, NEW from, NEW stop
    PROVE  Visited(heap, from, stop) \subseteq DOMAIN heap
BY DEF Visited

\* What a loop sees is itself closed under its steps.
LEMMA VisitedClosed ==
    ASSUME NEW heap, Wired(heap), NEW from \in DOMAIN heap \cup {NULL}, NEW stop
    PROVE  ClosedUnder(heap, from, stop, Visited(heap, from, stop))
<1> DEFINE closed == {S \in SUBSET DOMAIN heap : ClosedUnder(heap, from, stop, S)}
<1>1. \A n : n \in Visited(heap, from, stop)
                 <=> n \in DOMAIN heap /\ \A S \in closed : n \in S
  BY DEF Visited
<1>2. from # NULL => from \in Visited(heap, from, stop)
  BY <1>1 DEF ClosedUnder
<1>3. ASSUME NEW n \in Visited(heap, from, stop) \ stop, heap[n].next # NULL
      PROVE  heap[n].next \in Visited(heap, from, stop)
  <2>1. n \in DOMAIN heap /\ heap[n].next \in DOMAIN heap
    BY <1>1, <1>3 DEF Wired
  <2>2. \A S \in closed : heap[n].next \in S
    BY <1>1, <1>3 DEF ClosedUnder
  <2> QED
    BY <1>1, <2>1, <2>2
<1> QED
  BY <1>2, <1>3 DEF ClosedUnder

\* A loop that may leave early sees no more than one that runs to the end.
LEMMA VisitedStop ==
    ASSUME NEW heap, Wired(heap), NEW from \in DOMAIN heap \cup {NULL}, NEW stop
    PROVE  Visited(heap, from, stop) \subseteq ListNodes(heap, from)
<1>1. ClosedUnder(heap, from, {}, ListNodes(heap, from))
  BY VisitedClosed DEF ListNodes
<1>2. ClosedUnder(heap, from, stop, ListNodes(heap, from))
  BY <1>1 DEF ClosedUnder
<1> QED
  BY <1>2, VisitedLeast, VisitedNodes DEF ListNodes

\* On a heap without cycles every loop ends.
LEMMA AcyclicTerminates ==
    ASSUME NEW heap, Wired(heap), Acyclic(heap),
           NEW from \in DOMAIN heap \cup {NULL}, NEW stop
    PROVE  Terminates(heap, from, stop)
<1> DEFINE V == Visited(heap, from, stop)
<1>1. ClosedUnder(heap, from, stop, V)
  BY VisitedClosed
<1>2. V \in SUBSET DOMAIN heap
  BY VisitedNodes
<1>3. CASE from = NULL
  BY <1>3 DEF Terminates
<1>4. CASE from # NULL
  <2>1. PICK n \in V : heap[n].next \notin V
    BY <1>1, <1>2, <1>4 DEF Acyclic, ClosedUnder
  <2>2. n \in stop \/ heap[n].next = NULL
    BY <1>1, <2>1 DEF ClosedUnder
  <2> QED
    BY <2>2 DEF Terminates
<1> QED
  BY <1>3, <1>4

\* Where a loop stopped is a node it saw and was to stop at.
LEMMA FirstOfStop ==
    ASSUME NEW heap, NEW from, NEW stop, FirstOf(heap, from, stop) # NULL
    PROVE  FirstOf(heap, from, stop) \in Visited(heap, from, stop) \cap stop
BY DEF FirstOf

\* A loop stops at a node or at NULL.
LEMMA FirstOfType ==
    ASSUME NEW heap, NEW from, NEW stop
    PROVE  FirstOf(heap, from, stop) \in DOMAIN heap \cup {NULL}
BY FirstOfStop, VisitedNodes
-----------------------------------------------------------------------------
\* Nodes that keep their next pointer or lose it: refreshing and cutting.
LEMMA KeepOrCut ==
    ASSUME NEW heap, Wired(heap), Acyclic(heap), NULL \notin DOMAIN heap,
           NEW h2, DOMAIN h2 = DOMAIN heap,
           \A m \in DOMAIN heap : h2[m].next \in {heap[m].next, NULL},
           NEW head \in DOMAIN heap \cup {NULL}
    PROVE  Wired(h2) /\ Acyclic(h2) /\ ListNodes(h2, head) \subseteq ListNodes(heap, head)
<1>1. Wired(h2)
  BY DEF Wired
<1>2. Acyclic(h2)
  BY DEF Acyclic
<1>3. ClosedUnder(heap, head, {}, ListNodes(heap, head))
  BY VisitedClosed DEF ListNodes
<1>4. ListNodes(heap, head) \in SUBSET DOMAIN heap
  BY VisitedNodes DEF ListNodes
<1>5. ClosedUnder(h2, head, {}, ListNodes(heap, head))
  BY <1>3, <1>4 DEF ClosedUnder
<1>6. ListNodes(h2, head) \subseteq ListNodes(heap, head)
  BY <1>4, <1>5, VisitedLeast DEF ListNodes
<1> QED
  BY <1>1, <1>2, <1>6

\* A node that was just allocated is on no list.
LEMMA NewNodeList ==
    ASSUME NEW heap, Wired(heap), Acyclic(heap), NULL \notin DOMAIN heap,
           NEW n, n \notin DOMAIN heap, n # NULL,
           NEW local, NEW remote, NEW weight, NEW time,
           NEW head \in DOMAIN heap \cup {NULL}
    PROVE  LET h2 == NewNode(heap, n, local, remote, weight, time)
           IN  /\ Wired(h2) /\ Acyclic(h2)
               /\ ListNodes(h2, head) \subseteq ListNodes(heap, head)
<1> DEFINE h2 == NewNode(heap, n, local, remote, weight, time)
<1>1. /\ DOMAIN h2 = DOMAIN heap \cup {n}
      /\ h2[n].next = NULL
      /\ \A m \in DOMAIN heap : h2[m] = heap[m]
  BY DEF NewNode
<1> HIDE DEF h2
<1>2. Wired(h2)
  BY <1>1 DEF Wired
<1>3. Acyclic(h2)
  <2> SUFFICES ASSUME NEW S \in SUBSET DOMAIN h2, S # {},
                      \A m \in S : h2[m].next \in S
               PROVE  FALSE
    BY DEF Acyclic
  <2>1. n \notin S
    BY <1>1
  <2> QED
    BY <1>1, <2>1 DEF Acyclic
<1>4. ClosedUnder(heap, head, {}, ListNodes(heap, head))
  BY VisitedClosed DEF ListNodes
<1>5. ListNodes(heap, head) \in SUBSET DOMAIN heap
  BY VisitedNodes DEF ListNodes
<1>6. ClosedUnder(h2, head, {}, ListNodes(heap, head))
  BY <1>1, <1>4, <1>5 DEF ClosedUnder
<1>7. ListNodes(h2, head) \subseteq ListNodes(heap, head)
  BY <1>1, <1>5, <1>6, VisitedLeast DEF ListNodes
<1> QED
  BY <1>2, <1>3, <1>7 DEF h2

\* Pushing a node that nothing leads to adds it, and nothing else, to the list.
LEMMA PushList ==
    ASSUME NEW heap, heap \in [DOMAIN heap -> Nodes], Wired(heap), Acyclic(heap),
           NULL \notin DOMAIN heap,
           NEW head \in DOMAIN heap \cup {NULL},
           NEW n \in DOMAIN heap, n # head,
           \A m \in DOMAIN heap : heap[m].next # n
    PROVE  /\ Wired(Push(heap, head, n)) /\ Acyclic(Push(heap, head, n))
           /\ ListNodes(Push(heap, head, n), n) \subseteq ListNodes(heap, head) \cup {n}
<1> DEFINE h2 == Push(heap, head, n)
<1>1. /\ DOMAIN h2 = DOMAIN heap
      /\ h2[n].next = head
      /\ \A m \in DOMAIN heap \ {n} : h2[m] = heap[m]
  BY DEF Push, Nodes
<1> HIDE DEF h2
<1>2. Wired(h2)
  BY <1>1 DEF Wired
<1>3. Acyclic(h2)
  <2> SUFFICES ASSUME NEW S \in SUBSET DOMAIN h2, S # {},
                      \A m \in S : h2[m].next \in S
               PROVE  FALSE
    BY DEF Acyclic
  <2>1. \A m \in S \ {n} : heap[m].next \in S \ {n}
    BY <1>1
  <2>2. S \ {n} = {}
    BY <1>1, <2>1 DEF Acyclic
  <2>3. S = {n} /\ head = n
    BY <1>1, <2>2
  <2> QED
    BY <2>3
<1>4. ClosedUnder(heap, head, {}, ListNodes(heap, head))
  BY VisitedClosed DEF ListNodes
<1>5. ListNodes(heap, head) \in SUBSET DOMAIN heap
  BY VisitedNodes DEF ListNodes
<1>6. ClosedUnder(h2, n, {}, ListNodes(heap, head) \cup {n})
  BY <1>1, <1>4, <1>5 DEF ClosedUnder
<1>7. ListNodes(h2, n) \subseteq ListNodes(heap, head) \cup {n}
  BY <1>1, <1>5, <1>6, VisitedLeast DEF ListNodes
<1> QED
  BY <1>2, <1>3, <1>7 DEF h2

\* A list is its first node and the list behind it.
LEMMA ListStep ==
    ASSUME NEW heap, Wired(heap), NULL \notin DOMAIN heap, NEW k \in DOMAIN heap
    PROVE  /\ ListNodes(heap, NULL) = {}
           /\ ListNodes(heap, k) \subseteq {k} \cup ListNodes(heap, heap[k].next)
<1>1. ClosedUnder(heap, NULL, {}, {})
  BY DEF ClosedUnder
<1>2. ListNodes(heap, NULL) = {}
  BY <1>1, VisitedLeast DEF ListNodes
<1> DEFINE L == ListNodes(heap, heap[k].next)
<1>3. heap[k].next \in DOMAIN heap \cup {NULL}
  BY DEF Wired
<1>4. ClosedUnder(heap, heap[k].next, {}, L) /\ L \in SUBSET DOMAIN heap
  BY <1>3, VisitedClosed, VisitedNodes DEF ListNodes
<1>5. ClosedUnder(heap, k, {}, {k} \cup L)
  BY <1>4 DEF ClosedUnder
<1>6. ListNodes(heap, k) \subseteq {k} \cup L
  BY <1>4, <1>5, VisitedLeast DEF ListNodes
<1> QED
  BY <1>2, <1>6

\* Whatever leads to x on a list without cycles comes before x on it, so a loop
\* that stops at x alone has seen it.
LEMMA BeforeStop ==
    ASSUME NEW heap, Wired(heap), Acyclic(heap), NULL \notin DOMAIN heap,
           NEW head \in DOMAIN heap \cup {NULL}, NEW stop,
           NEW x \in DOMAIN heap, ListNodes(heap, head) \cap stop \subseteq {x},
           NEW n \in ListNodes(heap, head), heap[n].next = x
    PROVE  n \in Visited(heap, head, stop)
<1> DEFINE V == Visited(heap, head, stop)
           D == ListNodes(heap, heap[x].next)
           S == {m \in D \cup {x} : x \in ListNodes(heap, heap[m].next)}
<1>1. heap[x].next \in DOMAIN heap \cup {NULL}
  BY DEF Wired
<1>2. D \in SUBSET DOMAIN heap /\ ClosedUnder(heap, heap[x].next, {}, D)
  BY <1>1, VisitedClosed, VisitedNodes DEF ListNodes
<1>3. V \in SUBSET DOMAIN heap /\ ClosedUnder(heap, head, stop, V)
  BY VisitedClosed, VisitedNodes
<1>4. V \subseteq ListNodes(heap, head)
  BY VisitedStop
<1>5. ClosedUnder(heap, head, {}, V \cup D)
  <2>1. \A m \in V : m \in stop => m = x
    BY <1>4
  <2> QED
    BY <1>2, <1>3, <2>1 DEF ClosedUnder
<1>6. n \in V \cup D
  BY <1>2, <1>3, <1>5, VisitedLeast DEF ListNodes
<1>7. SUFFICES ASSUME n \in D PROVE FALSE
  BY <1>6
<1>8. x \in S
  BY <1>2, <1>7 DEF ClosedUnder
<1>9. ASSUME NEW m \in S PROVE heap[m].next \in S
  <2> DEFINE k == heap[m].next
  <2>1. m \in DOMAIN heap /\ x \in ListNodes(heap, k)
    BY <1>2
  <2>2. k # NULL /\ k \in DOMAIN heap
    BY <2>1, ListStep DEF Wired
  <2>3. k \in D
    BY <1>2, <2>2 DEF ClosedUnder
  <2>4. x = k \/ x \in ListNodes(heap, heap[k].next)
    BY <2>1, <2>2, ListStep
  <2> QED
    BY <1>8, <2>3, <2>4
<1>10. S \in SUBSET DOMAIN heap /\ S # {}
  BY <1>2, <1>8
<1>11. \A m \in S : heap[m].next \in S
  BY <1>9
<1> HIDE DEF S
<1> QED
  BY <1>10, <1>11 DEF Acyclic

\* Unlinking the one node at which a loop stops takes it off the list.
LEMMA UnlinkList ==
    ASSUME NEW heap, heap \in [DOMAIN heap -> Nodes], Wired(heap), Acyclic(heap),
           NULL \notin DOMAIN heap,
           NEW head \in DOMAIN heap \cup {NULL}, NEW stop,
           NEW x \in Visited(heap, head, stop),
           ListNodes(heap, head) \cap stop \subseteq {x}
    PROVE  LET h2 == Unlink(heap, head, stop, x)
           IN  /\ Wired(h2) /\ Acyclic(h2)
               /\ ListNodes(h2, IF x = head THEN heap[x].next ELSE head)
                     \subseteq ListNodes(heap, head) \ {x}
<1> DEFINE h2 == Unlink(heap, head, stop, x)
           V  == Visited(heap, head, stop)
           L  == ListNodes(heap, head)
           hd == IF x = head THEN heap[x].next ELSE head
           Cut(m) == m \in V \ {x} /\ heap[m].next = x
<1>1. /\ x \in DOMAIN heap /\ x \in L
      /\ L \in SUBSET DOMAIN heap /\ ClosedUnder(heap, head, {}, L)
  BY VisitedNodes, VisitedStop, VisitedClosed DEF ListNodes
<1>2. /\ DOMAIN h2 = DOMAIN heap
      /\ \A m \in DOMAIN heap : Cut(m) => h2[m].next = heap[x].next
      /\ \A m \in DOMAIN heap : ~Cut(m) => h2[m].next = heap[m].next
  BY DEF Unlink, Nodes
<1>3. heap[x].next # x
  <2>1. {x} \in SUBSET DOMAIN heap
    BY <1>1
  <2> QED
    BY <2>1 DEF Acyclic
<1>4. \A n \in L \ {x} : heap[n].next = x => Cut(n)
  BY <1>1, BeforeStop
<1> HIDE DEF h2
<1>5. Wired(h2)
  BY <1>1, <1>2 DEF Wired
<1>6. Acyclic(h2)
  <2> SUFFICES ASSUME NEW S \in SUBSET DOMAIN h2, S # {},
                      \A m \in S : h2[m].next \in S
               PROVE  FALSE
    BY DEF Acyclic
  <2>1. CASE \A m \in S : ~Cut(m)
    BY <1>2, <2>1 DEF Acyclic
  <2>2. CASE \E m \in S : Cut(m)
    <3>1. heap[x].next \in S
      BY <1>2, <2>2
    <3>2. \A m \in S \cup {x} : heap[m].next \in S \cup {x}
      BY <1>2, <3>1
    <3>3. S \cup {x} \in SUBSET DOMAIN heap
      BY <1>1, <1>2
    <3> QED
      BY <3>2, <3>3 DEF Acyclic
  <2> QED
    BY <2>1, <2>2
<1>7. ClosedUnder(h2, hd, {}, L \ {x})
  <2>1. hd # NULL => hd \in L \ {x}
    BY <1>1, <1>3 DEF ClosedUnder
  <2>2. ASSUME NEW n \in L \ {x}, h2[n].next # NULL PROVE h2[n].next \in L \ {x}
    BY <1>1, <1>2, <1>3, <1>4, <2>2 DEF ClosedUnder
  <2> QED
    BY <2>1, <2>2 DEF ClosedUnder
<1>8. ListNodes(h2, hd) \subseteq L \ {x}
  BY <1>1, <1>2, <1>7, VisitedLeast DEF ListNodes
<1> QED
  BY <1>5, <1>6, <1>8 DEF h2
-----------------------------------------------------------------------------
(***************************************************************************)
(* What stays on a list: the inclusions of the other direction.            *)
(***************************************************************************)
\* Nodes that keep their next pointers stay on the list, whatever becomes of others.
LEMMA NodesStay ==
    ASSUME NEW heap, Wired(heap), NULL \notin DOMAIN heap,
           NEW h2, Wired(h2), DOMAIN heap \subseteq DOMAIN h2,
           NEW head \in DOMAIN heap \cup {NULL},
           \A m \in DOMAIN heap : h2[m].next = heap[m].next
    PROVE  ListNodes(h2, head) = ListNodes(heap, head)
<1> DEFINE L  == ListNodes(heap, head)
           L2 == ListNodes(h2, head)
<1>1. L \in SUBSET DOMAIN heap /\ ClosedUnder(heap, head, {}, L)
  BY VisitedClosed, VisitedNodes DEF ListNodes
<1>2. L2 \in SUBSET DOMAIN h2 /\ ClosedUnder(h2, head, {}, L2)
  BY VisitedClosed, VisitedNodes DEF ListNodes
<1>3. ClosedUnder(h2, head, {}, L)
  BY <1>1 DEF ClosedUnder
<1>4. L2 \subseteq L
  BY <1>1, <1>3, VisitedLeast DEF ListNodes
<1>5. ClosedUnder(heap, head, {}, L2)
  BY <1>1, <1>2, <1>4 DEF ClosedUnder
<1>6. L \subseteq L2
  BY <1>1, <1>4, <1>5, VisitedLeast DEF ListNodes
<1> QED
  BY <1>4, <1>6

\* A push takes no node off the list.
LEMMA PushKeeps ==
    ASSUME NEW heap, heap \in [DOMAIN heap -> Nodes], Wired(heap), NULL \notin DOMAIN heap,
           NEW head \in DOMAIN heap \cup {NULL},
           NEW n \in DOMAIN heap, n # head,
           \A m \in DOMAIN heap : heap[m].next # n
    PROVE  ListNodes(heap, head) \cup {n} \subseteq ListNodes(Push(heap, head, n), n)
<1> DEFINE h2 == Push(heap, head, n)
           L2 == ListNodes(h2, n)
<1>1. /\ DOMAIN h2 = DOMAIN heap /\ h2[n].next = head
      /\ \A m \in DOMAIN heap \ {n} : h2[m] = heap[m]
  BY DEF Push, Nodes
<1> HIDE DEF h2
<1>2. Wired(h2)
  BY <1>1 DEF Wired
<1>3. L2 \in SUBSET DOMAIN heap /\ ClosedUnder(h2, n, {}, L2) /\ n # NULL
  BY <1>1, <1>2, VisitedClosed, VisitedNodes DEF ListNodes
<1>4. n \in L2 /\ (head # NULL => head \in L2)
  BY <1>1, <1>3 DEF ClosedUnder
<1>5. ClosedUnder(heap, head, {}, L2 \ {n})
  BY <1>1, <1>3, <1>4 DEF ClosedUnder
<1>6. ListNodes(heap, head) \subseteq L2 \ {n}
  BY <1>3, <1>5, VisitedLeast DEF ListNodes
<1> QED
  BY <1>4, <1>6 DEF h2

\* Unlinking takes no other node off the list.
LEMMA UnlinkKeeps ==
    ASSUME NEW heap, heap \in [DOMAIN heap -> Nodes], Wired(heap), Acyclic(heap),
           NULL \notin DOMAIN heap,
           NEW head \in DOMAIN heap \cup {NULL}, NEW stop,
           NEW x \in Visited(heap, head, stop),
           ListNodes(heap, head) \cap stop \subseteq {x}
    PROVE  ListNodes(heap, head) \ {x}
              \subseteq ListNodes(Unlink(heap, head, stop, x),
                                  IF x = head THEN heap[x].next ELSE head)
<1> DEFINE h2 == Unlink(heap, head, stop, x)
           V  == Visited(heap, head, stop)
           L  == ListNodes(heap, head)
           hd == IF x = head THEN heap[x].next ELSE head
           L2 == ListNodes(h2, hd)
           S  == {m \in L : m \in L2 \/ (m = x /\ heap[x].next \in L2 \cup {NULL})}
           Cut(m) == m \in V \ {x} /\ heap[m].next = x
<1>1. /\ x \in DOMAIN heap /\ x \in L
      /\ L \in SUBSET DOMAIN heap /\ ClosedUnder(heap, head, {}, L)
  BY VisitedNodes, VisitedStop, VisitedClosed DEF ListNodes
<1>2. /\ DOMAIN h2 = DOMAIN heap
      /\ \A m \in DOMAIN heap : Cut(m) => h2[m].next = heap[x].next
      /\ \A m \in DOMAIN heap : ~Cut(m) => h2[m].next = heap[m].next
  BY DEF Unlink, Nodes
<1>3. \A n \in L \ {x} : heap[n].next = x => Cut(n)
  BY <1>1, BeforeStop
<1>4. heap[x].next \in DOMAIN heap \cup {NULL} /\ hd \in DOMAIN heap \cup {NULL}
  BY <1>1 DEF Wired
<1> HIDE DEF h2
<1>5. Wired(h2)
  BY <1>1, <1>2 DEF Wired
<1> HIDE DEF hd
<1>6. ClosedUnder(h2, hd, {}, L2)
  BY <1>2, <1>4, <1>5, VisitedClosed DEF ListNodes
<1>7. head # NULL => head \in S
  BY <1>1, <1>6 DEF ClosedUnder, hd
<1>8. ASSUME NEW m \in S, heap[m].next # NULL PROVE heap[m].next \in S
  <2>1. m \in DOMAIN heap /\ heap[m].next \in L
    BY <1>1, <1>8 DEF ClosedUnder
  <2>2. CASE m = x
    <3>1. m \in L2 => h2[m].next = heap[m].next
      BY <1>2, <2>1, <2>2
    <3>2. heap[m].next \in L2
      BY <1>6, <1>8, <2>2, <3>1 DEF ClosedUnder
    <3> QED
      BY <2>1, <3>2
  <2>3. CASE m # x /\ heap[m].next = x
    <3>1. h2[m].next = heap[x].next /\ m \in L2
      BY <1>2, <1>3, <2>1, <2>3
    <3>2. heap[x].next \in L2 \cup {NULL}
      BY <1>6, <3>1 DEF ClosedUnder
    <3> QED
      BY <2>1, <2>3, <3>2
  <2>4. CASE m # x /\ heap[m].next # x
    <3>1. h2[m].next = heap[m].next /\ m \in L2
      BY <1>2, <2>1, <2>4
    <3>2. heap[m].next \in L2
      BY <1>6, <1>8, <3>1 DEF ClosedUnder
    <3> QED
      BY <2>1, <3>2
  <2> QED
    BY <2>2, <2>3, <2>4
<1>9. ClosedUnder(heap, head, {}, S)
  BY <1>7, <1>8 DEF ClosedUnder
<1>10. L \subseteq S
  BY <1>1, <1>9, VisitedLeast DEF ListNodes
<1> QED
  BY <1>10 DEF h2, hd

\* The list behind a node is a part of the list that starts at it.
LEMMA ListBehind ==
    ASSUME NEW heap, Wired(heap), NULL \notin DOMAIN heap, NEW k \in DOMAIN heap
    PROVE  k \in ListNodes(heap, k) /\ ListNodes(heap, heap[k].next) \subseteq ListNodes(heap, k)
<1>1. ListNodes(heap, k) \in SUBSET DOMAIN heap /\ ClosedUnder(heap, k, {}, ListNodes(heap, k))
  BY VisitedClosed, VisitedNodes DEF ListNodes
<1>2. k \in ListNodes(heap, k)
  BY <1>1 DEF ClosedUnder
<1>3. ClosedUnder(heap, heap[k].next, {}, ListNodes(heap, k))
  BY <1>1, <1>2 DEF ClosedUnder
<1> QED
  BY <1>1, <1>2, <1>3, VisitedLeast DEF ListNodes

\* Nodes whose next pointer moves on by one see no more than before.
LEMMA SkipShrinks ==
    ASSUME NEW heap, Wired(heap), NULL \notin DOMAIN heap, NEW x \in DOMAIN heap,
           NEW h2, DOMAIN h2 = DOMAIN heap,
           \A m \in DOMAIN heap : \/ h2[m].next = heap[m].next
                                  \/ heap[m].next = x /\ h2[m].next = heap[x].next,
           NEW from \in DOMAIN heap \cup {NULL}
    PROVE  ListNodes(h2, from) \subseteq ListNodes(heap, from)
<1> DEFINE L == ListNodes(heap, from)
<1>1. L \in SUBSET DOMAIN heap /\ ClosedUnder(heap, from, {}, L)
  BY VisitedClosed, VisitedNodes DEF ListNodes
<1>2. ASSUME NEW m \in L, h2[m].next # NULL PROVE h2[m].next \in L
  <2>1. m \in DOMAIN heap
    BY <1>1
  <2>2. CASE h2[m].next = heap[m].next
    BY <1>1, <1>2, <2>2 DEF ClosedUnder
  <2>3. CASE heap[m].next = x /\ h2[m].next = heap[x].next
    <3>1. x \in L
      BY <1>1, <2>3 DEF ClosedUnder
    <3> QED
      BY <1>1, <1>2, <2>3, <3>1 DEF ClosedUnder
  <2> QED
    BY <2>1, <2>2, <2>3
<1>3. ClosedUnder(h2, from, {}, L)
  BY <1>1, <1>2 DEF ClosedUnder
<1> QED
  BY <1>1, <1>3, VisitedLeast DEF ListNodes
-----------------------------------------------------------------------------
(***************************************************************************)
(* Lists that end, on heaps that may have cycles elsewhere.                *)
(***************************************************************************)
\* No set of these nodes leads only into itself.
Open(heap, list) ==
    \A S \in SUBSET list : S # {} => \E n \in S : heap[n].next \notin S

\* A list ends if and only if it is open.
LEMMA EndsOpen ==
    ASSUME NEW heap, Wired(heap), NULL \notin DOMAIN heap,
           NEW from \in DOMAIN heap \cup {NULL}
    PROVE  Terminates(heap, from, {}) <=> Open(heap, ListNodes(heap, from))
<1> DEFINE L == ListNodes(heap, from)
<1>1. L \in SUBSET DOMAIN heap /\ ClosedUnder(heap, from, {}, L)
  BY VisitedClosed, VisitedNodes DEF ListNodes
<1>2. ASSUME from # NULL, Open(heap, L) PROVE Terminates(heap, from, {})
  <2>1. from \in L
    BY <1>1, <1>2 DEF ClosedUnder
  <2>2. PICK n \in L : heap[n].next \notin L
    BY <1>2, <2>1 DEF Open
  <2>3. heap[n].next = NULL
    BY <1>1, <2>2 DEF ClosedUnder
  <2> QED
    BY <2>2, <2>3 DEF Terminates, ListNodes
<1>3. ASSUME from # NULL, Terminates(heap, from, {}), NEW S \in SUBSET L, S # {},
             \A m \in S : heap[m].next \in S
      PROVE  FALSE
  <2>1. PICK n \in L : heap[n].next = NULL
    BY <1>3 DEF Terminates, ListNodes
  <2> DEFINE T == {m \in L : n \in ListNodes(heap, m)}
  <2>2. from \in T
    BY <1>1, <1>3, <2>1 DEF ClosedUnder
  <2>3. ASSUME NEW m \in T, heap[m].next # NULL PROVE heap[m].next \in T
    <3>1. m \in DOMAIN heap /\ heap[m].next \in L
      BY <1>1, <2>3 DEF ClosedUnder
    <3>2. n \in ListNodes(heap, heap[m].next)
      BY <2>1, <2>3, <3>1, ListStep
    <3> QED
      BY <3>1, <3>2
  <2>4. ClosedUnder(heap, from, {}, T)
    BY <2>2, <2>3 DEF ClosedUnder
  <2>5. L \subseteq T
    BY <1>1, <2>4, VisitedLeast DEF ListNodes
  <2>6. PICK s \in S : n \in ListNodes(heap, s)
    BY <1>3, <2>5
  <2>7. ClosedUnder(heap, s, {}, S) /\ S \in SUBSET DOMAIN heap
    BY <1>1, <1>3 DEF ClosedUnder
  <2>8. n \in S
    BY <2>6, <2>7, VisitedLeast DEF ListNodes
  <2> QED
    BY <1>3, <2>1, <2>7, <2>8
<1>4. from = NULL => L = {}
  <2>1. CASE DOMAIN heap = {}
    BY <1>1, <2>1
  <2>2. CASE DOMAIN heap # {}
    BY <2>2, ListStep
  <2> QED
    BY <2>1, <2>2
<1> HIDE DEF L
<1>5. CASE from = NULL
  BY <1>4, <1>5 DEF Terminates, Open, L
<1>6. CASE from # NULL
  BY <1>2, <1>3, <1>6 DEF Open, L
<1> QED
  BY <1>5, <1>6

\* It still does when its nodes keep their next pointers or lose them.
LEMMA EndsKept ==
    ASSUME NEW heap, Wired(heap), NULL \notin DOMAIN heap,
           NEW h2, Wired(h2), NULL \notin DOMAIN h2, DOMAIN heap \subseteq DOMAIN h2,
           \A m \in DOMAIN heap : h2[m].next \in {heap[m].next, NULL},
           NEW head \in DOMAIN heap \cup {NULL}, Terminates(heap, head, {})
    PROVE  Terminates(h2, head, {})
<1> DEFINE L == ListNodes(heap, head)
<1>1. L \in SUBSET DOMAIN heap /\ ClosedUnder(heap, head, {}, L) /\ Open(heap, L)
  BY VisitedClosed, VisitedNodes, EndsOpen DEF ListNodes
<1>2. ClosedUnder(h2, head, {}, L)
  BY <1>1 DEF ClosedUnder
<1>3. ListNodes(h2, head) \subseteq L
  BY <1>1, <1>2, VisitedLeast DEF ListNodes
<1>4. Open(h2, ListNodes(h2, head))
  <2> SUFFICES ASSUME NEW S \in SUBSET ListNodes(h2, head), S # {},
                      \A m \in S : h2[m].next \in S
               PROVE  FALSE
    BY DEF Open
  <2>1. S \in SUBSET L /\ NULL \notin S
    BY <1>1, <1>3
  <2>2. \A m \in S : heap[m].next \in S
    BY <1>1, <2>1
  <2> QED
    BY <1>1, <2>1, <2>2 DEF Open
<1>5. head \in DOMAIN h2 \cup {NULL}
  OBVIOUS
<1> QED
  BY <1>4, <1>5, EndsOpen

\* It still does with a node pushed that was not on it.
LEMMA EndsPushed ==
    ASSUME NEW heap, heap \in [DOMAIN heap -> Nodes], Wired(heap), NULL \notin DOMAIN heap,
           NEW head \in DOMAIN heap \cup {NULL}, Terminates(heap, head, {}),
           NEW n \in DOMAIN heap, n \notin ListNodes(heap, head)
    PROVE  Terminates(Push(heap, head, n), n, {})
<1> DEFINE L  == ListNodes(heap, head)
           h2 == Push(heap, head, n)
<1>1. /\ DOMAIN h2 = DOMAIN heap /\ h2[n].next = head
      /\ \A m \in DOMAIN heap \ {n} : h2[m] = heap[m]
  BY DEF Push, Nodes
<1> HIDE DEF h2
<1>2. L \in SUBSET DOMAIN heap /\ ClosedUnder(heap, head, {}, L) /\ Open(heap, L)
  BY VisitedClosed, VisitedNodes, EndsOpen DEF ListNodes
<1>3. Wired(h2)
  BY <1>1 DEF Wired
<1>4. ClosedUnder(h2, n, {}, L \cup {n})
  BY <1>1, <1>2 DEF ClosedUnder
<1>5. ListNodes(h2, n) \subseteq L \cup {n}
  BY <1>1, <1>2, <1>4, VisitedLeast DEF ListNodes
<1>6. Open(h2, ListNodes(h2, n))
  <2> SUFFICES ASSUME NEW S \in SUBSET ListNodes(h2, n), S # {},
                      \A m \in S : h2[m].next \in S
               PROVE  FALSE
    BY DEF Open
  <2>0. S \in SUBSET DOMAIN heap /\ NULL \notin S /\ S \ {n} \in SUBSET L
    BY <1>2, <1>5
  <2>1. ASSUME NEW m \in S \ {n} PROVE heap[m].next \in S \ {n}
    <3>1. m \in L /\ heap[m].next \in S
      BY <1>1, <2>0
    <3>2. heap[m].next \in L
      BY <1>2, <2>0, <3>1 DEF ClosedUnder
    <3> QED
      BY <3>1, <3>2
  <2>2. S = {n}
    BY <1>2, <2>0, <2>1 DEF Open
  <2>3. head = n
    BY <1>1, <2>2
  <2> QED
    BY <1>2, <2>3 DEF ClosedUnder
<1>7. Terminates(h2, n, {})
  BY <1>1, <1>3, <1>6, EndsOpen
<1> QED
  BY <1>7 DEF h2

\* It still does when a node is unlinked from it, from some of those that lead to it.
LEMMA EndsUnlinked ==
    ASSUME NEW heap, Wired(heap), NULL \notin DOMAIN heap,
           NEW head \in DOMAIN heap \cup {NULL}, Terminates(heap, head, {}),
           NEW x \in ListNodes(heap, head),
           NEW h2, DOMAIN h2 = DOMAIN heap,
           \A m \in DOMAIN heap : \/ h2[m].next = heap[m].next
                                  \/ heap[m].next = x /\ h2[m].next = heap[x].next
    PROVE  Terminates(h2, IF x = head THEN heap[x].next ELSE head, {})
<1> DEFINE L  == ListNodes(heap, head)
           hd == IF x = head THEN heap[x].next ELSE head
<1>1. L \in SUBSET DOMAIN heap /\ Open(heap, L) /\ x \in DOMAIN heap
  BY VisitedNodes, EndsOpen DEF ListNodes
<1>2. hd \in DOMAIN heap \cup {NULL} /\ Wired(h2)
  BY <1>1 DEF Wired
<1>3. ListNodes(heap, hd) \subseteq L
  BY <1>1, ListBehind
<1> HIDE DEF L, hd
<1>4. ListNodes(h2, hd) \subseteq L
  BY <1>1, <1>2, <1>3, SkipShrinks
<1>5. Open(h2, ListNodes(h2, hd))
  <2> SUFFICES ASSUME NEW S \in SUBSET ListNodes(h2, hd), S # {},
                      \A m \in S : h2[m].next \in S
               PROVE  FALSE
    BY DEF Open
  <2>0. S \in SUBSET L /\ S \in SUBSET DOMAIN heap
    BY <1>1, <1>4
  <2>1. CASE \A m \in S : h2[m].next = heap[m].next
    BY <1>1, <2>0, <2>1 DEF Open
  <2>2. CASE \E m \in S : h2[m].next = heap[x].next
    <3>1. heap[x].next \in S
      BY <2>2
    <3>2. \A m \in S \cup {x} : heap[m].next \in S \cup {x}
      BY <2>0, <3>1
    <3>3. S \cup {x} \in SUBSET L
      BY <2>0 DEF L
    <3> QED
      BY <1>1, <3>2, <3>3 DEF Open
  <2> QED
    BY <2>0, <2>1, <2>2
<1>6. Terminates(h2, hd, {})
  BY <1>2, <1>5, EndsOpen
<1> QED
  BY <1>6 DEF hd
-----------------------------------------------------------------------------
\* A lookup returns an entry under the key, if there is one.
LEMMA FindMatches ==
    ASSUME NEW N \in Nat, NEW table, DOMAIN table \subseteq 1 .. N, NEW mac
    PROVE  /\ find_socketfd(table, mac) \in Matches(table, mac) \cup {NULL}
           /\ find_socketfd(table, mac) = NULL <=> Matches(table, mac) = {}
<1> DEFINE M == Matches(table, mac)
<1>1. M \in SUBSET (1 .. N)
  BY DEF Matches
<1>2. CASE M = {}
  BY <1>2 DEF find_socketfd
<1>3. CASE M # {}
  <2>1. \E e \in M : \A f \in M : f <= e
    BY <1>1, <1>3, GreatestElement
  <2>2. find_socketfd(table, mac) \in M
    BY <1>3, <2>1 DEF find_socketfd
  <2>3. NULL \notin M
    BY <1>1 DEF NULL
  <2> QED
    BY <2>2, <2>3
<1> QED
  BY <1>2, <1>3
=============================================================================
