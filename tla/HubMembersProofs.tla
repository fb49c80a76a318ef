--------------------------- MODULE HubMembersProofs ---------------------------
(***************************************************************************)
(* A hub of any size implements Members; and what holds of a proxy with a  *)
(* single neighbour, whose list has no second node to be cut off.          *)
(***************************************************************************)
EXTENDS HubMembers, HubProofs

\* checkLinkTimeOut searches the list from where it stands, or from behind the node
\* it has unlinked and not counted yet.
Searching == tpc \in {"expire", "count"}
Ahead == IF tpc = "count" THEN heap[tptr].next ELSE tptr

\* No time was noted before it came.
TimesInv ==
    /\ \A n \in DOMAIN heap : heap[n].ID <= now
    /\ Searching => ttime <= now

\* A neighbour has one route, and none while it is about to get one.
RoutesOnce ==
    /\ \A e, f \in DOMAIN socketfds : socketfds[e].sock_fd = socketfds[f].sock_fd => e = f
    /\ \A c \in Conns : pc[c] = "addsock" => ~HasRoute(c)

\* What checkLinkTimeOut has before it, perhaps cut off the list by now, names no
\* member that another node of the list stands for.
SearchOnce ==
    Searching =>
        \A m \in ListNodes(heap, Ahead), n \in ListNodes(heap, head) :
            heap[m].remote.macaddr = heap[n].remote.macaddr => m = n

BarInv == HubInv /\ TimesInv /\ RoutesOnce /\ SearchOnce
-----------------------------------------------------------------------------
(***************************************************************************)
(* The members of a list, and when they were heard from.                   *)
(***************************************************************************)
\* Each neighbour has at most one node on the list.
Once(h, list) ==
    \A m, n \in list : h[m].remote.macaddr = h[n].remote.macaddr => m = n

\* Nodes keep what is said of them.
Same(h, h2, list) == \A n \in list : h2[n].remote = h[n].remote /\ h2[n].ID = h[n].ID

\* The node of a member, and the time noted in it.
LEMMA MemberNode ==
    ASSUME NEW h, NEW list, Once(h, list), NEW c \in Conns
    PROVE  /\ \A n \in list : h[n].remote.macaddr = Peer[c].macaddr =>
                  c \in MembersOf(h, list) /\ HeardOf(h, list)[c] = h[n].ID
           /\ c \in MembersOf(h, list) =>
                  \E n \in list : h[n].remote.macaddr = Peer[c].macaddr
           /\ c \notin MembersOf(h, list) => HeardOf(h, list)[c] = 0
<1> DEFINE N == NodesOf(h, list, c)
<1>1. ASSUME NEW n \in list, h[n].remote.macaddr = Peer[c].macaddr PROVE N = {n}
  BY <1>1 DEF NodesOf, Once
<1>2. ASSUME NEW n, N = {n} PROVE (CHOOSE m \in N : TRUE) = n
  BY <1>2
<1>3. HeardOf(h, list)[c] = IF N = {} THEN 0 ELSE h[CHOOSE m \in N : TRUE].ID
  BY DEF HeardOf
<1>4. c \in MembersOf(h, list) <=> N # {}
  BY DEF MembersOf
<1>5. N # {} => \E n \in list : h[n].remote.macaddr = Peer[c].macaddr
  BY DEF NodesOf
<1> HIDE DEF N
<1> QED
  BY <1>1, <1>2, <1>3, <1>4, <1>5

\* Members are connections, and each has a time.
LEMMA MembersType ==
    ASSUME NEW h, NEW list
    PROVE  /\ MembersOf(h, list) \subseteq Conns
           /\ DOMAIN HeardOf(h, list) = Conns
           /\ HeardOf(h, list) = [c \in Conns |-> HeardOf(h, list)[c]]
BY DEF MembersOf, HeardOf

\* On a part of the list the members that are left keep their times.
LEMMA FewerMembers ==
    ASSUME NEW h, NEW list, Once(h, list), NEW h2, NEW list2, list2 \subseteq list,
           Same(h, h2, list)
    PROVE  /\ MembersOf(h2, list2) \subseteq MembersOf(h, list)
           /\ HeardOf(h2, list2) = [c \in Conns |->
                 IF c \in MembersOf(h2, list2) THEN HeardOf(h, list)[c] ELSE 0]
<1>1. Once(h2, list2)
  BY DEF Once, Same
<1>2. ASSUME NEW c \in Conns, c \in MembersOf(h2, list2)
      PROVE  c \in MembersOf(h, list) /\ HeardOf(h2, list2)[c] = HeardOf(h, list)[c]
  <2>1. PICK n \in list2 : h2[n].remote.macaddr = Peer[c].macaddr
    BY <1>1, <1>2, MemberNode
  <2>2. h[n].remote.macaddr = Peer[c].macaddr /\ h2[n].ID = h[n].ID
    BY <2>1 DEF Same
  <2> QED
    BY <1>1, <2>1, <2>2, MemberNode
<1>3. ASSUME NEW c \in Conns, c \notin MembersOf(h2, list2)
      PROVE  HeardOf(h2, list2)[c] = 0
  BY <1>1, <1>3, MemberNode
<1> QED
  BY <1>2, <1>3, MembersType

\* The same list has the same members and times.
LEMMA SameMembers ==
    ASSUME NEW h, NEW list, Once(h, list), NEW h2, Same(h, h2, list)
    PROVE  /\ MembersOf(h2, list) = MembersOf(h, list)
           /\ HeardOf(h2, list) = HeardOf(h, list)
<1>1. MembersOf(h2, list) = MembersOf(h, list)
  BY DEF MembersOf, NodesOf, Same
<1>2. HeardOf(h2, list) = [c \in Conns |->
          IF c \in MembersOf(h, list) THEN HeardOf(h, list)[c] ELSE 0]
  BY <1>1, FewerMembers
<1>3. \A c \in Conns : c \notin MembersOf(h, list) => HeardOf(h, list)[c] = 0
  BY MemberNode
<1> QED
  BY <1>1, <1>2, <1>3, MembersType

\* A node more, for a neighbour that had none.
LEMMA OneMoreMember ==
    ASSUME NEW h, NEW list, Once(h, list), NEW c \in Conns, c \notin MembersOf(h, list),
           NEW h2, NEW list2, NEW n \in list2, h[n].remote.macaddr = Peer[c].macaddr,
           \A m \in list2 : m # n <=> m \in list, list \subseteq list2, Same(h, h2, list2)
    PROVE  /\ MembersOf(h2, list2) = MembersOf(h, list) \cup {c}
           /\ HeardOf(h2, list2) = [HeardOf(h, list) EXCEPT ![c] = h[n].ID]
<1>1. \A m \in list : h[m].remote.macaddr # Peer[c].macaddr
  BY MemberNode
<1>2. Once(h2, list2)
  BY <1>1 DEF Once, Same
<1>3. c \in MembersOf(h2, list2) /\ HeardOf(h2, list2)[c] = h[n].ID
  BY <1>2, MemberNode DEF Same
<1>4. ASSUME NEW d \in Conns \ {c}
      PROVE  /\ d \in MembersOf(h2, list2) <=> d \in MembersOf(h, list)
             /\ HeardOf(h2, list2)[d] = HeardOf(h, list)[d]
  <2>1. h2[n].remote.macaddr # Peer[d].macaddr
    BY PeerKeys DEF Same
  <2>2. CASE d \in MembersOf(h2, list2)
    <3>1. PICK m \in list2 : h2[m].remote.macaddr = Peer[d].macaddr
      BY <1>2, <2>2, MemberNode
    <3>2. m \in list /\ h[m].remote.macaddr = Peer[d].macaddr /\ h2[m].ID = h[m].ID
      BY <2>1, <3>1 DEF Same
    <3> QED
      BY <1>2, <2>2, <3>1, <3>2, MemberNode
  <2>3. CASE d \notin MembersOf(h2, list2)
    <3>1. d \notin MembersOf(h, list)
      <4>1. SUFFICES ASSUME d \in MembersOf(h, list) PROVE FALSE
        OBVIOUS
      <4>2. PICK m \in list : h[m].remote.macaddr = Peer[d].macaddr
        BY <4>1, MemberNode
      <4>3. m \in list2 /\ h2[m].remote.macaddr = Peer[d].macaddr
        BY <4>2 DEF Same
      <4> QED
        BY <1>2, <2>3, <4>3, MemberNode
    <3> QED
      BY <1>2, <2>3, <3>1, MemberNode
  <2> QED
    BY <2>2, <2>3
<1>5. MembersOf(h2, list2) = MembersOf(h, list) \cup {c}
  BY <1>3, <1>4, MembersType
<1>6. HeardOf(h2, list2) = [HeardOf(h, list) EXCEPT ![c] = h[n].ID]
  BY <1>3, <1>4, MembersType
<1> QED
  BY <1>5, <1>6

\* The time of one node is noted anew.
LEMMA RefreshedMember ==
    ASSUME NEW h, NEW list, Once(h, list), NEW c \in Conns, NEW n \in list,
           h[n].remote.macaddr = Peer[c].macaddr, NEW h2, NEW t,
           \A m \in list : h2[m].remote = h[m].remote,
           \A m \in list \ {n} : h2[m].ID = h[m].ID, h2[n].ID = t
    PROVE  /\ c \in MembersOf(h, list) /\ MembersOf(h2, list) = MembersOf(h, list)
           /\ HeardOf(h2, list) = [HeardOf(h, list) EXCEPT ![c] = t]
<1>1. Once(h2, list)
  BY DEF Once
<1>2. c \in MembersOf(h, list) /\ HeardOf(h2, list)[c] = t
  BY <1>1, MemberNode
<1>3. MembersOf(h2, list) = MembersOf(h, list)
  BY DEF MembersOf, NodesOf
<1>4. ASSUME NEW d \in Conns \ {c} PROVE HeardOf(h2, list)[d] = HeardOf(h, list)[d]
  <2>1. CASE d \in MembersOf(h, list)
    <3>1. PICK m \in list : h[m].remote.macaddr = Peer[d].macaddr
      BY <2>1, MemberNode
    <3>2. m # n
      BY <3>1, PeerKeys
    <3>3. h2[m].remote.macaddr = Peer[d].macaddr /\ h2[m].ID = h[m].ID
      BY <3>1, <3>2
    <3> QED
      BY <1>1, <3>1, <3>3, MemberNode
  <2>2. CASE d \notin MembersOf(h, list)
    BY <1>1, <1>3, <2>2, MemberNode
  <2> QED
    BY <2>1, <2>2
<1>5. HeardOf(h2, list) = [HeardOf(h, list) EXCEPT ![c] = t]
  BY <1>2, <1>4, MembersType
<1> QED
  BY <1>2, <1>3, <1>5

\* The node of one member is gone.
LEMMA OneMemberLess ==
    ASSUME NEW h, NEW list, Once(h, list), NEW c \in Conns, NEW n \in list,
           h[n].remote.macaddr = Peer[c].macaddr, NEW h2, Same(h, h2, list),
           NEW list2, \A m : m \in list2 <=> m \in list /\ m # n
    PROVE  /\ c \in MembersOf(h, list) /\ HeardOf(h, list)[c] = h[n].ID
           /\ MembersOf(h2, list2) = MembersOf(h, list) \ {c}
           /\ HeardOf(h2, list2) = [HeardOf(h, list) EXCEPT ![c] = 0]
<1>1. c \in MembersOf(h, list) /\ HeardOf(h, list)[c] = h[n].ID
  BY MemberNode
<1>2. /\ MembersOf(h2, list2) \subseteq MembersOf(h, list)
      /\ HeardOf(h2, list2) = [d \in Conns |->
            IF d \in MembersOf(h2, list2) THEN HeardOf(h, list)[d] ELSE 0]
  <2>1. list2 \subseteq list
    OBVIOUS
  <2> QED
    BY <2>1, FewerMembers
<1>3. Once(h2, list2)
  BY DEF Once, Same
<1>4. c \notin MembersOf(h2, list2)
  <2>1. \A m \in list2 : h2[m].remote.macaddr # Peer[c].macaddr
    BY DEF Once, Same
  <2> QED
    BY <1>3, <2>1, MemberNode
<1>5. ASSUME NEW d \in MembersOf(h, list) \ {c} PROVE d \in MembersOf(h2, list2)
  <2>0. d \in Conns
    BY MembersType
  <2>1. PICK m \in list : h[m].remote.macaddr = Peer[d].macaddr
    BY <2>0, MemberNode
  <2>2. m # n
    BY <2>0, <2>1, PeerKeys
  <2>3. m \in list2 /\ h2[m].remote.macaddr = Peer[d].macaddr
    BY <2>1, <2>2 DEF Same
  <2> QED
    BY <1>3, <2>0, <2>3, MemberNode
<1>6. \A d \in Conns : d \notin MembersOf(h, list) => HeardOf(h, list)[d] = 0
  BY MemberNode
<1>7. MembersOf(h2, list2) = MembersOf(h, list) \ {c}
  BY <1>2, <1>4, <1>5
<1>8. HeardOf(h2, list2) = [HeardOf(h, list) EXCEPT ![c] = 0]
  BY <1>2, <1>6, <1>7, MembersType
<1> QED
  BY <1>1, <1>7, <1>8
-----------------------------------------------------------------------------
(***************************************************************************)
(* What the steps below need of the invariant.                             *)
(***************************************************************************)
LEMMA BarParts ==
    ASSUME BarInv
    PROVE  /\ TypeInv /\ HubInv /\ RouteIsDirect /\ Acyclic(heap) /\ LockOwned
           /\ TimesInv /\ RoutesOnce /\ SearchOnce
           /\ Wired(heap) /\ NULL \notin DOMAIN heap /\ heap \in [DOMAIN heap -> Nodes]
           /\ head \in DOMAIN heap \cup {NULL} /\ tptr \in DOMAIN heap \cup {NULL}
           /\ tpc = "count" => tptr \in DOMAIN heap
           /\ Ahead \in DOMAIN heap \cup {NULL}
           /\ ListNodes(heap, head) \subseteq DOMAIN heap
           /\ Once(heap, ListNodes(heap, head))
           /\ now \in Nat /\ ttime \in Nat /\ alloc \in Nat
           /\ \A n \in DOMAIN heap : heap[n].ID \in Nat
<1>1. TypeInv /\ HubInv /\ RouteIsDirect /\ Acyclic(heap) /\ LockOwned /\ ListedOnce
  BY DEF BarInv, HubInv, TableInv, ListInv
<1>2. /\ now \in Nat /\ alloc \in Nat /\ ttime \in Nat /\ tptr \in DOMAIN heap \cup {NULL}
      /\ tpc = "count" => tptr \in DOMAIN heap
  BY <1>1 DEF TypeInv, TypeOK, HeapOK, TimerOK, Standing
<1>3. /\ Wired(heap) /\ NULL \notin DOMAIN heap /\ heap \in [DOMAIN heap -> Nodes]
      /\ head \in DOMAIN heap \cup {NULL} /\ ListNodes(heap, head) \subseteq DOMAIN heap
  BY <1>1, ListFacts
<1>4. \A n \in DOMAIN heap : heap[n].ID \in Nat
  BY <1>3 DEF Nodes
<1>5. Once(heap, ListNodes(heap, head))
  BY <1>1 DEF ListedOnce, Once
<1>6. Ahead \in DOMAIN heap \cup {NULL}
  BY <1>2, <1>3 DEF Ahead, Wired
<1> QED
  BY <1>1, <1>2, <1>3, <1>4, <1>5, <1>6 DEF BarInv

\* The neighbours that can be sent to are those that have a route.
LEMMA Routes ==
    ASSUME HubInv
    PROVE  RouteBar = {d \in Conns : HasRoute(d)}
<1>1. TypeInv /\ RouteIsDirect
  BY DEF HubInv, TableInv
<1> QED
  BY <1>1, FindPeer DEF RouteBar

\* The same after a step.
LEMMA RoutesNext ==
    ASSUME HubInv'
    PROVE  RouteBar' = {d \in Conns : HasRoute(d)'}
<1>1. /\ alloc' \in Nat /\ DOMAIN socketfds' \subseteq 1 .. alloc'
      /\ socketfds' \in [DOMAIN socketfds' -> Entries]
      /\ \A e \in DOMAIN socketfds' :
             socketfds'[e].macaddr = Peer[socketfds'[e].sock_fd].macaddr
  BY DEF HubInv, TypeInv, TypeOK, HeapOK, TableOK, TableInv, RouteIsDirect
<1>2. \A d \in Conns : find_socketfd(socketfds', Peer[d].macaddr) # NULL
                          <=> \E e \in DOMAIN socketfds' : socketfds'[e].sock_fd = d
  BY <1>1, FindIn
<1> QED
  BY <1>2 DEF RouteBar, HasRoute
-----------------------------------------------------------------------------
(***************************************************************************)
(* The steps.                                                              *)
(***************************************************************************)
\* A step that changes neither list nor table nor the clock.
LEMMA LocalStep ==
    ASSUME BarInv, HubInv', UNCHANGED <<now, heap, head, socketfds>>,
           Searching' => UNCHANGED <<tpc, tptr, ttime>>,
           \A d \in Conns : pc'[d] = "addsock" => pc[d] = "addsock" \/ ~HasRoute(d)
    PROVE  BarInv' /\ UNCHANGED Abstract!vars
<1>1. TimesInv'
  BY BarParts DEF TimesInv, Searching
<1>2. RoutesOnce'
  BY BarParts DEF RoutesOnce, HasRoute
<1>3. SearchOnce'
  BY BarParts DEF SearchOnce, Searching, Ahead
<1>4. UNCHANGED <<RouteBar, MemberBar, HeardBar>>
  BY DEF RouteBar, MemberBar, HeardBar
<1> QED
  BY <1>1, <1>2, <1>3, <1>4 DEF BarInv, Abstract!vars

\* Receiving a packet: only a source without a route begins to join.
LEMMA RecvStep ==
    ASSUME BarInv, HubInv', NEW c \in Conns, Recv(c)
    PROVE  BarInv' /\ UNCHANGED Abstract!vars
<1>1. UNCHANGED <<now, heap, head, socketfds, tpc, tptr, ttime>>
  BY DEF Recv, RecvKnown, RecvJoin, RecvIgnored, RecvEmpty, RecvLeave, LostConnection,
     RecvQuit, Silence, Receive, shared, timer
<1>2. ASSUME NEW l, pc' = [pc EXCEPT ![c] = l], l # "addsock"
      PROVE  \A d \in Conns : pc'[d] = "addsock" => pc[d] = "addsock" \/ ~HasRoute(d)
  BY <1>2, BarParts, HubParts
<1>3. CASE RecvJoin(c)
  <2>1. PICK p \in Hello[c] \cup Flood[c] : Unknown(p) /\ pc' = [pc EXCEPT ![c] = "addsock"]
    BY <1>3 DEF RecvJoin, Goto
  <2>2. ~HasRoute(c)
    BY <2>1, BarParts, FindPeer, PacketLink DEF Unknown
  <2>3. \A d \in Conns : pc'[d] = "addsock" => pc[d] = "addsock" \/ ~HasRoute(d)
    BY <2>1, <2>2, BarParts, HubParts
  <2> QED
    BY <1>1, <2>3, LocalStep
<1>4. CASE RecvKnown(c) \/ RecvIgnored(c)
  <2>1. \/ pc' = [pc EXCEPT ![c] = "members"]
        \/ pc' = [pc EXCEPT ![c] = "recv"]
    BY <1>4 DEF RecvKnown, RecvIgnored, Return, Goto
  <2> QED
    BY <1>1, <1>2, <2>1, LocalStep
<1>5. CASE RecvEmpty(c) \/ RecvLeave(c) \/ LostConnection(c) \/ RecvQuit(c)
  <2>1. UNCHANGED pc
    BY <1>5 DEF RecvEmpty, RecvLeave, LostConnection, RecvQuit, Silence, reader
  <2> QED
    BY <1>1, <2>1, LocalStep
<1> QED
  BY <1>3, <1>4, <1>5 DEF Recv

\* A neighbour that begins to join gets its route.
LEMMA JoinAddStep ==
    ASSUME BarInv, HubInv', NEW c \in Conns, JoinAdd(c)
    PROVE  BarInv' /\ Abstract!Next
<1> DEFINE link   == Head(recvd[c])
           mac    == IF ZeroRemote(recvd[c]) THEN from[c].macaddr ELSE link.local.macaddr
           remote == [ip |-> from[c].ip, macaddr |-> mac]
           n      == alloc + 2
           L      == ListNodes(heap, head)
<1>1. /\ pc[c] = "addsock" /\ pc' = [pc EXCEPT ![c] = "joinlock"]
      /\ heap' = NewNode(heap, n, MyInfo, remote, 1, now)
      /\ socketfds' = addsockfd(socketfds, alloc + 1, from[c].macaddr, c)
      /\ UNCHANGED <<now, head, tpc, tptr, ttime>>
  BY DEF JoinAdd, At, Goto, timer
<1> HIDE DEF link, mac, remote
<1>2. /\ alloc \in Nat /\ DOMAIN heap \subseteq 1 .. alloc
      /\ DOMAIN socketfds \subseteq 1 .. alloc /\ n \notin DOMAIN heap
      /\ alloc + 1 \notin DOMAIN socketfds
  BY BarParts DEF TypeInv, TypeOK, HeapOK, TableOK
<1> HIDE DEF n
<1>3. /\ DOMAIN heap' = DOMAIN heap \cup {n} /\ heap'[n].ID = now /\ heap'[n].next = NULL
      /\ \A m \in DOMAIN heap : heap'[m] = heap[m]
  BY <1>1, <1>2 DEF NewNode
<1>4. /\ DOMAIN socketfds' = DOMAIN socketfds \cup {alloc + 1}
      /\ socketfds'[alloc + 1].sock_fd = c
      /\ \A e \in DOMAIN socketfds : socketfds'[e] = socketfds[e]
  BY <1>1, <1>2 DEF addsockfd
<1>5. ~HasRoute(c) /\ \A d \in Conns : HasRoute(d)' <=> HasRoute(d) \/ d = c
  BY <1>1, <1>4, BarParts DEF RoutesOnce, HasRoute
<1>6. Wired(heap')
  BY <1>3, BarParts DEF Wired
<1>7. ListNodes(heap', head) = L /\ ListNodes(heap', Ahead') = ListNodes(heap, Ahead)
  <2>1. Ahead' = Ahead
    BY <1>1, <1>3, BarParts DEF Ahead
  <2> QED
    BY <1>3, <1>6, <2>1, BarParts, NodesStay
<1>8. ListNodes(heap, Ahead) \subseteq DOMAIN heap
  BY VisitedNodes DEF ListNodes
<1>9. TimesInv'
  BY <1>1, <1>3, BarParts DEF TimesInv, Searching
<1>10. RoutesOnce'
  <2>1. \A e, f \in DOMAIN socketfds' : socketfds'[e].sock_fd = socketfds'[f].sock_fd => e = f
    BY <1>4, <1>5, BarParts DEF RoutesOnce, HasRoute
  <2>2. \A d \in Conns : pc'[d] = "addsock" => d # c /\ pc[d] = "addsock"
    BY <1>1, BarParts, HubParts
  <2> QED
    BY <1>5, <2>1, <2>2, BarParts DEF RoutesOnce
<1>11. SearchOnce'
  BY <1>1, <1>3, <1>7, <1>8, BarParts DEF SearchOnce, Searching
<1>12. Same(heap, heap', L)
  BY <1>3, BarParts DEF Same
<1>13. MemberBar' = MemberBar /\ HeardBar' = HeardBar
  BY <1>1, <1>7, <1>12, BarParts, SameMembers DEF MemberBar, HeardBar
<1>14. c \notin RouteBar /\ RouteBar' = RouteBar \cup {c}
  BY <1>5, BarParts, Routes, RoutesNext
<1> QED
  BY <1>1, <1>9, <1>10, <1>11, <1>13, <1>14 DEF BarInv, Abstract!Next, Abstract!Route

\* checkLinkTimeOut is not searching while a thread is between lock and unlock.
LEMMA NotSearching ==
    ASSUME BarInv, NEW c \in Conns, Critical(c)
    PROVE  ~Searching
BY BarParts, ProxyAssumption DEF LockOwned, TimerCritical, Searching

\* It becomes a member when its node is inserted, with the time noted before that.
LEMMA JoinInsertStep ==
    ASSUME BarInv, HubInv', NEW c \in Conns, JoinInsert(c)
    PROVE  BarInv' /\ Abstract!Next
<1> DEFINE n == ptr[c]
           L == ListNodes(heap, head)
<1>1. /\ pc[c] = "insert" /\ heap' = Push(heap, head, n) /\ head' = n
      /\ pc' = [pc EXCEPT ![c] = "count"]
      /\ UNCHANGED <<now, socketfds, tpc, tptr, ttime>>
  BY DEF JoinInsert, At, Goto, timer
<1>2. /\ ~IsListed(Peer[c].macaddr) /\ HasRoute(c) /\ n \in DOMAIN heap /\ n # head
      /\ heap[n].remote.macaddr = Peer[c].macaddr
      /\ \A m \in DOMAIN heap : heap[m].next # n
  BY <1>1, BarParts, HubParts DEF Joining
<1> HIDE DEF n
<1>3. /\ DOMAIN heap' = DOMAIN heap
      /\ \A m \in DOMAIN heap : heap'[m].remote = heap[m].remote /\ heap'[m].ID = heap[m].ID
  BY <1>1, <1>2, BarParts DEF Push, Nodes
<1>4. ListNodes(heap', head') = L \cup {n}
  <2>1. ListNodes(heap', n) \subseteq L \cup {n}
    BY <1>1, <1>2, BarParts, PushList
  <2>2. L \cup {n} \subseteq ListNodes(heap', n)
    BY <1>1, <1>2, BarParts, PushKeeps
  <2> QED
    BY <1>1, <2>1, <2>2
<1>5. ~Searching'
  BY <1>1, NotSearching DEF Critical, Searching
<1>6. TimesInv' /\ SearchOnce'
  BY <1>1, <1>3, <1>5, BarParts DEF TimesInv, SearchOnce
<1>7. RoutesOnce'
  BY <1>1, BarParts, HubParts DEF RoutesOnce, HasRoute
<1>8. c \notin MembersOf(heap, L)
  <2>1. SUFFICES ASSUME c \in MembersOf(heap, L) PROVE FALSE
    OBVIOUS
  <2>2. \E m \in L : heap[m].remote.macaddr = Peer[c].macaddr
    BY <2>1, BarParts, MemberNode
  <2> QED
    BY <1>2, <2>2 DEF IsListed
<1> DEFINE L2 == ListNodes(heap', head')
<1>9. Same(heap, heap', L2)
  BY <1>2, <1>3, <1>4, BarParts DEF Same
<1>10. /\ MemberBar' = MemberBar \cup {c}
       /\ HeardBar' = [HeardBar EXCEPT ![c] = heap[n].ID]
  <2>1. /\ MembersOf(heap', L2) = MembersOf(heap, L) \cup {c}
        /\ HeardOf(heap', L2) = [HeardOf(heap, L) EXCEPT ![c] = heap[n].ID]
    <3>1. /\ heap[n].remote.macaddr = Peer[c].macaddr /\ Once(heap, L)
          /\ n \in L2 /\ L \subseteq L2 /\ \A m \in L2 : m # n <=> m \in L
      <4>1. n \notin L
        BY <1>2 DEF IsListed
      <4> QED
        BY <1>2, <1>4, <4>1, BarParts
    <3> HIDE DEF L, L2
    <3> QED
      BY <1>8, <1>9, <3>1, OneMoreMember
  <2> QED
    BY <2>1 DEF MemberBar, HeardBar
<1>11. c \in RouteBar \ MemberBar /\ RouteBar' = RouteBar
  BY <1>1, <1>2, <1>8, BarParts, Routes DEF MemberBar, RouteBar
<1>12. heap[n].ID \in 0 .. now
  BY <1>2, BarParts DEF TimesInv
<1> QED
  BY <1>1, <1>6, <1>7, <1>10, <1>11, <1>12 DEF BarInv, Abstract!Next, Abstract!Join

\* The steps of a join that change neither list nor table.
LEMMA LocalJoinStep ==
    ASSUME BarInv, HubInv', NEW c \in Conns,
           JoinLock(c) \/ JoinCount(c) \/ ReplyList(c) \/ ReplyCrash(c) \/ ReplyKilled(c)
    PROVE  BarInv' /\ UNCHANGED Abstract!vars
<1>1. UNCHANGED <<now, heap, head, socketfds, tpc, tptr, ttime>>
  BY DEF JoinLock, JoinCount, ReplyList, ReplyCrash, ReplyKilled, shared, timer
<1>2. \/ pc' = [pc EXCEPT ![c] = "insert"] \/ pc' = [pc EXCEPT ![c] = "truncate"]
      \/ pc' = [pc EXCEPT ![c] = "members"] \/ pc' = [pc EXCEPT ![c] = "reply"]
      \/ UNCHANGED pc
  BY DEF JoinLock, JoinCount, ReplyList, ReplyCrash, ReplyKilled, Goto, reader
<1>3. \A d \in Conns : pc'[d] = "addsock" => pc[d] = "addsock"
  BY <1>2, BarParts, HubParts
<1> QED
  BY <1>1, <1>3, LocalStep

\* The answer of a join keeps a part of the list.
LEMMA ReplySendStep ==
    ASSUME BarInv, HubInv', NEW c \in Conns, ReplySend(c)
    PROVE  BarInv' /\ Abstract!Next
<1> DEFINE L == ListNodes(heap, head)
<1>1. /\ heap' = [heap EXCEPT ![ptr[c]].next = NULL] /\ pc' = [pc EXCEPT ![c] = "recv"]
      /\ UNCHANGED <<now, head, socketfds, tpc, tptr, ttime>>
  BY DEF ReplySend, Return, Goto, timer
<1>2. /\ DOMAIN heap' = DOMAIN heap
      /\ \A m \in DOMAIN heap : /\ heap'[m].next \in {heap[m].next, NULL}
                                /\ heap'[m].remote = heap[m].remote
                                /\ heap'[m].ID = heap[m].ID
  BY <1>1, BarParts DEF Nodes
<1>3. /\ ListNodes(heap', head) \subseteq L
      /\ ListNodes(heap', Ahead') \subseteq ListNodes(heap, Ahead)
  <2>1. ListNodes(heap', head) \subseteq L /\ ListNodes(heap', Ahead) \subseteq ListNodes(heap, Ahead)
    BY <1>2, BarParts, KeepOrCut
  <2>2. Ahead' \in {Ahead, NULL}
    BY <1>1, <1>2, BarParts DEF Ahead
  <2>3. ClosedUnder(heap', NULL, {}, {})
    BY DEF ClosedUnder
  <2>4. ListNodes(heap', NULL) = {}
    BY <2>3, VisitedLeast DEF ListNodes
  <2> QED
    BY <2>1, <2>2, <2>4
<1>4. ListNodes(heap, Ahead) \subseteq DOMAIN heap /\ L \subseteq DOMAIN heap
  BY VisitedNodes DEF ListNodes
<1>5. TimesInv'
  BY <1>1, <1>2, BarParts DEF TimesInv, Searching
<1>6. RoutesOnce'
  BY <1>1, BarParts, HubParts DEF RoutesOnce, HasRoute
<1>7. SearchOnce'
  <2> SUFFICES ASSUME Searching, NEW m \in ListNodes(heap', Ahead'),
                      NEW k \in ListNodes(heap', head),
                      heap'[m].remote.macaddr = heap'[k].remote.macaddr
               PROVE  m = k
    BY <1>1 DEF SearchOnce, Searching
  <2>1. m \in ListNodes(heap, Ahead) /\ k \in L
    BY <1>3
  <2>2. heap[m].remote.macaddr = heap[k].remote.macaddr
    BY <1>2, <1>4, <2>1
  <2> QED
    BY <2>1, <2>2, BarParts DEF SearchOnce
<1>8. Same(heap, heap', L)
  BY <1>2, <1>4 DEF Same
<1>9. /\ MemberBar' \subseteq MemberBar
      /\ HeardBar' = [d \in Conns |-> IF d \in MemberBar' THEN HeardBar[d] ELSE 0]
  <2> DEFINE L2 == ListNodes(heap', head)
  <2>1. Once(heap, L) /\ L2 \subseteq L
    BY <1>3, BarParts
  <2>2. /\ MembersOf(heap', L2) \subseteq MembersOf(heap, L)
        /\ HeardOf(heap', L2) = [d \in Conns |->
              IF d \in MembersOf(heap', L2) THEN HeardOf(heap, L)[d] ELSE 0]
    <3> HIDE DEF L, L2
    <3> QED
      BY <1>8, <2>1, FewerMembers
  <2> QED
    BY <1>1, <2>2 DEF MemberBar, HeardBar
<1>10. RouteBar' = RouteBar
  BY <1>1 DEF RouteBar
<1> QED
  BY <1>1, <1>5, <1>6, <1>7, <1>9, <1>10 DEF BarInv, Abstract!Next, Abstract!Cut

\* add_members notes the time in a node that stands for some neighbour, if it finds one.
LEMMA MemberRefreshStep ==
    ASSUME BarInv, HubInv', NEW c \in Conns, MemberRefresh(c)
    PROVE  BarInv' /\ [Abstract!Next]_(Abstract!vars)
<1> DEFINE f == Finder(c)
           L == ListNodes(heap, head)
<1>1. /\ pc[c] = "member" /\ pc' = [pc EXCEPT ![c] = "members"]
      /\ heap' = IF f = NULL THEN heap ELSE [heap EXCEPT ![f].ID = now]
      /\ UNCHANGED <<now, head, socketfds, tpc, tptr, ttime>>
  BY DEF MemberRefresh, Skip, At, Goto, timer
<1>2. ~Searching'
  BY <1>1, NotSearching DEF Critical, Searching
<1>3. \A d \in Conns : pc'[d] = "addsock" => pc[d] = "addsock"
  BY <1>1, BarParts, HubParts
<1>4. CASE f = NULL
  <2>1. UNCHANGED heap
    BY <1>1, <1>4
  <2> QED
    BY <1>1, <1>2, <1>3, <2>1, LocalStep
<1>5. CASE f # NULL
  <2>1. f \in L /\ f \in DOMAIN heap
    <3>1. f \in Visited(heap, head, Opposite(c)) /\ f \in DOMAIN heap
      BY <1>5, FirstOfStop, VisitedNodes DEF Finder
    <3> QED
      BY <3>1, VisitedStop, BarParts DEF ListNodes
  <2> HIDE DEF f
  <2>2. /\ DOMAIN heap' = DOMAIN heap /\ heap'[f].ID = now
        /\ \A m \in DOMAIN heap : heap'[m].remote = heap[m].remote /\ heap'[m].next = heap[m].next
        /\ \A m \in DOMAIN heap \ {f} : heap'[m].ID = heap[m].ID
    BY <1>1, <1>5, <2>1, BarParts DEF Nodes
  <2>3. Wired(heap')
    BY <2>2, BarParts DEF Wired
  <2>4. ListNodes(heap', head) = L
    BY <2>2, <2>3, BarParts, NodesStay
  <2>5. TimesInv'
    BY <1>1, <1>2, <2>2, BarParts DEF TimesInv
  <2>6. RoutesOnce' /\ SearchOnce'
    BY <1>1, <1>2, <1>3, BarParts DEF RoutesOnce, SearchOnce, HasRoute
  <2>7. PICK d \in Conns : heap[f].remote.macaddr = Peer[d].macaddr
    BY <2>1 DEF BarInv, HubInv, ListInv, PeerNodes
  <2>8. /\ d \in MembersOf(heap, L) /\ MembersOf(heap', L) = MembersOf(heap, L)
        /\ HeardOf(heap', L) = [HeardOf(heap, L) EXCEPT ![d] = now]
    <3>1. /\ Once(heap, L) /\ f \in L /\ heap'[f].ID = now
          /\ \A m \in L : heap'[m].remote = heap[m].remote
          /\ \A m \in L \ {f} : heap'[m].ID = heap[m].ID
      BY <2>1, <2>2, BarParts
    <3> HIDE DEF L
    <3> QED
      BY <2>7, <3>1, RefreshedMember
  <2>9. /\ d \in MemberBar /\ MemberBar' = MemberBar
        /\ HeardBar' = [HeardBar EXCEPT ![d] = now]
    BY <1>1, <2>4, <2>8 DEF MemberBar, HeardBar
  <2>10. RouteBar' = RouteBar
    BY <1>1 DEF RouteBar
  <2> QED
    BY <1>1, <2>5, <2>6, <2>9, <2>10 DEF BarInv, Abstract!Next, Abstract!Refresh
<1> QED
  BY <1>4, <1>5

\* The other steps of add_members change neither list nor table.
LEMMA AddMembersStep ==
    ASSUME BarInv, HubInv', NEW c \in Conns, AddMembers(c) \/ MemberLock(c)
    PROVE  BarInv' /\ [Abstract!Next]_(Abstract!vars)
<1>1. CASE MembersNext(c) \/ MembersDone(c) \/ MembersWild(c) \/ OutOfMemory(c) \/ MemberLock(c)
  <2>1. UNCHANGED <<now, heap, head, socketfds, tpc, tptr, ttime>>
    BY <1>1 DEF MembersNext, MembersDone, MembersWild, OutOfMemory, MemberLock, shared, timer
  <2>2. \/ pc' = [pc EXCEPT ![c] = "memberlock"] \/ pc' = [pc EXCEPT ![c] = "recv"]
        \/ pc' = [pc EXCEPT ![c] = "member"] \/ UNCHANGED pc
    BY <1>1 DEF MembersNext, MembersDone, MembersWild, OutOfMemory, MemberLock, Return,
       Goto, reader
  <2>3. \A d \in Conns : pc'[d] = "addsock" => pc[d] = "addsock"
    BY <2>2, BarParts, HubParts
  <2> QED
    BY <2>1, <2>3, LocalStep
<1>2. CASE MemberRefresh(c)
  BY <1>2, MemberRefreshStep
<1>3. ~MemberSpin(c) /\ ~MemberKnown(c) /\ ~MemberNew(c) /\ ~MemberRelink(c)
  BY BarParts, OnlyRefreshes
<1>4. ~MemberCount(c)
  BY BarParts, HubParts DEF Received, MemberCount, At
<1> QED
  BY <1>1, <1>2, <1>3, <1>4 DEF AddMembers

\* checkLinkTimeOut begins, goes on to the next node, counts, and ends.
LEMMA TimerStep ==
    ASSUME BarInv, HubInv', TimerLock \/ TimerKeep \/ TimerCount \/ TimerDone
    PROVE  BarInv' /\ UNCHANGED Abstract!vars
<1>1. UNCHANGED <<now, heap, head, socketfds, pc>>
  BY DEF TimerLock, TimerKeep, TimerCount, TimerDone, shared, reader
<1>2. RoutesOnce'
  BY <1>1, BarParts DEF RoutesOnce, HasRoute
<1>3. UNCHANGED <<RouteBar, MemberBar, HeardBar>>
  BY <1>1 DEF RouteBar, MemberBar, HeardBar
<1>4. CASE TimerLock
  <2>1. tptr' = head /\ ttime' = now /\ tpc' = "expire"
    BY <1>4 DEF TimerLock
  <2>2. TimesInv'
    BY <1>1, <2>1, BarParts DEF TimesInv
  <2>3. SearchOnce'
    BY <1>1, <2>1, BarParts DEF SearchOnce, Once, Ahead
  <2> QED
    BY <1>1, <1>2, <1>3, <2>2, <2>3 DEF BarInv, Abstract!vars
<1>5. CASE TimerKeep
  <2>1. /\ tpc = "expire" /\ tptr \in DOMAIN heap /\ tptr' = heap[tptr].next
        /\ UNCHANGED <<tpc, ttime>>
    BY <1>5, BarParts DEF TimerKeep
  <2>2. TimesInv'
    BY <1>1, <2>1, BarParts DEF TimesInv, Searching
  <2>3. ListNodes(heap, heap[tptr].next) \subseteq ListNodes(heap, tptr)
    BY <2>1, BarParts, ListBehind
  <2>4. SearchOnce'
    BY <1>1, <2>1, <2>3, BarParts DEF SearchOnce, Searching, Ahead
  <2> QED
    BY <1>1, <1>2, <1>3, <2>2, <2>4 DEF BarInv, Abstract!vars
<1>6. CASE TimerDone
  <2>1. tpc' = "sleep"
    BY <1>6 DEF TimerDone
  <2>2. TimesInv' /\ SearchOnce'
    BY <1>1, <2>1, BarParts DEF TimesInv, SearchOnce, Searching
  <2> QED
    BY <1>1, <1>2, <1>3, <2>2 DEF BarInv, Abstract!vars
<1>7. CASE TimerCount
  <2>1. tpc = "count" /\ tpc' = "expire" /\ tptr' = heap[tptr].next /\ UNCHANGED ttime
    BY <1>7 DEF TimerCount
  <2>2. TimesInv' /\ SearchOnce'
    BY <1>1, <2>1, BarParts DEF TimesInv, SearchOnce, Searching, Ahead
  <2> QED
    BY <1>1, <1>2, <1>3, <2>2 DEF BarInv, Abstract!vars
<1> QED
  BY <1>4, <1>5, <1>6, <1>7

\* checkLinkTimeOut forgets the neighbour whose time-out is over: the node that is
\* unlinked is the one that expired, and the route that goes is that neighbour's.
LEMMA TimerDeleteStep ==
    ASSUME BarInv, HubInv', TimerDelete
    PROVE  BarInv' /\ [Abstract!Next]_(Abstract!vars)
<1> DEFINE mac  == heap[tptr].remote.macaddr
           same == SameRemote(heap, mac)
           x    == FirstOf(heap, head, same)
           L    == ListNodes(heap, head)
           L2   == ListNodes(heap', head')
<1>1. /\ tpc = "expire" /\ tptr \in DOMAIN heap /\ Expired(tptr)
      /\ x # NULL => tpc' = "count" /\ tptr' = tptr
      /\ x = NULL => tpc' = "expire" /\ tptr' = heap[tptr].next
      /\ UNCHANGED <<ttime, now, pc>>
  <2>1. tptr \in DOMAIN heap /\ tpc = "expire" /\ Expired(tptr)
    BY BarParts DEF TimerDelete
  <2>2. Terminates(heap, head, same)
    BY BarParts, AcyclicTerminates
  <2> QED
    BY <2>1, <2>2 DEF TimerDelete, reader
<1>2. /\ tptr \in ListNodes(heap, tptr) /\ ListNodes(heap, tptr) \subseteq DOMAIN heap
      /\ ListNodes(heap, heap[tptr].next) \subseteq ListNodes(heap, tptr)
  BY <1>1, BarParts, ListBehind, VisitedNodes DEF ListNodes
<1>3. CASE x = NULL
  <2>1. UNCHANGED <<heap, head, socketfds>>
    BY <1>3 DEF TimerDelete
  <2>2. TimesInv' /\ RoutesOnce'
    BY <1>1, <1>3, <2>1, BarParts DEF TimesInv, RoutesOnce, HasRoute, Searching
  <2>3. SearchOnce'
    BY <1>1, <1>2, <1>3, <2>1, BarParts DEF SearchOnce, Searching, Ahead
  <2>4. UNCHANGED <<RouteBar, MemberBar, HeardBar>>
    BY <2>1 DEF RouteBar, MemberBar, HeardBar
  <2> QED
    BY <1>1, <2>2, <2>3, <2>4 DEF BarInv, Abstract!vars
<1>4. CASE x # NULL
  <2>1. x \in Visited(heap, head, same) /\ x \in same
    BY <1>4, FirstOfStop
  <2>2. x \in L /\ x \in DOMAIN heap /\ heap[x].remote.macaddr = mac
    BY <2>1, VisitedStop, BarParts DEF SameRemote
  <2>3. x = tptr
    BY <1>1, <1>2, <2>2, BarParts DEF SearchOnce, Searching, Ahead
  <2>4. L \cap same \subseteq {x}
    BY <2>1, <2>2, BarParts DEF Once, SameRemote
  <2>5. PICK c \in Conns : mac = Peer[c].macaddr
    BY <2>2 DEF BarInv, HubInv, ListInv, PeerNodes
  <2>6. /\ socketfds' = deletesockfd(socketfds, mac)
        /\ heap' = Unlink(heap, head, same, x)
        /\ head' = IF x = head THEN heap[x].next ELSE head
    BY <1>4 DEF TimerDelete
  <2>7. \A m : m \in L2 <=> m \in L /\ m # x
    <3>1. L2 \subseteq L \ {x}
      BY <2>1, <2>4, <2>6, BarParts, UnlinkList
    <3>2. L \ {x} \subseteq L2
      BY <2>1, <2>4, <2>6, BarParts, UnlinkKeeps
    <3> QED
      BY <3>1, <3>2
  <2>8. /\ DOMAIN heap' = DOMAIN heap
        /\ \A m \in DOMAIN heap : /\ heap'[m].remote = heap[m].remote
                                  /\ heap'[m].ID = heap[m].ID
                                  /\ \/ heap'[m].next = heap[m].next
                                     \/ heap[m].next = x /\ heap'[m].next = heap[x].next
    BY <2>2, <2>6, BarParts DEF Unlink, Nodes
  <2> HIDE DEF x, same
  <2>9. ListNodes(heap', Ahead') \subseteq ListNodes(heap, tptr)
    <3>1. Ahead' = heap[tptr].next /\ heap[tptr].next \in DOMAIN heap \cup {NULL}
      <4>1. heap[tptr].next # tptr
        <5>1. Acyclic(heap)
          BY BarParts
        <5>2. {tptr} \in SUBSET DOMAIN heap /\ {tptr} # {}
          BY <1>1
        <5> QED
          BY <5>1, <5>2 DEF Acyclic
      <4>2. heap'[tptr].next = heap[tptr].next
        BY <1>1, <2>3, <2>8, <4>1
      <4> QED
        BY <1>1, <1>4, <4>2, BarParts DEF Wired, Ahead
    <3>2. ListNodes(heap', Ahead') \subseteq ListNodes(heap, heap[tptr].next)
      BY <2>2, <2>8, <3>1, BarParts, SkipShrinks
    <3> QED
      BY <1>2, <3>2
  <2>10. TimesInv'
    BY <1>1, <2>8, BarParts DEF TimesInv, Searching
  <2>11. SearchOnce'
    <3> SUFFICES ASSUME NEW m \in ListNodes(heap', Ahead'), NEW k \in L2,
                        heap'[m].remote.macaddr = heap'[k].remote.macaddr
                 PROVE  m = k
      BY DEF SearchOnce
    <3>1. m \in ListNodes(heap, tptr) /\ k \in L
      BY <2>7, <2>9
    <3>2. heap[m].remote.macaddr = heap[k].remote.macaddr
      BY <1>2, <2>8, <3>1, BarParts
    <3> QED
      BY <1>1, <3>1, <3>2, BarParts DEF SearchOnce, Searching, Ahead
  <2>12. /\ \A d \in Conns : HasRoute(d)' <=> HasRoute(d) /\ d # c
         /\ \A e \in DOMAIN socketfds' : e \in DOMAIN socketfds /\ socketfds'[e] = socketfds[e]
    <3>1. /\ alloc \in Nat /\ DOMAIN socketfds \subseteq 1 .. alloc
          /\ socketfds \in [DOMAIN socketfds -> Entries]
      BY BarParts DEF TypeInv, TypeOK, HeapOK, TableOK
    <3>2. find_socketfd(socketfds, mac) # NULL
      BY <2>2, BarParts, HubParts DEF ListInTable
    <3>3. /\ find_socketfd(socketfds, mac) \in DOMAIN socketfds
          /\ socketfds[find_socketfd(socketfds, mac)].sock_fd = c
      <4>1. find_socketfd(socketfds, mac) \in Matches(socketfds, mac)
        BY <3>1, <3>2, FindMatches
      <4>2. \A e \in Matches(socketfds, mac) : e \in DOMAIN socketfds /\ socketfds[e].sock_fd = c
        BY <2>5, <3>1, BarParts, PeerKeys DEF Matches, RouteIsDirect, Entries
      <4> QED
        BY <4>1, <4>2
    <3>4. /\ DOMAIN socketfds' = DOMAIN socketfds \ {find_socketfd(socketfds, mac)}
          /\ \A e \in DOMAIN socketfds' : socketfds'[e] = socketfds[e]
      BY <2>6 DEF deletesockfd
    <3> QED
      BY <3>3, <3>4, BarParts DEF RoutesOnce, HasRoute
  <2>13. RoutesOnce'
    BY <1>1, <2>12, BarParts DEF RoutesOnce
  <2>14. RouteBar' = RouteBar \ {c}
    BY <2>12, BarParts, Routes, RoutesNext
  <2>15. /\ c \in MemberBar /\ HeardBar[c] = heap[x].ID
         /\ MemberBar' = MemberBar \ {c} /\ HeardBar' = [HeardBar EXCEPT ![c] = 0]
    <3>1. /\ Once(heap, L) /\ x \in L /\ heap[x].remote.macaddr = Peer[c].macaddr
          /\ Same(heap, heap', L)
      BY <2>2, <2>5, <2>8, BarParts DEF Same
    <3>2. /\ c \in MembersOf(heap, L) /\ HeardOf(heap, L)[c] = heap[x].ID
          /\ MembersOf(heap', L2) = MembersOf(heap, L) \ {c}
          /\ HeardOf(heap', L2) = [HeardOf(heap, L) EXCEPT ![c] = 0]
      <4> HIDE DEF L, L2
      <4> QED
        BY <2>7, <3>1, OneMemberLess
    <3> QED
      BY <3>2 DEF MemberBar, HeardBar
  <2>16. now - HeardBar[c] > LinkTimeout
    BY <1>1, <2>3, <2>15, BarParts, ProxyAssumption DEF Expired, TimesInv, Searching
  <2> QED
    BY <1>1, <2>10, <2>11, <2>13, <2>14, <2>15, <2>16
       DEF BarInv, Abstract!Next, Abstract!Forget
<1> QED
  BY <1>3, <1>4

\* The clock.
LEMMA TickStep ==
    ASSUME BarInv, HubInv', Tick
    PROVE  BarInv' /\ Abstract!Next
<1>1. /\ now' = now + 1
      /\ UNCHANGED <<heap, head, socketfds, pc, tpc, tptr, ttime>>
  BY DEF Tick, shared, reader, timer
<1>2. TimesInv'
  BY <1>1, BarParts DEF TimesInv, Searching
<1>3. RoutesOnce' /\ SearchOnce'
  BY <1>1, BarParts DEF RoutesOnce, SearchOnce, HasRoute, Searching, Ahead
<1>4. UNCHANGED <<RouteBar, MemberBar, HeardBar>>
  BY <1>1 DEF RouteBar, MemberBar, HeardBar
<1> QED
  BY <1>1, <1>2, <1>3, <1>4 DEF BarInv, Abstract!Next, Abstract!Pass
-----------------------------------------------------------------------------
\* At the start there are neither routes nor members.
LEMMA InitBar == Init => BarInv /\ Abstract!Init
<1> SUFFICES ASSUME Init PROVE BarInv /\ Abstract!Init
  OBVIOUS
<1>1. /\ heap = [n \in {} |-> NULL] /\ head = NULL /\ socketfds = [e \in {} |-> NULL]
      /\ now = 0 /\ tpc = "sleep" /\ pc = [c \in Conns |-> "recv"]
  BY DEF Init
<1>2. HubInv
  BY InitHubInv
<1>3. TimesInv /\ RoutesOnce /\ SearchOnce
  BY <1>1 DEF TimesInv, RoutesOnce, SearchOnce, Searching
<1>4. ListNodes(heap, head) = {}
  BY <1>1, VisitedNodes DEF ListNodes
<1>5. MemberBar = {} /\ HeardBar = [c \in Conns |-> 0]
  BY <1>4 DEF MemberBar, HeardBar, MembersOf, HeardOf, NodesOf
<1>6. RouteBar = {}
  BY <1>1, <1>2, Routes DEF HasRoute
<1> QED
  BY <1>1, <1>2, <1>3, <1>5, <1>6 DEF BarInv, Abstract!Init

\* Every step is a step of Members or changes nothing there.
LEMMA NextBar == BarInv /\ [Next]_vars => BarInv' /\ [Abstract!Next]_(Abstract!vars)
<1> SUFFICES ASSUME BarInv, [Next]_vars
             PROVE  BarInv' /\ [Abstract!Next]_(Abstract!vars)
  OBVIOUS
<1>1. HubInv'
  BY NextHubInv DEF BarInv
<1>2. ASSUME NEW c \in Conns, TCPHandle(c)
      PROVE  BarInv' /\ [Abstract!Next]_(Abstract!vars)
  BY <1>1, <1>2, RecvStep, LocalJoinStep, JoinAddStep, JoinInsertStep, ReplySendStep,
     AddMembersStep DEF TCPHandle, Join
<1>3. CASE TimerLock \/ CheckLinkTimeOut
  BY <1>1, <1>3, TimerStep, TimerDeleteStep DEF CheckLinkTimeOut
<1>4. CASE Tick
  BY <1>1, <1>4, TickStep
<1>5. CASE SendPackets \/ UNCHANGED vars
  <2>1. UNCHANGED <<now, heap, head, socketfds, pc, tpc, tptr, ttime>>
    BY <1>5 DEF SendPackets, SendCheck, SendLength, SendList, SendTo, SendDone,
       SendCrash, vars, shared, reader, timer
  <2> QED
    BY <1>1, <2>1, LocalStep
<1> QED
  BY <1>2, <1>3, <1>4, <1>5 DEF Next, Down

\* A proxy with any number of neighbours forgets a neighbour's route and membership
\* together, and only after its time-out: Hub implements Members, although no step
\* of a join, an answer, a refresh or an expiry is atomic in the code.
THEOREM HubImplementsMembers == Spec => ImplementsMembers
<1>1. Spec => []BarInv
  BY InitBar, NextBar, PTL DEF Spec
<1> QED
  BY <1>1, InitBar, NextBar, PTL DEF Spec, ImplementsMembers, Abstract!Spec
-----------------------------------------------------------------------------
(***************************************************************************)
(* A single neighbour: two proxies.  Its list has one node or none, so     *)
(* that the steps that cut a list or count its nodes cannot go wrong.      *)
(***************************************************************************)
SingleNeighbour == \E c : Conns = {c}

\* A route without a listed node is one whose join is not finished.
RouteOfHead ==
    \A c \in Conns : HasRoute(c) => head # NULL \/ pc[c] \in {"joinlock", "insert"}

PairInv == RouteOfHead /\ Counted = IF head = NULL THEN 0 ELSE 1

\* The list of a single neighbour ends with its head.
LEMMA OneNode ==
    ASSUME SingleNeighbour, BarInv
    PROVE  /\ head = NULL => ListNodes(heap, head) = {}
           /\ head # NULL => /\ ListNodes(heap, head) = {head}
                             /\ head \in DOMAIN heap /\ heap[head].next = NULL
                             /\ \A c \in Conns : heap[head].remote.macaddr = Peer[c].macaddr
<1> DEFINE L == ListNodes(heap, head)
<1>1. PICK c : Conns = {c}
  BY DEF SingleNeighbour
<1>2. /\ head # NULL => head \in L
      /\ \A n \in L : heap[n].next # NULL => heap[n].next \in L
  BY BarParts, VisitedClosed DEF ListNodes, ClosedUnder
<1>3. \A n \in DOMAIN heap : heap[n].remote.macaddr = Peer[c].macaddr
  BY <1>1 DEF BarInv, HubInv, ListInv, PeerNodes
<1>4. \A m, n \in L : m = n
  BY <1>3, BarParts DEF Once
<1>5. head = NULL => L = {}
  BY BarParts, ListStep, VisitedNodes DEF ListNodes, Visited, ClosedUnder
<1>6. CASE head # NULL
  <2>1. L = {head} /\ head \in DOMAIN heap
    BY <1>2, <1>4, <1>6, BarParts
  <2>2. heap[head].next # head
    BY <2>1, BarParts DEF Acyclic
  <2>3. heap[head].next = NULL
    BY <1>2, <2>1, <2>2
  <2> QED
    BY <1>1, <1>3, <1>6, <2>1, <2>3
<1> QED
  BY <1>5, <1>6

\* A step of another thread, or one that leaves the list and the route of a join.
LEMMA PairKept ==
    ASSUME SingleNeighbour, BarInv, PairInv, UNCHANGED head, Counted' = Counted,
           \A c \in Conns : HasRoute(c)' => HasRoute(c) \/ pc'[c] \in {"joinlock", "insert"},
           \A c \in Conns : pc[c] \in {"joinlock", "insert"} =>
                               pc'[c] \in {"joinlock", "insert"}
    PROVE  PairInv'
BY DEF PairInv, RouteOfHead

\* A join lists the neighbour, which was not listed: the list was empty.
LEMMA JoinPair ==
    ASSUME SingleNeighbour, BarInv, PairInv, NEW c \in Conns,
           Join(c) \/ JoinLock(c)
    PROVE  PairInv'
<1>0. HubInv /\ DOMAIN pc = Conns /\ \A d \in Conns : d = c
  BY BarParts DEF SingleNeighbour, TypeInv, TypeOK, ReaderOK
<1>1. CASE JoinAdd(c)
  <2>1. pc[c] = "addsock" /\ pc' = [pc EXCEPT ![c] = "joinlock"] /\ UNCHANGED <<head, size, tpc>>
    BY <1>1 DEF JoinAdd, At, Goto, timer
  <2>2. Counted' = Counted
    BY <1>0, <2>1, CountedKept
  <2> QED
    BY <1>0, <2>1, <2>2, PairKept
<1>2. CASE JoinLock(c)
  <2>1. /\ pc[c] = "joinlock" /\ pc' = [pc EXCEPT ![c] = "insert"]
        /\ UNCHANGED <<head, size, tpc, socketfds>>
    BY <1>2 DEF JoinLock, At, Goto, timer
  <2>2. Counted' = Counted
    BY <1>0, <2>1, CountedKept
  <2> QED
    BY <1>0, <2>1, <2>2, PairKept DEF HasRoute
<1>3. CASE JoinInsert(c)
  <2>1. /\ pc[c] = "insert" /\ pc' = [pc EXCEPT ![c] = "count"] /\ head' = ptr[c]
        /\ UNCHANGED <<size, tpc>>
    BY <1>3 DEF JoinInsert, At, Goto, timer
  <2>2. ~IsListed(Peer[c].macaddr) /\ ptr[c] \in DOMAIN heap
    BY <2>1, BarParts, HubParts DEF Joining
  <2>3. head = NULL
    BY <2>2, OneNode DEF IsListed
  <2>4. Counted' = Counted + 1
    BY <1>0, <2>1, CountedGrown
  <2>5. head' # NULL /\ Counted' = 1
    BY <2>1, <2>2, <2>3, <2>4, BarParts DEF PairInv
  <2> QED
    BY <2>5 DEF PairInv, RouteOfHead
<1>4. CASE JoinCount(c)
  <2>1. /\ pc[c] = "count" /\ size' = size + 1 /\ UNCHANGED <<head, tpc, socketfds>>
        /\ \E l \in {"members", "reply"} : pc' = [pc EXCEPT ![c] = l]
    BY <1>4 DEF JoinCount, At, Goto, timer
  <2>2. Counted' = Counted
    BY <1>0, <2>1, CountedGiven
  <2> QED
    BY <1>0, <2>1, <2>2, PairKept DEF HasRoute
<1>5. CASE ReplyList(c) \/ ReplySend(c)
  <2>1. /\ pc[c] \in {"reply", "truncate"} /\ UNCHANGED <<head, size, tpc, socketfds>>
        /\ \E l \in {"truncate", "recv"} : pc' = [pc EXCEPT ![c] = l]
    BY <1>5 DEF ReplyList, ReplySend, Return, At, Goto, shared, timer
  <2>2. Counted' = Counted
    BY <1>0, <2>1, CountedKept
  <2> QED
    BY <1>0, <2>1, <2>2, PairKept DEF HasRoute
<1>6. CASE ReplyCrash(c) \/ ReplyKilled(c)
  BY <1>6, PairKept DEF ReplyCrash, ReplyKilled, shared, reader, timer, HasRoute, Counted
<1> QED
  BY <1>1, <1>2, <1>3, <1>4, <1>5, <1>6 DEF Join

\* What arrives leaves list and table alone.
LEMMA RecvPair ==
    ASSUME SingleNeighbour, BarInv, PairInv, NEW c \in Conns, Recv(c)
    PROVE  PairInv'
<1>1. HubInv /\ DOMAIN pc = Conns /\ \A d \in Conns : d = c
  BY BarParts DEF SingleNeighbour, TypeInv, TypeOK, ReaderOK
<1>2. pc[c] = "recv" /\ UNCHANGED <<head, size, socketfds, tpc>>
  BY DEF Recv, RecvKnown, RecvJoin, RecvIgnored, RecvEmpty, RecvLeave, LostConnection,
     RecvQuit, Silence, Receive, Arrives, At, shared, timer
<1>3. \/ pc' = [pc EXCEPT ![c] = "members"] \/ pc' = [pc EXCEPT ![c] = "addsock"]
      \/ pc' = [pc EXCEPT ![c] = "recv"] \/ UNCHANGED pc
  BY DEF Recv, RecvKnown, RecvJoin, RecvIgnored, RecvEmpty, RecvLeave, LostConnection,
     RecvQuit, Silence, Return, Goto, reader
<1>4. Counted' = Counted
  <2>1. CASE UNCHANGED pc
    BY <1>2, <2>1 DEF Counted
  <2>2. CASE ~UNCHANGED pc
    BY <1>1, <1>2, <1>3, <2>2, CountedKept
  <2> QED
    BY <2>1, <2>2
<1> QED
  BY <1>1, <1>2, <1>3, <1>4, PairKept DEF HasRoute

\* add_members only refreshes the one node.
LEMMA AddMembersPair ==
    ASSUME SingleNeighbour, BarInv, PairInv, NEW c \in Conns,
           AddMembers(c) \/ MemberLock(c)
    PROVE  PairInv'
<1>1. HubInv /\ DOMAIN pc = Conns /\ \A d \in Conns : d = c
  BY BarParts DEF SingleNeighbour, TypeInv, TypeOK, ReaderOK
<1>2. /\ ~MemberSpin(c) /\ ~MemberKnown(c) /\ ~MemberNew(c) /\ ~MemberRelink(c)
      /\ ~MemberCount(c)
  BY BarParts, HubParts, OnlyRefreshes DEF Received, MemberCount, At
<1>3. CASE OutOfMemory(c)
  BY <1>3, PairKept DEF OutOfMemory, shared, reader, timer, HasRoute, Counted
<1>4. CASE MembersWild(c)
  BY <1>4, PairKept DEF MembersWild, shared, reader, timer, HasRoute, Counted
<1>5. CASE MembersNext(c) \/ MembersDone(c) \/ MemberRefresh(c) \/ MemberLock(c)
  <2>1. /\ pc[c] \in {"members", "memberlock", "member"}
        /\ UNCHANGED <<head, size, socketfds, tpc>>
    BY <1>5 DEF MembersNext, MembersDone, MemberRefresh, MemberLock, At, shared, timer
  <2>2. \/ pc' = [pc EXCEPT ![c] = "memberlock"] \/ pc' = [pc EXCEPT ![c] = "recv"]
        \/ pc' = [pc EXCEPT ![c] = "member"] \/ pc' = [pc EXCEPT ![c] = "members"]
    BY <1>5 DEF MembersNext, MembersDone, MemberRefresh, MemberLock, Skip, Return, Goto
  <2>3. Counted' = Counted
    BY <1>1, <2>1, <2>2, CountedKept
  <2> QED
    BY <1>1, <2>1, <2>2, <2>3, PairKept DEF HasRoute
<1> QED
  BY <1>2, <1>3, <1>4, <1>5 DEF AddMembers

\* An expiry of the one member empties list and table.
LEMMA TimerDeletePair ==
    ASSUME SingleNeighbour, BarInv, PairInv, TimerDelete
    PROVE  PairInv'
<1> DEFINE mac  == heap[tptr].remote.macaddr
           same == SameRemote(heap, mac)
           x    == FirstOf(heap, head, same)
           e    == find_socketfd(socketfds, mac)
<1>1. /\ tpc = "expire" /\ tpc' = IF x = NULL THEN "expire" ELSE "count"
      /\ size \in Int /\ UNCHANGED <<pc, size>>
  <2>1. Terminates(heap, head, same)
    BY BarParts, AcyclicTerminates
  <2> QED
    BY <2>1, BarParts DEF TimerDelete, reader, TypeInv, TypeOK, HeapOK
<1>2. CASE x = NULL
  <2>1. UNCHANGED <<head, socketfds>>
    BY <1>2 DEF TimerDelete
  <2>2. Counted' = Counted
    BY <1>1, <1>2 DEF Counted
  <2> QED
    BY <1>1, <2>1, <2>2, PairKept DEF HasRoute
<1>3. CASE x # NULL
  <2>1. /\ socketfds' = deletesockfd(socketfds, mac)
        /\ head' = IF x = head THEN heap[x].next ELSE head
    BY <1>3 DEF TimerDelete
  <2>2. x \in ListNodes(heap, head) /\ heap[x].remote.macaddr = mac
    <3>1. x \in Visited(heap, head, same) /\ x \in same
      BY <1>3, FirstOfStop
    <3> QED
      BY <3>1, VisitedStop, BarParts DEF SameRemote
  <2> HIDE DEF x
  <2>3. x = head /\ head # NULL /\ heap[x].next = NULL
    BY <2>2, OneNode
  <2>4. head' = NULL /\ Counted' = 0
    <3>1. Counted' = Counted - 1
      BY <1>1, <1>3 DEF Counted
    <3> QED
      BY <2>1, <2>3, <3>1 DEF PairInv
  <2>5. e # NULL
    BY <2>2, BarParts DEF HubInv, ListInv, ListInTable
  <2>6. e \in DOMAIN socketfds
    BY <2>5, FindMatches, BarParts DEF TypeInv, TypeOK, HeapOK, TableOK, Matches
  <2>7. \A f \in DOMAIN socketfds : f = e
    BY <2>6, BarParts DEF RoutesOnce, SingleNeighbour, TypeInv, TypeOK, TableOK, Entries
  <2>8. DOMAIN socketfds' = {}
    BY <2>1, <2>7 DEF deletesockfd
  <2> QED
    BY <1>1, <2>4, <2>8 DEF PairInv, RouteOfHead, HasRoute
<1> QED
  BY <1>2, <1>3

\* At the start the list is empty.
LEMMA InitPair == Init => PairInv
BY DEF Init, PairInv, RouteOfHead, HasRoute, Counted

\* Every step keeps the invariant.
LEMMA NextPair == SingleNeighbour /\ BarInv /\ PairInv /\ [Next]_vars => PairInv'
<1> SUFFICES ASSUME SingleNeighbour, BarInv, PairInv, [Next]_vars PROVE PairInv'
  OBVIOUS
<1>1. ASSUME NEW c \in Conns, TCPHandle(c) PROVE PairInv'
  BY <1>1, RecvPair, JoinPair, AddMembersPair DEF TCPHandle
<1>2. CASE TimerLock \/ CheckLinkTimeOut
  <2>1. CASE TimerDelete
    BY <2>1, TimerDeletePair
  <2>2. CASE TimerLock \/ TimerKeep \/ TimerCount \/ TimerDone
    <3>1. UNCHANGED <<head, socketfds, pc>>
      BY <2>2 DEF TimerLock, TimerKeep, TimerCount, TimerDone, shared, reader
    <3>2. size \in Int
      BY BarParts DEF TypeInv, TypeOK, HeapOK
    <3>3. Counted' = Counted
      BY <2>2, <3>1, <3>2 DEF TimerLock, TimerKeep, TimerCount, TimerDone, shared, Counted
    <3> QED
      BY <3>1, <3>3, PairKept DEF HasRoute
  <2> QED
    BY <1>2, <2>1, <2>2 DEF CheckLinkTimeOut
<1>3. CASE SendPackets \/ Tick \/ UNCHANGED vars
  <2>1. UNCHANGED <<head, size, socketfds, pc, tpc>>
    BY <1>3 DEF SendPackets, SendCheck, SendLength, SendList, SendTo, SendDone, SendCrash,
       Tick, vars, shared, reader, timer
  <2> QED
    BY <2>1, PairKept DEF HasRoute, Counted
<1> QED
  BY <1>1, <1>2, <1>3 DEF Next, Down

\* Both hold in every state.
LEMMA PairInvariant == ASSUME SingleNeighbour PROVE Spec => [](BarInv /\ PairInv)
<1>1. Init => BarInv /\ PairInv
  BY InitBar, InitPair
<1>2. (BarInv /\ PairInv) /\ [Next]_vars => (BarInv /\ PairInv)'
  BY NextBar, NextPair
<1> QED
  BY <1>1, <1>2, PTL DEF Spec

\* Between two proxies mem_list->size is the length of the list, once the holder of
\* the mutex has counted: the answer of a join cuts the list behind its head, and
\* there is nothing behind it.
THEOREM PairSizeExact == ASSUME SingleNeighbour PROVE Spec => []SizeExact
<1>1. ASSUME BarInv, PairInv PROVE SizeExact
  <2>1. /\ head = NULL => ListNodes(heap, head) = {} /\ Counted = 0
        /\ head # NULL => ListNodes(heap, head) = {head} /\ Counted = 1
    BY <1>1, OneNode DEF PairInv
  <2> QED
    BY <2>1, FS_EmptySet, FS_Singleton DEF SizeExact
<1> QED
  BY <1>1, PairInvariant, PTL

\* Between two proxies no route outlives its member, although a join enters the route
\* without the mutex and before the node: an expiry will find the one by the other.
THEOREM PairTableInList == ASSUME SingleNeighbour PROVE Spec => []TableInList
<1>1. ASSUME BarInv, PairInv PROVE TableInList
  <2> SUFFICES ASSUME NEW e \in DOMAIN socketfds, head # NULL
               PROVE  \E n \in ListNodes(heap, head) :
                          heap[n].remote.macaddr = socketfds[e].macaddr
    <3>1. \A e \in DOMAIN socketfds :
              socketfds[e].sock_fd \in Conns /\ HasRoute(socketfds[e].sock_fd)
      BY <1>1, BarParts DEF TypeInv, TypeOK, TableOK, Entries, HasRoute
    <3> QED
      BY <1>1, <3>1 DEF PairInv, RouteOfHead, TableInList
  <2>1. socketfds[e].sock_fd \in Conns /\ socketfds[e].macaddr = Peer[socketfds[e].sock_fd].macaddr
    BY <1>1, BarParts DEF TypeInv, TypeOK, TableOK, Entries, RouteIsDirect
  <2> QED
    BY <1>1, <2>1, OneNode
<1> QED
  BY <1>1, PairInvariant, PTL
=============================================================================
