------------------------------ MODULE HubProofs ------------------------------
(***************************************************************************)
(* What holds of a proxy whose neighbours know nobody else, for any number *)
(* of neighbours, any clock and any interleaving of the threads.           *)
(***************************************************************************)
EXTENDS Hub, ProxyProofs, FiniteSetTheorems

\* Every node that was ever allocated stands for a neighbour.
PeerNodes ==
    \A n \in DOMAIN heap : \E d \in Conns : heap[n].remote.macaddr = Peer[d].macaddr

\* A route exists only for a neighbour that something arrived from.
RoutesGreeted == \A e \in DOMAIN socketfds : greeted[socketfds[e].sock_fd]

HasRoute(c) == \E e \in DOMAIN socketfds : socketfds[e].sock_fd = c

IsListed(mac) == \E n \in ListNodes(heap, head) : heap[n].remote.macaddr = mac

\* A thread works on the one link of its neighbour's packet ...
Received(c) ==
    /\ pc[c] # "recv" =>
          /\ greeted[c] /\ from[c] = Peer[c]
          /\ Len(recvd[c]) = 1 /\ recvd[c][1].local = Peer[c]
    /\ pc[c] \in {"members", "memberlock", "member"} =>
          recvd[c][1].remote.macaddr \in {ZeroMac, MyInfo.macaddr}
    /\ pc[c] \in {"recv", "count", "members", "memberlock", "member"} => ptr[c] = NULL
    /\ pc[c] # "membercount"

\* ... and while it joins, the neighbour is not listed; once it has a route its
\* node waits outside the list, where nothing leads to it.
Joining(c) ==
    /\ pc[c] \in {"addsock", "joinlock", "insert"} => ~IsListed(Peer[c].macaddr)
    /\ pc[c] \in {"joinlock", "insert"} =>
          /\ HasRoute(c)
          /\ ptr[c] \in DOMAIN heap
          /\ heap[ptr[c]].remote.macaddr = Peer[c].macaddr
          /\ ptr[c] # head
          /\ \A m \in DOMAIN heap : heap[m].next # ptr[c]

ListInv == /\ Acyclic(heap) /\ PeerNodes /\ ListInTable /\ ListedOnce /\ SizeCoversList
TableInv == RouteIsDirect /\ RoutesGreeted
ThreadInv == \A c \in Conns : Received(c) /\ Joining(c)

HubInv == TypeInv /\ LockOwned /\ NoSpin /\ ListInv /\ TableInv /\ ThreadInv
-----------------------------------------------------------------------------
\* Neighbours have different keys, and neither of the two special addresses.
LEMMA PeerKeys ==
    ASSUME NEW c \in Conns, NEW d \in Conns
    PROVE  /\ Peer[c] \in Infos /\ Peer[c].macaddr \in Macs
           /\ StrKey[Peer[c].macaddr] = StrKey[Peer[d].macaddr] => c = d
           /\ Peer[c].macaddr = Peer[d].macaddr => c = d
           /\ StrKey[Peer[c].macaddr] # StrKey[ZeroMac]
           /\ StrKey[Peer[c].macaddr] # StrKey[MyInfo.macaddr]
BY HubAssumption DEF Key, Infos

\* A packet that has a node carries one link of the neighbour.
LEMMA PacketLink ==
    ASSUME NEW c \in Conns, NEW p \in Hello[c] \cup Flood[c]
    PROVE  /\ p.source = Peer[c]
           /\ p.list # <<>> => Len(p.list) = 1 /\ p.list[1].local = Peer[c]
           /\ p.list # <<>> /\ p \in Flood[c] => p.list[1].remote.macaddr = MyInfo.macaddr
BY HubAssumption

\* A neighbour's address is found if its connection has a route; this proxy's
\* and the zero address never are.
LEMMA FindIn ==
    ASSUME NEW N \in Nat, NEW table, DOMAIN table \subseteq 1 .. N,
           table \in [DOMAIN table -> Entries],
           \A e \in DOMAIN table : table[e].macaddr = Peer[table[e].sock_fd].macaddr
    PROVE  /\ \A c \in Conns : find_socketfd(table, Peer[c].macaddr) # NULL
                                 <=> \E e \in DOMAIN table : table[e].sock_fd = c
           /\ \A mac \in {ZeroMac, MyInfo.macaddr} : find_socketfd(table, mac) = NULL
<1>1. \A e \in DOMAIN table : table[e].sock_fd \in Conns
  BY DEF Entries
<1>2. ASSUME NEW mac PROVE find_socketfd(table, mac) = NULL <=> Matches(table, mac) = {}
  BY FindMatches
<1>3. \A c \in Conns : Matches(table, Peer[c].macaddr) # {}
                          <=> \E e \in DOMAIN table : table[e].sock_fd = c
  BY <1>1, PeerKeys DEF Matches
<1>4. \A mac \in {ZeroMac, MyInfo.macaddr} : Matches(table, mac) = {}
  BY <1>1, PeerKeys DEF Matches
<1> QED
  BY <1>2, <1>3, <1>4

\* The same of the table of the process.
LEMMA FindPeer ==
    ASSUME TypeInv, RouteIsDirect
    PROVE  /\ \A c \in Conns : find_socketfd(socketfds, Peer[c].macaddr) # NULL <=> HasRoute(c)
           /\ \A mac \in {ZeroMac, MyInfo.macaddr} : find_socketfd(socketfds, mac) = NULL
<1>1. /\ alloc \in Nat /\ DOMAIN socketfds \subseteq 1 .. alloc
      /\ socketfds \in [DOMAIN socketfds -> Entries]
  BY DEF TypeInv, TypeOK, HeapOK, TableOK
<1> QED
  BY <1>1, FindIn DEF RouteIsDirect, HasRoute

\* The same after a step.
LEMMA FindPeerNext ==
    ASSUME TypeInv', RouteIsDirect', NEW c \in Conns, HasRoute(c)'
    PROVE  find_socketfd(socketfds', Peer[c].macaddr) # NULL
<1>1. /\ alloc' \in Nat /\ DOMAIN socketfds' \subseteq 1 .. alloc'
      /\ socketfds' \in [DOMAIN socketfds' -> Entries]
  BY DEF TypeInv, TypeOK, HeapOK, TableOK
<1> QED
  BY <1>1, FindIn DEF RouteIsDirect, HasRoute

\* The list is a finite part of a well-formed heap.
LEMMA ListFacts ==
    ASSUME TypeInv
    PROVE  /\ Wired(heap) /\ NULL \notin DOMAIN heap
           /\ heap \in [DOMAIN heap -> Nodes] /\ head \in DOMAIN heap \cup {NULL}
           /\ ListNodes(heap, head) \subseteq DOMAIN heap
           /\ IsFiniteSet(ListNodes(heap, head))
           /\ Cardinality(ListNodes(heap, head)) \in Nat /\ size \in Int /\ Counted \in Int
<1>1. /\ alloc \in Nat /\ DOMAIN heap \subseteq 1 .. alloc /\ size \in Int
      /\ heap \in [DOMAIN heap -> Nodes] /\ head \in DOMAIN heap \cup {NULL}
      /\ \A n \in DOMAIN heap : heap[n].next \in DOMAIN heap \cup {NULL}
  BY DEF TypeInv, TypeOK, HeapOK
<1>2. ListNodes(heap, head) \subseteq DOMAIN heap
  BY VisitedNodes DEF ListNodes
<1>3. IsFiniteSet(1 .. alloc)
  <2>1. 1 \in Int /\ alloc \in Int
    BY <1>1
  <2> QED
    BY <2>1, FS_Interval, Zenon
<1>4. ListNodes(heap, head) \subseteq 1 .. alloc
  BY <1>1, <1>2
<1>5. IsFiniteSet(ListNodes(heap, head))
  BY <1>3, <1>4, FS_Subset
<1>6. Cardinality(ListNodes(heap, head)) \in Nat
  BY <1>5, FS_CardinalityType
<1>7. NULL \notin DOMAIN heap
  BY <1>1 DEF NULL
<1>8. Counted \in Int
  BY <1>1 DEF Counted
<1> QED
  BY <1>1, <1>2, <1>5, <1>6, <1>7, <1>8 DEF Wired

\* It holds at the start.
LEMMA InitHubInv == Init => HubInv
<1> SUFFICES ASSUME Init PROVE HubInv
  OBVIOUS
<1>1. TypeInv
  BY InitTypeInv
<1>2. /\ DOMAIN heap = {} /\ DOMAIN socketfds = {} /\ size = 0
      /\ deleterlock = NoThread /\ tpc = "sleep"
      /\ pc = [c \in Conns |-> "recv"] /\ ptr = [c \in Conns |-> NULL]
  BY DEF Init
<1>3. ListNodes(heap, head) = {}
  BY <1>1, <1>2, ListFacts
<1>4. ListInv
  BY <1>2, <1>3, FS_EmptySet DEF ListInv, Acyclic, PeerNodes, ListInTable, ListedOnce,
     SizeCoversList, Counted
<1>5. TableInv
  BY <1>2 DEF TableInv, RouteIsDirect, RoutesGreeted
<1>6. LockOwned /\ NoSpin
  BY <1>2, ProxyAssumption DEF LockOwned, NoSpin, Critical, TimerCritical
<1>7. ThreadInv
  BY <1>2 DEF ThreadInv, Received, Joining
<1> QED
  BY <1>1, <1>4, <1>5, <1>6, <1>7 DEF HubInv
-----------------------------------------------------------------------------
(***************************************************************************)
(* The mutex.                                                              *)
(***************************************************************************)
\* A thread that does not hold the mutex goes on without taking it.
LEMMA LockKept ==
    ASSUME HubInv, NEW c \in Conns, ~Critical(c),
           NEW l \in {"recv", "addsock", "joinlock", "reply", "truncate", "members",
                      "memberlock"},
           pc' = [pc EXCEPT ![c] = l], UNCHANGED <<deleterlock, tpc>>
    PROVE  LockOwned' /\ NoSpin'
BY DEF HubInv, TypeInv, TypeOK, ReaderOK, LockOwned, NoSpin, Critical, TimerCritical

\* A thread takes the free mutex.
LEMMA LockTaken ==
    ASSUME HubInv, NEW c \in Conns, NEW l \in {"insert", "member"},
           pc' = [pc EXCEPT ![c] = l], deleterlock = NoThread, deleterlock' = c,
           UNCHANGED tpc
    PROVE  LockOwned' /\ NoSpin'
BY ProxyAssumption DEF HubInv, TypeInv, TypeOK, ReaderOK, LockOwned, NoSpin, Critical,
   TimerCritical

\* The thread that holds the mutex gives it back.
LEMMA LockGiven ==
    ASSUME HubInv, NEW c \in Conns, Critical(c),
           NEW l \in {"members", "reply"},
           pc' = [pc EXCEPT ![c] = l], deleterlock' = NoThread, UNCHANGED tpc
    PROVE  LockOwned' /\ NoSpin'
BY ProxyAssumption DEF HubInv, TypeInv, TypeOK, ReaderOK, LockOwned, NoSpin, Critical,
   TimerCritical

\* The thread that inserted a node goes on to count it.
LEMMA LockHeld ==
    ASSUME HubInv, NEW c \in Conns, Critical(c), pc' = [pc EXCEPT ![c] = "count"],
           UNCHANGED <<deleterlock, tpc>>
    PROVE  LockOwned' /\ NoSpin'
BY ProxyAssumption DEF HubInv, TypeInv, TypeOK, ReaderOK, LockOwned, NoSpin, Critical,
   TimerCritical
-----------------------------------------------------------------------------
(***************************************************************************)
(* What is counted.                                                        *)
(***************************************************************************)
\* Nothing is counted by a step between other labels,
LEMMA CountedKept ==
    ASSUME HubInv, NEW c \in Conns, NEW l, pc' = [pc EXCEPT ![c] = l],
           {pc[c], l} \cap {"count", "membercount"} = {}, UNCHANGED <<size, tpc>>
    PROVE  Counted' = Counted
<1>1. DOMAIN pc = Conns
  BY DEF HubInv, TypeInv, TypeOK, ReaderOK
<1> QED
  BY <1>1 DEF Counted

\* the holder of the mutex is the only thread that may be about to count,
LEMMA CountedGrown ==
    ASSUME HubInv, NEW c \in Conns, pc[c] = "insert", pc' = [pc EXCEPT ![c] = "count"],
           UNCHANGED <<size, tpc>>
    PROVE  Counted' = Counted + 1
<1>1. DOMAIN pc = Conns /\ size \in Int
  BY DEF HubInv, TypeInv, TypeOK, ReaderOK, HeapOK
<1>2. \A d \in Conns : Critical(d) <=> deleterlock = d
  BY DEF HubInv, LockOwned
<1>3. \A d \in Conns : pc[d] \notin {"count", "membercount"}
  BY <1>2 DEF Critical
<1>4. pc'[c] = "count"
  BY <1>1
<1> QED
  BY <1>1, <1>3, <1>4 DEF Counted

\* and counting makes up for what was ahead.
LEMMA CountedGiven ==
    ASSUME HubInv, NEW c \in Conns, pc[c] = "count",
           NEW l \in {"members", "reply"}, pc' = [pc EXCEPT ![c] = l],
           size' = size + 1, UNCHANGED tpc
    PROVE  Counted' = Counted
<1>1. DOMAIN pc = Conns /\ size \in Int
  BY DEF HubInv, TypeInv, TypeOK, ReaderOK, HeapOK
<1>2. \A d \in Conns : Critical(d) <=> deleterlock = d
  BY DEF HubInv, LockOwned
<1>3. \A d \in Conns \ {c} : pc[d] \notin {"count", "membercount"}
  BY <1>2 DEF Critical
<1>4. \A d \in Conns : pc'[d] \notin {"count", "membercount"}
  BY <1>1, <1>3
<1> QED
  BY <1>1, <1>4 DEF Counted
-----------------------------------------------------------------------------
(***************************************************************************)
(* What a step may change without disturbing the list and the threads.     *)
(***************************************************************************)
\* A step that neither lists a neighbour nor takes a route away.
LEMMA ListKept ==
    ASSUME HubInv, TypeInv', TableInv', Acyclic(heap)',
           DOMAIN heap \subseteq DOMAIN heap',
           \A n \in DOMAIN heap : heap'[n].remote = heap[n].remote,
           \A n \in DOMAIN heap' \ DOMAIN heap :
               \E d \in Conns : heap'[n].remote.macaddr = Peer[d].macaddr,
           ListNodes(heap, head)' \subseteq ListNodes(heap, head), Counted' = Counted,
           \A d \in Conns : HasRoute(d) => HasRoute(d)'
    PROVE  ListInv' /\ \A mac : IsListed(mac)' => IsListed(mac)
<1>1. /\ TypeInv /\ RouteIsDirect /\ RouteIsDirect'
      /\ PeerNodes /\ ListInTable /\ ListedOnce /\ SizeCoversList
  BY DEF HubInv, ListInv, TableInv
<1>2. ListNodes(heap, head) \subseteq DOMAIN heap
  BY <1>1, ListFacts
<1>3. PeerNodes'
  BY <1>1 DEF PeerNodes
<1>4. ListInTable'
  <2> SUFFICES ASSUME NEW n \in ListNodes(heap, head)'
               PROVE  find_socketfd(socketfds', heap'[n].remote.macaddr) # NULL
    BY DEF ListInTable
  <2>1. PICK d \in Conns : heap[n].remote.macaddr = Peer[d].macaddr
    BY <1>1, <1>2 DEF PeerNodes
  <2>2. HasRoute(d)
    BY <1>1, <2>1, FindPeer DEF ListInTable
  <2>3. heap'[n].remote.macaddr = Peer[d].macaddr
    BY <1>2, <2>1
  <2> QED
    BY <1>1, <2>2, <2>3, FindPeerNext
<1>5. ListedOnce'
  BY <1>1, <1>2 DEF ListedOnce
<1>6. SizeCoversList'
  <2> DEFINE new == ListNodes(heap', head')
             old == ListNodes(heap, head)
  <2>1. new \subseteq old /\ IsFiniteSet(old) /\ Cardinality(old) \in Nat /\ Counted \in Int
    BY <1>1, ListFacts
  <2>2. Cardinality(new) <= Cardinality(old) /\ IsFiniteSet(new)
    BY <2>1, FS_Subset
  <2>3. Cardinality(new) \in Nat
    BY <2>2, FS_CardinalityType
  <2>4. Cardinality(old) <= Counted
    BY <1>1 DEF SizeCoversList
  <2>5. Cardinality(new) <= Counted'
    BY <2>1, <2>2, <2>3, <2>4
  <2> QED
    BY <2>5 DEF SizeCoversList
<1>7. \A mac : IsListed(mac)' => IsListed(mac)
  BY <1>2 DEF IsListed
<1> QED
  BY <1>3, <1>4, <1>5, <1>6, <1>7 DEF ListInv

\* The threads that take no part in a step.
LEMMA OthersKept ==
    ASSUME HubInv, NEW S \in SUBSET Conns,
           \A d \in S : /\ pc'[d] = pc[d] /\ ptr'[d] = ptr[d] /\ recvd'[d] = recvd[d]
                        /\ from'[d] = from[d] /\ (greeted[d] => greeted'[d])
                        /\ IsListed(Peer[d].macaddr)' => IsListed(Peer[d].macaddr)
                        /\ HasRoute(d) => HasRoute(d)',
           DOMAIN heap \subseteq DOMAIN heap',
           \A n \in DOMAIN heap : heap'[n].remote = heap[n].remote,
           \A d \in S : pc[d] \in {"joinlock", "insert"} =>
                           /\ ptr[d] # head'
                           /\ \A m \in DOMAIN heap' : heap'[m].next # ptr[d]
    PROVE  \A d \in S : Received(d)' /\ Joining(d)'
<1> SUFFICES ASSUME NEW d \in S PROVE Received(d)' /\ Joining(d)'
  OBVIOUS
<1>1. Received(d) /\ Joining(d)
  BY DEF HubInv, ThreadInv
<1>2. Received(d)'
  BY <1>1 DEF Received
<1>3. Joining(d)'
  BY <1>1 DEF Joining
<1> QED
  BY <1>2, <1>3

\* A step that lists the neighbour of c, which was not listed.
LEMMA ListGrown ==
    ASSUME HubInv, TypeInv', TableInv', Acyclic(heap)', DOMAIN heap' = DOMAIN heap,
           \A m \in DOMAIN heap : heap'[m].remote = heap[m].remote,
           NEW c \in Conns, NEW n \in DOMAIN heap,
           heap[n].remote.macaddr = Peer[c].macaddr, ~IsListed(Peer[c].macaddr), HasRoute(c),
           ListNodes(heap, head)' \subseteq ListNodes(heap, head) \cup {n},
           Counted' = Counted + 1, UNCHANGED socketfds
    PROVE  /\ ListInv'
           /\ \A mac : IsListed(mac)' => IsListed(mac) \/ mac = Peer[c].macaddr
<1>1. /\ TypeInv /\ RouteIsDirect /\ RouteIsDirect'
      /\ PeerNodes /\ ListInTable /\ ListedOnce /\ SizeCoversList
  BY DEF HubInv, ListInv, TableInv
<1>2. ListNodes(heap, head) \subseteq DOMAIN heap
  BY <1>1, ListFacts
<1>3. PeerNodes'
  BY <1>1 DEF PeerNodes
<1>4. ListInTable'
  <2>1. find_socketfd(socketfds, heap[n].remote.macaddr) # NULL
    BY <1>1, FindPeer
  <2> QED
    BY <1>1, <1>2, <2>1 DEF ListInTable
<1>5. ListedOnce'
  BY <1>1, <1>2 DEF ListedOnce, IsListed
<1>6. SizeCoversList'
  <2> DEFINE new == ListNodes(heap', head')
             old == ListNodes(heap, head)
  <2>1. /\ new \subseteq old \cup {n} /\ IsFiniteSet(old)
        /\ Cardinality(old) \in Nat /\ Counted \in Int
    BY <1>1, ListFacts
  <2>2. /\ IsFiniteSet(old \cup {n})
        /\ Cardinality(old \cup {n}) = IF n \in old THEN Cardinality(old)
                                        ELSE Cardinality(old) + 1
    BY <2>1, FS_AddElement
  <2>3. Cardinality(new) <= Cardinality(old \cup {n}) /\ IsFiniteSet(new)
    BY <2>1, <2>2, FS_Subset
  <2>4. Cardinality(new) \in Nat
    BY <2>3, FS_CardinalityType
  <2>5. Cardinality(old) <= Counted
    BY <1>1 DEF SizeCoversList
  <2>6. Cardinality(new) <= Counted'
    BY <2>1, <2>2, <2>3, <2>4, <2>5
  <2> QED
    BY <2>6 DEF SizeCoversList
<1>7. \A mac : IsListed(mac)' => IsListed(mac) \/ mac = Peer[c].macaddr
  BY <1>2 DEF IsListed
<1> QED
  BY <1>3, <1>4, <1>5, <1>6, <1>7 DEF ListInv

\* A step that takes node x off the list, and its address out of the table.
LEMMA ListShrunk ==
    ASSUME HubInv, TypeInv', TableInv', Acyclic(heap)', DOMAIN heap' = DOMAIN heap,
           \A m \in DOMAIN heap : heap'[m].remote = heap[m].remote,
           NEW x \in ListNodes(heap, head),
           ListNodes(heap, head)' \subseteq ListNodes(heap, head) \ {x},
           Counted' = Counted - 1,
           \A d \in Conns : HasRoute(d) /\ Peer[d].macaddr # heap[x].remote.macaddr
                               => HasRoute(d)'
    PROVE  ListInv' /\ \A mac : IsListed(mac)' => IsListed(mac)
<1>1. /\ TypeInv /\ RouteIsDirect /\ RouteIsDirect'
      /\ PeerNodes /\ ListInTable /\ ListedOnce /\ SizeCoversList
  BY DEF HubInv, ListInv, TableInv
<1>2. ListNodes(heap, head) \subseteq DOMAIN heap
  BY <1>1, ListFacts
<1>3. PeerNodes'
  BY <1>1 DEF PeerNodes
<1>4. ListInTable'
  <2> SUFFICES ASSUME NEW n \in ListNodes(heap, head)'
               PROVE  find_socketfd(socketfds', heap'[n].remote.macaddr) # NULL
    BY DEF ListInTable
  <2>1. PICK d \in Conns : heap[n].remote.macaddr = Peer[d].macaddr
    BY <1>1, <1>2 DEF PeerNodes
  <2>2. HasRoute(d)
    BY <1>1, <2>1, FindPeer DEF ListInTable
  <2>3. heap'[n].remote.macaddr = Peer[d].macaddr
    BY <1>2, <2>1
  <2>4. Peer[d].macaddr # heap[x].remote.macaddr
    BY <1>1, <2>1 DEF ListedOnce
  <2>5. HasRoute(d)'
    BY <2>2, <2>4
  <2> QED
    BY <1>1, <2>3, <2>5, FindPeerNext
<1>5. ListedOnce'
  BY <1>1, <1>2 DEF ListedOnce
<1>6. SizeCoversList'
  <2> DEFINE new == ListNodes(heap', head')
             old == ListNodes(heap, head)
  <2>1. /\ new \subseteq old \ {x} /\ IsFiniteSet(old)
        /\ Cardinality(old) \in Nat /\ Counted \in Int
    BY <1>1, ListFacts
  <2>2. /\ IsFiniteSet(old \ {x})
        /\ Cardinality(old \ {x}) = IF x \in old THEN Cardinality(old) - 1
                                     ELSE Cardinality(old)
    BY <2>1, FS_RemoveElement
  <2>3. Cardinality(new) <= Cardinality(old \ {x}) /\ IsFiniteSet(new)
    BY <2>1, <2>2, FS_Subset
  <2>4. Cardinality(new) \in Nat
    BY <2>3, FS_CardinalityType
  <2>5. Cardinality(old) <= Counted
    BY <1>1 DEF SizeCoversList
  <2>6. Cardinality(new) <= Counted'
    BY <2>1, <2>2, <2>3, <2>4, <2>5
  <2> QED
    BY <2>6 DEF SizeCoversList
<1>7. \A mac : IsListed(mac)' => IsListed(mac)
  BY <1>2 DEF IsListed
<1> QED
  BY <1>3, <1>4, <1>5, <1>6, <1>7 DEF ListInv

\* A step of the thread of c that leaves list and table alone.
LEMMA LocalHubInv ==
    ASSUME HubInv, TypeInv', NEW c \in Conns,
           UNCHANGED <<heap, head, socketfds>>, Counted' = Counted,
           \A d \in Conns : greeted[d] => greeted'[d],
           \A d \in Conns \ {c} : /\ pc'[d] = pc[d] /\ ptr'[d] = ptr[d]
                                  /\ recvd'[d] = recvd[d] /\ from'[d] = from[d],
           LockOwned', NoSpin', Received(c)', Joining(c)'
    PROVE  HubInv'
<1>1. ListInv /\ TableInv /\ ThreadInv /\ TypeInv
  BY DEF HubInv
<1>2. ListInv'
  BY <1>1 DEF ListInv, PeerNodes, ListInTable, ListedOnce, SizeCoversList
<1>3. TableInv'
  <2>1. \A e \in DOMAIN socketfds : socketfds[e].sock_fd \in Conns
    BY <1>1 DEF TypeInv, TypeOK, TableOK, Entries
  <2> QED
    BY <1>1, <2>1 DEF TableInv, RouteIsDirect, RoutesGreeted
<1>4. \A d \in Conns \ {c} : Received(d)' /\ Joining(d)'
  BY <1>1 DEF ThreadInv, Received, Joining, IsListed, HasRoute
<1> QED
  BY <1>2, <1>3, <1>4 DEF HubInv, ThreadInv

\* A step that touches nothing the invariant speaks of.
LEMMA StillHubInv ==
    ASSUME HubInv, TypeInv',
           UNCHANGED <<heap, head, size, socketfds, deleterlock, pc, from, recvd, ptr,
                       greeted, tpc>>
    PROVE  HubInv'
<1>1. ListInv' /\ TableInv'
  BY DEF HubInv, ListInv, TableInv, PeerNodes, ListInTable, ListedOnce, SizeCoversList,
     Counted, RouteIsDirect, RoutesGreeted
<1>2. LockOwned' /\ NoSpin'
  BY DEF HubInv, LockOwned, NoSpin, Critical, TimerCritical
<1>3. ThreadInv'
  BY DEF HubInv, ThreadInv, Received, Joining, IsListed, HasRoute
<1> QED
  BY <1>1, <1>2, <1>3 DEF HubInv
-----------------------------------------------------------------------------
(***************************************************************************)
(* The steps of a TCPHandle thread.                                        *)
(***************************************************************************)
\* The parts of the invariant, as the steps below use them.
LEMMA HubParts ==
    ASSUME HubInv, NEW c \in Conns
    PROVE  /\ TypeInv /\ Received(c) /\ Joining(c) /\ RouteIsDirect /\ RoutesGreeted
           /\ Acyclic(heap) /\ ListInTable
           /\ DOMAIN pc = Conns /\ DOMAIN ptr = Conns /\ DOMAIN recvd = Conns
           /\ DOMAIN from = Conns /\ DOMAIN greeted = Conns
           /\ recvd[c] \in Seq(Links)
BY DEF HubInv, TypeInv, TypeOK, ReaderOK, ThreadInv, TableInv, ListInv

\* A node that waits to be inserted is not in the list and nothing leads to it.
LEMMA JoiningNode ==
    ASSUME HubInv, NEW d \in Conns, pc[d] \in {"joinlock", "insert"}
    PROVE  /\ ~IsListed(Peer[d].macaddr) /\ ptr[d] \in DOMAIN heap /\ ptr[d] # head
           /\ heap[ptr[d]].remote.macaddr = Peer[d].macaddr
           /\ \A m \in DOMAIN heap : heap[m].next # ptr[d]
<1>1. Joining(d)
  BY HubParts
<1> QED
  BY <1>1 DEF Joining

\* The thread of c is back at recv().
LEMMA ReturnThread ==
    ASSUME HubInv, NEW c \in Conns, pc' = [pc EXCEPT ![c] = "recv"],
           ptr' = [ptr EXCEPT ![c] = NULL]
    PROVE  Received(c)' /\ Joining(c)'
BY HubParts DEF Received, Joining

\* Receiving a packet of a known source, of an unknown one, and anything else.
LEMMA RecvHubInv ==
    ASSUME HubInv, TypeInv', NEW c \in Conns, Recv(c)
    PROVE  HubInv'
<1>1. /\ TypeInv /\ Received(c) /\ Joining(c) /\ RouteIsDirect /\ RoutesGreeted
      /\ ListInTable
      /\ DOMAIN pc = Conns /\ DOMAIN ptr = Conns /\ DOMAIN recvd = Conns
      /\ DOMAIN from = Conns /\ DOMAIN greeted = Conns
  BY HubParts
<1>2. ASSUME NEW p \in Hello[c] \cup Flood[c], Receive(c, p),
             NEW l \in {"members", "addsock"}, pc' = [pc EXCEPT ![c] = l],
             from' = [from EXCEPT ![c] = p.source], recvd' = [recvd EXCEPT ![c] = p.list],
             UNCHANGED ptr,
             l = "members" => p.list[1].remote.macaddr \in {ZeroMac, MyInfo.macaddr},
             l = "addsock" => ~IsListed(Peer[c].macaddr)
      PROVE  HubInv'
  <2>1. /\ pc[c] = "recv" /\ greeted' = [greeted EXCEPT ![c] = TRUE]
        /\ UNCHANGED <<heap, head, size, socketfds, deleterlock, tpc>>
    BY <1>2 DEF Receive, Arrives, At, shared, timer
  <2>2. p.source = Peer[c] /\ Len(p.list) = 1 /\ p.list[1].local = Peer[c]
    <3>1. p.list # <<>>
      BY <1>2 DEF Receive
    <3> QED
      BY <3>1, PacketLink
  <2>3. LockOwned' /\ NoSpin' /\ Counted' = Counted
    BY <1>2, <2>1, LockKept, CountedKept DEF Critical
  <2>4. Received(c)'
    BY <1>1, <1>2, <2>1, <2>2 DEF Received
  <2>5. Joining(c)'
    BY <1>1, <1>2, <2>1 DEF Joining, IsListed
  <2> QED
    BY <1>1, <1>2, <2>1, <2>3, <2>4, <2>5, LocalHubInv
<1>3. CASE RecvKnown(c)
  <2>1. PICK p \in Hello[c] \cup Flood[c] :
           /\ Receive(c, p) /\ ~Unknown(p) /\ pc' = [pc EXCEPT ![c] = "members"]
           /\ from' = [from EXCEPT ![c] = p.source]
           /\ recvd' = [recvd EXCEPT ![c] = p.list] /\ UNCHANGED ptr
    BY <1>3 DEF RecvKnown, Goto
  <2>2. p.source = Peer[c]
    BY PacketLink
  <2>3. HasRoute(c)
    BY <1>1, <2>1, <2>2, FindPeer DEF Unknown
  <2>4. greeted[c]
    BY <1>1, <2>3 DEF HasRoute, RoutesGreeted
  <2>5. p \in Flood[c]
    BY <2>1, <2>4 DEF Receive, Arrives
  <2>6. p.list[1].remote.macaddr = MyInfo.macaddr
    <3>1. p.list # <<>>
      BY <2>1 DEF Receive
    <3> QED
      BY <2>5, <3>1, PacketLink
  <2> QED
    BY <1>2, <2>1, <2>6
<1>4. CASE RecvJoin(c)
  <2>1. PICK p \in Hello[c] \cup Flood[c] :
           /\ Receive(c, p) /\ Unknown(p) /\ pc' = [pc EXCEPT ![c] = "addsock"]
           /\ from' = [from EXCEPT ![c] = p.source]
           /\ recvd' = [recvd EXCEPT ![c] = p.list] /\ UNCHANGED ptr
    BY <1>4 DEF RecvJoin, Goto
  <2>2. p.source = Peer[c]
    BY PacketLink
  <2>3. ~IsListed(Peer[c].macaddr)
    BY <1>1, <2>1, <2>2 DEF IsListed, ListInTable, Unknown
  <2> QED
    BY <1>2, <2>1, <2>3
<1>5. CASE RecvIgnored(c)
  <2>1. /\ pc[c] = "recv" /\ pc' = [pc EXCEPT ![c] = "recv"]
        /\ ptr' = [ptr EXCEPT ![c] = NULL] /\ recvd' = [recvd EXCEPT ![c] = <<>>]
        /\ greeted' = [greeted EXCEPT ![c] = TRUE]
        /\ UNCHANGED <<heap, head, size, socketfds, deleterlock, tpc, from>>
    BY <1>5 DEF RecvIgnored, Receive, Arrives, Return, Goto, At, shared, timer
  <2>2. LockOwned' /\ NoSpin' /\ Counted' = Counted
    BY <1>1, <2>1, LockKept, CountedKept DEF Critical
  <2>3. Received(c)' /\ Joining(c)'
    BY <2>1, ReturnThread
  <2> QED
    BY <1>1, <2>1, <2>2, <2>3, LocalHubInv
<1>6. CASE RecvEmpty(c) \/ RecvLeave(c) \/ LostConnection(c) \/ RecvQuit(c)
  BY <1>6, StillHubInv DEF RecvEmpty, RecvLeave, LostConnection, Silence, RecvQuit, shared, reader,
     timer
<1> QED
  BY <1>3, <1>4, <1>5, <1>6 DEF Recv

\* The steps of a join that leave list and table alone.
LEMMA LocalJoinHubInv ==
    ASSUME HubInv, TypeInv', NEW c \in Conns,
           \/ JoinLock(c) \/ JoinCount(c)
           \/ ReplyList(c) \/ ReplyCrash(c) \/ ReplyKilled(c)
    PROVE  HubInv'
<1>1. /\ Received(c) /\ Joining(c)
      /\ DOMAIN pc = Conns /\ DOMAIN ptr = Conns /\ DOMAIN recvd = Conns
  BY HubParts
<1>2. CASE JoinLock(c)
  <2>1. /\ pc[c] = "joinlock" /\ pc' = [pc EXCEPT ![c] = "insert"]
        /\ deleterlock = NoThread /\ deleterlock' = c
        /\ UNCHANGED <<heap, head, size, socketfds, tpc, ptr, recvd, from, greeted>>
    BY <1>2 DEF JoinLock, At, Goto, Lock, timer
  <2>2. LockOwned' /\ NoSpin' /\ Counted' = Counted
    BY <2>1, LockTaken, CountedKept
  <2>3. Received(c)' /\ Joining(c)'
    BY <1>1, <2>1 DEF Received, Joining, IsListed, HasRoute
  <2> QED
    BY <1>1, <2>1, <2>2, <2>3, LocalHubInv
<1>3. CASE ReplyList(c)
  <2>1. /\ pc[c] = "reply" /\ pc' = [pc EXCEPT ![c] = "truncate"]
        /\ ptr' = [ptr EXCEPT ![c] = head]
        /\ UNCHANGED <<heap, head, size, socketfds, deleterlock, tpc, recvd, from, greeted>>
    BY <1>3 DEF ReplyList, At, Goto, shared, timer
  <2>2. LockOwned' /\ NoSpin' /\ Counted' = Counted
    BY <2>1, LockKept, CountedKept DEF Critical
  <2>3. Received(c)' /\ Joining(c)'
    BY <1>1, <2>1 DEF Received, Joining
  <2> QED
    BY <1>1, <2>1, <2>2, <2>3, LocalHubInv
<1>4. CASE ReplyCrash(c) \/ ReplyKilled(c)
  BY <1>4, StillHubInv DEF ReplyCrash, ReplyKilled, shared, reader, timer
<1>5. CASE JoinCount(c)
  <2> DEFINE l == IF ZeroRemote(recvd[c]) THEN "members" ELSE "reply"
  <2>1. /\ pc[c] = "count" /\ pc' = [pc EXCEPT ![c] = l]
        /\ size' = size + 1 /\ deleterlock' = NoThread
        /\ UNCHANGED <<heap, head, socketfds, tpc, ptr, recvd, from, greeted>>
    BY <1>5 DEF JoinCount, Unlock, At, Goto, timer
  <2>2. l \in {"members", "reply"} /\ (l = "members" => ZeroRemote(recvd[c]))
    OBVIOUS
  <2>3. recvd[c][1].remote.macaddr = ZeroMac \/ l = "reply"
    BY <1>1, <2>1, <2>2 DEF Received, ZeroRemote
  <2> HIDE DEF l
  <2>4. LockOwned' /\ NoSpin' /\ Counted' = Counted
    BY <2>1, <2>2, LockGiven, CountedGiven DEF Critical
  <2>5. Received(c)' /\ Joining(c)'
    BY <1>1, <2>1, <2>2, <2>3 DEF Received, Joining
  <2> QED
    BY <1>1, <2>1, <2>4, <2>5, LocalHubInv
<1> QED
  BY <1>2, <1>3, <1>4, <1>5

\* A step of the thread of c that changes the list or the table.
LEMMA StepHubInv ==
    ASSUME HubInv, TypeInv', NEW c \in Conns,
           DOMAIN heap \subseteq DOMAIN heap',
           \A n \in DOMAIN heap : heap'[n].remote = heap[n].remote,
           \A d \in Conns \ {c} :
               /\ pc'[d] = pc[d] /\ ptr'[d] = ptr[d]
               /\ IsListed(Peer[d].macaddr)' => IsListed(Peer[d].macaddr)
               /\ HasRoute(d) => HasRoute(d)'
               /\ pc[d] \in {"joinlock", "insert"} =>
                     /\ ptr[d] # head'
                     /\ \A m \in DOMAIN heap' : heap'[m].next # ptr[d],
           \A d \in Conns \ {c} : recvd'[d] = recvd[d],
           UNCHANGED <<from, greeted>>,
           ListInv', TableInv', LockOwned', NoSpin', Received(c)', Joining(c)'
    PROVE  HubInv'
<1>1. Conns \ {c} \in SUBSET Conns
  OBVIOUS
<1>2. \A d \in Conns \ {c} : Received(d)' /\ Joining(d)'
  BY <1>1, OthersKept
<1>3. ThreadInv'
  BY <1>2 DEF ThreadInv
<1> QED
  BY <1>3 DEF HubInv

\* A join adds the route and makes a node that waits outside the list.
LEMMA JoinAddHubInv ==
    ASSUME HubInv, TypeInv', NEW c \in Conns, JoinAdd(c)
    PROVE  HubInv'
<1> DEFINE link   == Head(recvd[c])
           mac    == IF ZeroRemote(recvd[c]) THEN from[c].macaddr ELSE link.local.macaddr
           remote == [ip |-> from[c].ip, macaddr |-> mac]
           n      == alloc + 2
<1>1. /\ TypeInv /\ Received(c) /\ Joining(c) /\ RouteIsDirect /\ RoutesGreeted
      /\ Acyclic(heap) /\ DOMAIN pc = Conns /\ DOMAIN ptr = Conns /\ recvd[c] \in Seq(Links)
  BY HubParts
<1>2. /\ pc[c] = "addsock" /\ pc' = [pc EXCEPT ![c] = "joinlock"]
      /\ ptr' = [ptr EXCEPT ![c] = n]
      /\ heap' = NewNode(heap, n, MyInfo, remote, 1, now)
      /\ socketfds' = addsockfd(socketfds, alloc + 1, from[c].macaddr, c)
      /\ UNCHANGED <<head, size, deleterlock, from, recvd, greeted, tpc>>
  BY DEF JoinAdd, At, Goto, timer
<1>3. /\ from[c] = Peer[c] /\ greeted[c] /\ Len(recvd[c]) = 1
      /\ recvd[c][1].local = Peer[c] /\ ~IsListed(Peer[c].macaddr)
  BY <1>1, <1>2 DEF Received, Joining
<1>4. remote.macaddr = Peer[c].macaddr
  BY <1>1, <1>3
<1> HIDE DEF link, mac, remote
<1>5. /\ alloc \in Nat /\ DOMAIN heap \subseteq 1 .. alloc /\ DOMAIN socketfds \subseteq 1 .. alloc
      /\ Wired(heap) /\ NULL \notin DOMAIN heap /\ head \in DOMAIN heap \cup {NULL}
  BY <1>1, ListFacts DEF TypeInv, TypeOK, HeapOK, TableOK
<1>6. /\ n \notin DOMAIN heap /\ n # NULL /\ n # head /\ alloc + 1 \notin DOMAIN socketfds
      /\ \A m \in DOMAIN heap : heap[m].next # n
  <2>1. n \notin 1 .. alloc /\ n # NULL /\ alloc + 1 \notin 1 .. alloc
    BY <1>5 DEF NULL
  <2> QED
    BY <1>5, <2>1 DEF Wired
<1> HIDE DEF n
<1>7. /\ DOMAIN heap' = DOMAIN heap \cup {n} /\ n \in DOMAIN heap'
      /\ heap'[n].next = NULL /\ heap'[n].remote.macaddr = Peer[c].macaddr
      /\ \A m \in DOMAIN heap : heap'[m] = heap[m]
  BY <1>2, <1>4, <1>6 DEF NewNode
<1>8. Acyclic(heap') /\ ListNodes(heap', head) \subseteq ListNodes(heap, head)
  BY <1>1, <1>2, <1>5, <1>6, NewNodeList
<1>9. /\ DOMAIN socketfds' = DOMAIN socketfds \cup {alloc + 1}
      /\ socketfds'[alloc + 1] = [macaddr |-> Peer[c].macaddr, sock_fd |-> c]
      /\ \A e \in DOMAIN socketfds : socketfds'[e] = socketfds[e]
  BY <1>2, <1>3, <1>6 DEF addsockfd
<1>10. TableInv'
  BY <1>1, <1>2, <1>3, <1>9 DEF TableInv, RouteIsDirect, RoutesGreeted
<1>11. HasRoute(c)' /\ \A d \in Conns : HasRoute(d) => HasRoute(d)'
  BY <1>9 DEF HasRoute
<1>12. ListInv' /\ \A a : IsListed(a)' => IsListed(a)
  <2>1. Counted' = Counted
    BY <1>2, CountedKept
  <2> QED
    BY <1>2, <1>7, <1>8, <1>10, <1>11, <2>1, ListKept
<1>13. LockOwned' /\ NoSpin'
  BY <1>2, LockKept DEF Critical
<1>14. Received(c)'
  BY <1>1, <1>2 DEF Received
<1>15. ptr'[c] = n /\ n # head' /\ \A m \in DOMAIN heap' : heap'[m].next # n
  BY <1>1, <1>2, <1>6, <1>7
<1>16. Joining(c)'
  BY <1>3, <1>7, <1>11, <1>12, <1>15 DEF Joining
<1>17. \A d \in Conns \ {c} : pc[d] \in {"joinlock", "insert"} =>
          ptr[d] # head' /\ \A m \in DOMAIN heap' : heap'[m].next # ptr[d]
  <2> SUFFICES ASSUME NEW d \in Conns \ {c}, pc[d] \in {"joinlock", "insert"}
               PROVE  ptr[d] # head' /\ \A m \in DOMAIN heap' : heap'[m].next # ptr[d]
    OBVIOUS
  <2>1. /\ ptr[d] \in DOMAIN heap /\ ptr[d] # head
        /\ \A m \in DOMAIN heap : heap[m].next # ptr[d]
    BY JoiningNode
  <2> QED
    BY <1>2, <1>5, <1>7, <2>1
<1>18. /\ DOMAIN heap \subseteq DOMAIN heap'
       /\ \A m \in DOMAIN heap : heap'[m].remote = heap[m].remote
       /\ \A d \in Conns \ {c} : pc'[d] = pc[d] /\ ptr'[d] = ptr[d] /\ recvd'[d] = recvd[d]
  BY <1>1, <1>2, <1>7
<1> QED
  BY <1>2, <1>10, <1>11, <1>12, <1>13, <1>14, <1>16, <1>17, <1>18, StepHubInv

\* The insertion lists the neighbour of c once.
LEMMA JoinInsertHubInv ==
    ASSUME HubInv, TypeInv', NEW c \in Conns, JoinInsert(c)
    PROVE  HubInv'
<1> DEFINE n == ptr[c]
<1>1. /\ TypeInv /\ Received(c) /\ Joining(c) /\ RouteIsDirect /\ RoutesGreeted
      /\ Acyclic(heap) /\ DOMAIN pc = Conns /\ DOMAIN ptr = Conns /\ recvd[c] \in Seq(Links)
      /\ TableInv
  BY HubParts DEF HubInv
<1>2. /\ pc[c] = "insert" /\ heap' = Push(heap, head, n) /\ head' = n
      /\ pc' = [pc EXCEPT ![c] = "count"] /\ ptr' = [ptr EXCEPT ![c] = NULL]
      /\ UNCHANGED <<size, deleterlock, socketfds, from, recvd, greeted, tpc>>
  BY DEF JoinInsert, At, Goto, timer
<1>3. /\ ~IsListed(Peer[c].macaddr) /\ HasRoute(c) /\ n \in DOMAIN heap /\ n # head
      /\ heap[n].remote.macaddr = Peer[c].macaddr
      /\ \A m \in DOMAIN heap : heap[m].next # n
  BY <1>1, <1>2 DEF Joining
<1>4. /\ Wired(heap) /\ NULL \notin DOMAIN heap /\ head \in DOMAIN heap \cup {NULL}
      /\ heap \in [DOMAIN heap -> Nodes]
  BY <1>1, ListFacts
<1>5. \A d \in Conns \ {c} : pc[d] \in {"joinlock", "insert"} =>
          /\ ptr[d] # n /\ ptr[d] # head
          /\ \A m \in DOMAIN heap : heap[m].next # ptr[d]
  <2> SUFFICES ASSUME NEW d \in Conns \ {c}, pc[d] \in {"joinlock", "insert"}
               PROVE  /\ ptr[d] # n /\ ptr[d] # head
                      /\ \A m \in DOMAIN heap : heap[m].next # ptr[d]
    OBVIOUS
  <2>1. /\ heap[ptr[d]].remote.macaddr = Peer[d].macaddr /\ ptr[d] # head
        /\ \A m \in DOMAIN heap : heap[m].next # ptr[d]
    BY JoiningNode
  <2>2. Peer[d].macaddr # Peer[c].macaddr
    BY PeerKeys
  <2> QED
    BY <1>3, <2>1, <2>2
<1> HIDE DEF n
<1>6. /\ DOMAIN heap' = DOMAIN heap /\ heap'[n].next = head
      /\ heap'[n].remote = heap[n].remote
      /\ \A m \in DOMAIN heap \ {n} : heap'[m] = heap[m]
  BY <1>2, <1>3, <1>4 DEF Push, Nodes
<1>7. Acyclic(heap') /\ ListNodes(heap', n) \subseteq ListNodes(heap, head) \cup {n}
  BY <1>1, <1>2, <1>3, <1>4, PushList
<1>8. \A m \in DOMAIN heap : heap'[m].remote = heap[m].remote
  BY <1>6
<1>9. TableInv'
  BY <1>1, <1>2 DEF TableInv, RouteIsDirect, RoutesGreeted
<1>10. /\ ListInv'
       /\ \A a : IsListed(a)' => IsListed(a) \/ a = Peer[c].macaddr
  <2>1. Counted' = Counted + 1
    BY <1>2, CountedGrown
  <2> QED
    BY <1>2, <1>3, <1>6, <1>7, <1>8, <1>9, <2>1, ListGrown
<1>11. LockOwned' /\ NoSpin'
  BY <1>2, LockHeld DEF Critical
<1>12. Received(c)' /\ Joining(c)'
  BY <1>1, <1>2 DEF Received, Joining
<1>13. \A d \in Conns \ {c} :
          /\ pc'[d] = pc[d] /\ ptr'[d] = ptr[d] /\ recvd'[d] = recvd[d]
          /\ IsListed(Peer[d].macaddr)' => IsListed(Peer[d].macaddr)
          /\ HasRoute(d) => HasRoute(d)'
  BY <1>1, <1>2, <1>10, PeerKeys DEF HasRoute
<1>14. \A d \in Conns \ {c} : pc[d] \in {"joinlock", "insert"} =>
          ptr[d] # head' /\ \A m \in DOMAIN heap' : heap'[m].next # ptr[d]
  BY <1>2, <1>5, <1>6
<1> QED
  BY <1>2, <1>6, <1>8, <1>9, <1>10, <1>11, <1>12, <1>13, <1>14, StepHubInv

\* A step of the thread of c that only cuts the list or refreshes nodes of it.
LEMMA CutHubInv ==
    ASSUME HubInv, TypeInv', NEW c \in Conns, DOMAIN heap' = DOMAIN heap,
           \A m \in DOMAIN heap : /\ heap'[m].next \in {heap[m].next, NULL}
                                 /\ heap'[m].remote = heap[m].remote,
           UNCHANGED <<head, socketfds, from, greeted>>, Counted' = Counted,
           \A d \in Conns \ {c} : pc'[d] = pc[d] /\ ptr'[d] = ptr[d] /\ recvd'[d] = recvd[d],
           LockOwned', NoSpin', Received(c)',
           pc'[c] \notin {"addsock", "joinlock", "insert"}
    PROVE  HubInv'
<1>1. TypeInv /\ TableInv /\ Acyclic(heap)
  BY DEF HubInv, ListInv
<1>2. Wired(heap) /\ NULL \notin DOMAIN heap /\ head \in DOMAIN heap \cup {NULL}
  BY <1>1, ListFacts
<1>3. Acyclic(heap') /\ ListNodes(heap', head) \subseteq ListNodes(heap, head)
  BY <1>1, <1>2, KeepOrCut
<1>4. TableInv'
  BY <1>1 DEF TableInv, RouteIsDirect, RoutesGreeted
<1>5. \A d \in Conns : HasRoute(d) => HasRoute(d)'
  BY DEF HasRoute
<1>6. ListInv' /\ \A a : IsListed(a)' => IsListed(a)
  BY <1>3, <1>4, <1>5, ListKept
<1>7. Joining(c)'
  BY DEF Joining
<1>8. \A d \in Conns \ {c} : pc[d] \in {"joinlock", "insert"} =>
          ptr[d] # head' /\ \A m \in DOMAIN heap' : heap'[m].next # ptr[d]
  <2> SUFFICES ASSUME NEW d \in Conns \ {c}, pc[d] \in {"joinlock", "insert"}
               PROVE  ptr[d] # head' /\ \A m \in DOMAIN heap' : heap'[m].next # ptr[d]
    OBVIOUS
  <2>1. /\ ptr[d] \in DOMAIN heap /\ ptr[d] # head
        /\ \A m \in DOMAIN heap : heap[m].next # ptr[d]
    BY JoiningNode
  <2>2. ptr[d] # NULL
    BY <1>2, <2>1
  <2>3. ASSUME NEW m \in DOMAIN heap PROVE heap'[m].next # ptr[d]
    BY <2>1, <2>2
  <2> QED
    BY <2>1, <2>3
<1> QED
  BY <1>4, <1>5, <1>6, <1>7, <1>8, StepHubInv

\* The reply cuts the list behind its head.
LEMMA ReplySendHubInv ==
    ASSUME HubInv, TypeInv', NEW c \in Conns, ReplySend(c)
    PROVE  HubInv'
<1>1. /\ TypeInv /\ DOMAIN pc = Conns /\ DOMAIN ptr = Conns /\ DOMAIN recvd = Conns
  BY HubParts
<1>2. /\ pc[c] = "truncate" /\ heap' = [heap EXCEPT ![ptr[c]].next = NULL]
      /\ pc' = [pc EXCEPT ![c] = "recv"] /\ ptr' = [ptr EXCEPT ![c] = NULL]
      /\ recvd' = [recvd EXCEPT ![c] = <<>>]
      /\ UNCHANGED <<head, size, socketfds, deleterlock, tpc, from, greeted>>
  BY DEF ReplySend, Return, At, Goto, timer
<1>3. heap \in [DOMAIN heap -> Nodes]
  BY <1>1, ListFacts
<1>4. /\ DOMAIN heap' = DOMAIN heap
      /\ \A m \in DOMAIN heap : /\ heap'[m].next \in {heap[m].next, NULL}
                                /\ heap'[m].remote = heap[m].remote
  BY <1>2, <1>3 DEF Nodes
<1>5. LockOwned' /\ NoSpin' /\ Counted' = Counted
  BY <1>2, LockKept, CountedKept DEF Critical
<1>6. Received(c)' /\ pc'[c] = "recv"
  BY <1>1, <1>2, ReturnThread
<1> QED
  BY <1>1, <1>2, <1>4, <1>5, <1>6, CutHubInv

\* The one link of a packet leads to this proxy, which is never in the table, so
\* add_member_connect adds no member, and its search of the list ends.
LEMMA OnlyRefreshes ==
    ASSUME HubInv, NEW c \in Conns
    PROVE  ~MemberSpin(c) /\ ~MemberKnown(c) /\ ~MemberNew(c) /\ ~MemberRelink(c)
<1>1. TypeInv /\ Received(c) /\ RouteIsDirect /\ Acyclic(heap)
  BY HubParts
<1>2. Wired(heap) /\ NULL \notin DOMAIN heap /\ head \in DOMAIN heap \cup {NULL}
  BY <1>1, ListFacts
<1>3. ASSUME pc[c] = "member"
      PROVE  Listed(c) = NULL /\ IsMe(c) /\ Terminates(heap, head, Opposite(c))
  <2>1. ptr[c] = NULL /\ Len(recvd[c]) = 1
        /\ recvd[c][1].remote.macaddr \in {ZeroMac, MyInfo.macaddr}
    BY <1>1, <1>3 DEF Received
  <2>2. pos[c] = 1
    <3>1. pos[c] \in 1 .. Len(recvd[c])
      BY <1>1, <1>3, <2>1 DEF TypeInv, Positions
    <3> QED
      BY <2>1, <3>1
  <2>3. Subject(c).remote.macaddr \in {ZeroMac, MyInfo.macaddr}
    BY <2>1, <2>2 DEF Subject
  <2>4. Listed(c) = NULL
    BY <1>1, <2>3, FindPeer DEF Listed
  <2>5. Terminates(heap, head, Opposite(c))
    BY <1>1, <1>2, AcyclicTerminates
  <2> QED
    BY <2>3, <2>4, <2>5 DEF IsMe
<1> QED
  BY <1>3 DEF MemberSpin, MemberKnown, MemberNew, MemberRelink, At

\* add_members goes along the packet and at most notes the time in a node.
LEMMA AddMembersHubInv ==
    ASSUME HubInv, TypeInv', NEW c \in Conns, AddMembers(c) \/ MemberLock(c)
    PROVE  HubInv'
<1>1. /\ TypeInv /\ Received(c) /\ Joining(c) /\ RouteIsDirect /\ Acyclic(heap)
      /\ DOMAIN pc = Conns /\ DOMAIN ptr = Conns /\ DOMAIN recvd = Conns
      /\ recvd[c] \in Seq(Links)
  BY HubParts
<1>2. /\ Wired(heap) /\ NULL \notin DOMAIN heap /\ head \in DOMAIN heap \cup {NULL}
      /\ heap \in [DOMAIN heap -> Nodes]
  BY <1>1, ListFacts
<1>3. CASE MembersNext(c)
  <2>1. /\ pc[c] = "members" /\ pc' = [pc EXCEPT ![c] = "memberlock"]
        /\ ptr[c] = NULL => UNCHANGED ptr
        /\ UNCHANGED <<heap, head, size, socketfds, deleterlock, tpc, recvd, from, greeted>>
    BY <1>3 DEF MembersNext, At, Goto, shared, timer
  <2>2. UNCHANGED ptr
    BY <1>1, <2>1 DEF Received
  <2>3. LockOwned' /\ NoSpin' /\ Counted' = Counted
    BY <2>1, LockKept, CountedKept DEF Critical
  <2>4. Received(c)' /\ Joining(c)'
    BY <1>1, <2>1, <2>2 DEF Received, Joining
  <2> QED
    BY <1>1, <2>1, <2>2, <2>3, <2>4, LocalHubInv
<1>4. CASE MembersDone(c)
  <2>1. /\ pc[c] = "members" /\ pc' = [pc EXCEPT ![c] = "recv"]
        /\ ptr' = [ptr EXCEPT ![c] = NULL] /\ recvd' = [recvd EXCEPT ![c] = <<>>]
        /\ UNCHANGED <<heap, head, size, socketfds, deleterlock, tpc, from, greeted>>
    BY <1>4 DEF MembersDone, Return, At, Goto, shared, timer
  <2>2. LockOwned' /\ NoSpin' /\ Counted' = Counted
    BY <2>1, LockKept, CountedKept DEF Critical
  <2>3. Received(c)' /\ Joining(c)'
    BY <2>1, ReturnThread
  <2> QED
    BY <1>1, <2>1, <2>2, <2>3, LocalHubInv
<1>5. CASE MembersWild(c) \/ OutOfMemory(c)
  BY <1>5, StillHubInv DEF MembersWild, OutOfMemory, shared, reader, timer
<1>6. CASE MemberLock(c)
  <2>1. /\ pc[c] = "memberlock" /\ pc' = [pc EXCEPT ![c] = "member"]
        /\ deleterlock = NoThread /\ deleterlock' = c
        /\ UNCHANGED <<heap, head, size, socketfds, tpc, ptr, recvd, from, greeted>>
    BY <1>6 DEF MemberLock, At, Goto, Lock, timer
  <2>2. LockOwned' /\ NoSpin' /\ Counted' = Counted
    BY <2>1, LockTaken, CountedKept
  <2>3. Received(c)' /\ Joining(c)'
    BY <1>1, <2>1 DEF Received, Joining
  <2> QED
    BY <1>1, <2>1, <2>2, <2>3, LocalHubInv
<1>7. CASE MemberRefresh(c)
  <2>1. /\ pc[c] = "member" /\ pc' = [pc EXCEPT ![c] = "members"]
        /\ heap' \in {heap, [heap EXCEPT ![Finder(c)].ID = now]} /\ deleterlock' = NoThread
        /\ UNCHANGED <<head, size, socketfds, tpc, ptr, recvd, from, greeted>>
    BY <1>7 DEF MemberRefresh, Skip, Unlock, At, Goto, timer
  <2>2. /\ DOMAIN heap' = DOMAIN heap
        /\ \A m \in DOMAIN heap : /\ heap'[m].next \in {heap[m].next, NULL}
                                  /\ heap'[m].remote = heap[m].remote
    BY <1>2, <2>1 DEF Nodes
  <2>3. LockOwned' /\ NoSpin' /\ Counted' = Counted
    BY <2>1, LockGiven, CountedKept DEF Critical
  <2>4. Received(c)' /\ pc'[c] = "members"
    BY <1>1, <2>1 DEF Received
  <2> QED
    BY <1>1, <2>1, <2>2, <2>3, <2>4, CutHubInv
<1>8. ~MemberSpin(c) /\ ~MemberKnown(c) /\ ~MemberNew(c) /\ ~MemberRelink(c)
  BY OnlyRefreshes
<1>9. ~MemberCount(c)
  BY <1>1 DEF Received, MemberCount, At
<1> QED
  BY <1>3, <1>4, <1>5, <1>6, <1>7, <1>8, <1>9 DEF AddMembers
-----------------------------------------------------------------------------
(***************************************************************************)
(* The steps of checkLinkTimeOut.                                          *)
(***************************************************************************)
\* It takes the mutex, holds it while it goes along the list, and gives it back.
LEMMA TimerLocalHubInv ==
    ASSUME HubInv, TypeInv', TimerLock \/ TimerKeep \/ TimerDone
    PROVE  HubInv'
<1>1. UNCHANGED <<heap, head, size, socketfds, pc, from, recvd, ptr, greeted>>
  BY DEF TimerLock, TimerKeep, TimerDone, shared, reader
<1>2. ListInv' /\ TableInv'
  <2>1. (tpc = "count" <=> tpc' = "count") /\ Counted' = Counted
    BY <1>1 DEF TimerLock, TimerKeep, TimerDone, Counted
  <2> QED
    BY <1>1, <2>1 DEF HubInv, ListInv, TableInv, PeerNodes, ListInTable, ListedOnce,
       SizeCoversList, RouteIsDirect, RoutesGreeted
<1>3. ThreadInv'
  BY <1>1 DEF HubInv, ThreadInv, Received, Joining, IsListed, HasRoute
<1>4. LockOwned' /\ NoSpin'
  <2>1. \A c \in Conns : Critical(c)' <=> Critical(c)
    BY <1>1 DEF Critical
  <2>2. \/ deleterlock = NoThread /\ deleterlock' = Timer /\ tpc' = "expire"
        \/ UNCHANGED <<deleterlock, tpc>>
        \/ tpc = "expire" /\ deleterlock' = NoThread /\ tpc' = "sleep"
    BY DEF TimerLock, TimerKeep, TimerDone, Lock, Unlock, shared
  <2> QED
    BY <1>1, <2>1, <2>2, ProxyAssumption DEF HubInv, LockOwned, NoSpin, TimerCritical
<1> QED
  BY <1>2, <1>3, <1>4 DEF HubInv

\* The expired node's address has a route, so deletesockfd keeps the mutex, and it
\* is the address of one listed node only, which leaves the list.
LEMMA TimerDeleteHubInv ==
    ASSUME HubInv, TypeInv', TimerDelete
    PROVE  HubInv'
<1> DEFINE mac  == heap[tptr].remote.macaddr
           same == SameRemote(heap, mac)
           x    == FirstOf(heap, head, same)
<1>1. /\ TypeInv /\ RouteIsDirect /\ RoutesGreeted /\ Acyclic(heap) /\ PeerNodes
      /\ ListInTable /\ ListedOnce /\ LockOwned /\ NoSpin /\ ListInv /\ TableInv
  BY DEF HubInv, ListInv, TableInv
<1>2. /\ Wired(heap) /\ NULL \notin DOMAIN heap /\ head \in DOMAIN heap \cup {NULL}
      /\ heap \in [DOMAIN heap -> Nodes] /\ ListNodes(heap, head) \subseteq DOMAIN heap
  BY <1>1, ListFacts
<1>3. Terminates(heap, head, same)
  BY <1>1, <1>2, AcyclicTerminates
<1>4. /\ tpc = "expire" /\ UNCHANGED <<size, pc, from, recvd, ptr, greeted>>
  BY DEF TimerDelete, reader
<1>5. \/ x = NULL /\ UNCHANGED <<heap, head, socketfds, deleterlock, tpc>>
      \/ /\ x # NULL /\ tpc' = "count"
         /\ socketfds' = deletesockfd(socketfds, mac)
         /\ \/ find_socketfd(socketfds, mac) = NULL
            \/ UNCHANGED deleterlock
         /\ heap' = Unlink(heap, head, same, x)
         /\ head' = IF x = head THEN heap[x].next ELSE head
  BY <1>3 DEF TimerDelete
<1>6. CASE x = NULL
  <2>1. UNCHANGED <<heap, head, size, socketfds, deleterlock, pc, from, recvd, ptr,
                    greeted, tpc>>
    BY <1>4, <1>5, <1>6
  <2> QED
    BY <2>1, StillHubInv
<1>7. CASE x # NULL
  <2>1. x \in Visited(heap, head, same) /\ x \in same
    BY <1>7, FirstOfStop
  <2>2. x \in ListNodes(heap, head) /\ x \in DOMAIN heap /\ heap[x].remote.macaddr = mac
    BY <1>2, <2>1, VisitedStop DEF SameRemote
  <2>3. ListNodes(heap, head) \cap same \subseteq {x}
    BY <1>1, <2>1, <2>2 DEF ListedOnce, SameRemote
  <2>4. PICK c \in Conns : mac = Peer[c].macaddr
    BY <1>1, <2>2 DEF PeerNodes
  <2>5. find_socketfd(socketfds, mac) # NULL
    BY <1>1, <2>2 DEF ListInTable
  <2> HIDE DEF x, same, mac
  <2>6. /\ socketfds' = deletesockfd(socketfds, mac) /\ UNCHANGED deleterlock
        /\ heap' = Unlink(heap, head, same, x)
        /\ head' = IF x = head THEN heap[x].next ELSE head
        /\ tpc' = "count"
    BY <1>5, <1>7, <2>5
  <2>7. /\ Acyclic(heap')
        /\ ListNodes(heap', head') \subseteq ListNodes(heap, head) \ {x}
    BY <1>1, <1>2, <2>1, <2>3, <2>6, UnlinkList
  <2>8. /\ DOMAIN heap' = DOMAIN heap
        /\ \A m \in DOMAIN heap : /\ heap'[m].remote = heap[m].remote
                                  /\ heap'[m].next \in {heap[m].next, heap[x].next}
    BY <1>2, <2>2, <2>6 DEF Unlink, Nodes
  <2>9. /\ DOMAIN socketfds' = DOMAIN socketfds \ {find_socketfd(socketfds, mac)}
        /\ \A e \in DOMAIN socketfds' : socketfds'[e] = socketfds[e]
    BY <2>6 DEF deletesockfd
  <2>10. TableInv'
    BY <1>1, <1>4, <2>9 DEF TableInv, RouteIsDirect, RoutesGreeted
  <2>11. \A d \in Conns : HasRoute(d) /\ Peer[d].macaddr # mac => HasRoute(d)'
    <3>1. /\ alloc \in Nat /\ DOMAIN socketfds \subseteq 1 .. alloc
          /\ socketfds \in [DOMAIN socketfds -> Entries]
      BY <1>1 DEF TypeInv, TypeOK, HeapOK, TableOK
    <3>2. find_socketfd(socketfds, mac) \in Matches(socketfds, mac)
      BY <2>5, <3>1, FindMatches
    <3>3. \A e \in Matches(socketfds, mac) : socketfds[e].sock_fd = c
      BY <1>1, <2>4, <3>1, PeerKeys DEF Matches, RouteIsDirect, Entries
    <3> QED
      BY <2>4, <2>9, <3>2, <3>3 DEF HasRoute
  <2>12. ListInv' /\ \A a : IsListed(a)' => IsListed(a)
    <3>1. size \in Int
      BY <1>1, ListFacts
    <3>2. Counted' = Counted - 1
      BY <1>4, <2>6, <3>1 DEF Counted
    <3> QED
      BY <2>2, <2>6, <2>7, <2>8, <2>10, <2>11, <3>2, ListShrunk
  <2>13. LockOwned' /\ NoSpin'
    BY <1>1, <1>4, <2>6 DEF LockOwned, NoSpin, Critical, TimerCritical
  <2>14. ASSUME NEW d \in Conns, pc[d] \in {"joinlock", "insert"}
         PROVE  /\ ptr[d] # head' /\ \A m \in DOMAIN heap' : heap'[m].next # ptr[d]
                /\ Peer[d].macaddr # mac
    <3>1. /\ ~IsListed(Peer[d].macaddr) /\ ptr[d] # head
          /\ \A m \in DOMAIN heap : heap[m].next # ptr[d]
      BY <2>14, JoiningNode
    <3> QED
      BY <2>2, <2>6, <2>8, <3>1 DEF IsListed
  <2>15. ASSUME NEW d \in Conns PROVE Received(d)' /\ Joining(d)'
    <3>1. Received(d) /\ Joining(d)
      BY HubParts
    <3>2. Received(d)'
      BY <1>4, <3>1 DEF Received
    <3>3. Joining(d)'
      BY <1>4, <2>8, <2>11, <2>12, <2>14, <3>1 DEF Joining
    <3> QED
      BY <3>2, <3>3
  <2> QED
    BY <2>10, <2>12, <2>13, <2>15 DEF HubInv, ThreadInv
<1> QED
  BY <1>6, <1>7

\* The deletion is counted.
LEMMA TimerCountHubInv ==
    ASSUME HubInv, TypeInv', TimerCount
    PROVE  HubInv'
<1>1. /\ tpc = "count" /\ tpc' = "expire" /\ size' = size - 1
      /\ UNCHANGED <<heap, head, socketfds, deleterlock, pc, from, recvd, ptr, greeted>>
  BY DEF TimerCount, reader
<1>2. size \in Int
  BY ListFacts DEF HubInv
<1>3. Counted' = Counted
  BY <1>1, <1>2 DEF Counted
<1>4. ListInv' /\ TableInv'
  BY <1>1, <1>3 DEF HubInv, ListInv, TableInv, PeerNodes, ListInTable, ListedOnce,
     SizeCoversList, RouteIsDirect, RoutesGreeted
<1>5. LockOwned' /\ NoSpin'
  BY <1>1 DEF HubInv, LockOwned, NoSpin, Critical, TimerCritical
<1>6. ThreadInv'
  BY <1>1 DEF HubInv, ThreadInv, Received, Joining, IsListed, HasRoute
<1> QED
  BY <1>4, <1>5, <1>6 DEF HubInv
-----------------------------------------------------------------------------
\* Every step keeps the invariant.
LEMMA NextHubInv == HubInv /\ [Next]_vars => HubInv'
<1> SUFFICES ASSUME HubInv, [Next]_vars PROVE HubInv'
  OBVIOUS
<1>1. TypeInv'
  BY NextTypeInv DEF HubInv
<1>2. ASSUME NEW c \in Conns, TCPHandle(c) PROVE HubInv'
  BY <1>1, <1>2, RecvHubInv, LocalJoinHubInv, JoinAddHubInv, JoinInsertHubInv,
     ReplySendHubInv, AddMembersHubInv DEF TCPHandle, Join
<1>3. CASE TimerLock \/ CheckLinkTimeOut
  BY <1>1, <1>3, TimerLocalHubInv, TimerDeleteHubInv, TimerCountHubInv DEF CheckLinkTimeOut
<1>4. CASE SendPackets \/ Tick \/ UNCHANGED vars
  <2>1. UNCHANGED <<shared, reader, timer>>
    BY <1>4 DEF SendPackets, SendCheck, SendLength, SendList, SendTo, SendDone,
       SendCrash, Tick, vars
  <2> QED
    BY <1>1, <2>1, StillHubInv DEF shared, reader, timer
<1> QED
  BY <1>2, <1>3, <1>4 DEF Next, Down

\* The invariant holds throughout.
LEMMA HubInvariant == Spec => []HubInv
BY InitHubInv, NextHubInv, PTL DEF Spec

\* In a hub the mutex is held by exactly the thread between its lock and its
\* unlock call: the unlock inside deletesockfd never lets another thread in while
\* removeExpiredMembers is at work.
THEOREM MutexCorrect == Spec => []LockOwned
<1>1. HubInv => LockOwned
  BY DEF HubInv
<1> QED
  BY <1>1, HubInvariant, PTL

\* In a hub no search of the list runs for ever with the mutex held.
THEOREM SearchesEnd == Spec => []NoSpin
<1>1. HubInv => NoSpin
  BY DEF HubInv
<1> QED
  BY <1>1, HubInvariant, PTL

\* In a hub every listed member can be routed to, although its route is added
\* and removed at other times than its node.
THEOREM MembersRouted == Spec => []ListInTable
<1>1. HubInv => ListInTable
  BY DEF HubInv, ListInv
<1> QED
  BY <1>1, HubInvariant, PTL

\* In a hub no two nodes of the list are for one member, although its source is
\* looked up long before its node is inserted: an expiry deletes the right node.
THEOREM MembersListedOnce == Spec => []ListedOnce
<1>1. HubInv => ListedOnce
  BY DEF HubInv, ListInv
<1> QED
  BY <1>1, HubInvariant, PTL

\* In a hub mem_list->size, with what the holder of the mutex is about to count, never
\* falls short of the list, although a reply may cut the list at any time: size itself
\* falls short of a list read in the same state by one at most, until that is counted.
THEOREM SizeSuffices == Spec => []SizeCoversList
<1>1. HubInv => SizeCoversList
  BY DEF HubInv, ListInv
<1> QED
  BY <1>1, HubInvariant, PTL

\* In a hub every route leads to the neighbour it is for.
THEOREM RoutesDirect == Spec => []RouteIsDirect
<1>1. HubInv => RouteIsDirect
  BY DEF HubInv, TableInv
<1> QED
  BY <1>1, HubInvariant, PTL
=============================================================================
