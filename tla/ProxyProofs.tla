----------------------------- MODULE ProxyProofs -----------------------------
(***************************************************************************)
(* What holds of a proxy process in every network, whatever arrives on its *)
(* connections, for any number of connections and any bounds.              *)
(***************************************************************************)
EXTENDS Proxy, MemberListProofs

\* Where a thread uses a received node there is one.
Positions ==
    \A c \in Conns :
        /\ pc[c] = "addsock" => recvd[c] # <<>>
        /\ pc[c] \in {"memberlock", "member", "spin"} /\ ptr[c] = NULL
              => pos[c] \in 1 .. Len(recvd[c])

\* Whoever deletes a member stands on one.
Standing == tpc = "count" => tptr # NULL

TypeInv == TypeOK /\ Positions /\ Standing

\* Packets are typed.
LEMMA PacketType ==
    ASSUME NEW c \in Conns, NEW p \in Hello[c] \cup Flood[c]
    PROVE  p.source \in Infos /\ p.list \in Seq(Links)
BY ProxyAssumption DEF Packets

\* The types hold at the start.
LEMMA InitTypeInv == Init => TypeInv
BY ProxyAssumption DEF Init, TypeInv, TypeOK, Positions, Standing, HeapOK, TableOK, ReaderOK,
   TimerOK, SenderOK, NULL

\* A step that changes no table entry, nothing of the other threads, and of the
\* heap's nodes only their contents.
LEMMA StepTypeInv ==
    ASSUME TypeInv,
           DOMAIN heap' = DOMAIN heap,
           heap' \in [DOMAIN heap -> Nodes],
           \A m \in DOMAIN heap : heap'[m].next \in DOMAIN heap \cup {NULL},
           head' \in DOMAIN heap \cup {NULL}, size' \in Int,
           deleterlock' \in Conns \cup {Timer, NoThread},
           up' \in {"running", "exited", "killed", "crashed"},
           UNCHANGED <<now, socketfds, alloc, timer, sender>>,
           ReaderOK', Positions'
    PROVE  TypeInv'
<1>1. HeapOK' /\ TableOK'
  BY DEF TypeInv, TypeOK, HeapOK, TableOK
<1>2. TimerOK' /\ SenderOK'
  BY DEF TypeInv, TypeOK, TimerOK, SenderOK, timer, sender
<1>3. Standing'
  BY DEF TypeInv, Standing, timer
<1> QED
  BY <1>1, <1>2, <1>3 DEF TypeInv, TypeOK

\* The parts of TypeInv that the steps of a TCPHandle thread rely on.
LEMMA TypeParts ==
    ASSUME TypeInv
    PROVE  /\ HeapOK /\ ReaderOK /\ Positions
           /\ up \in {"running", "exited", "killed", "crashed"} /\ now \in Nat
           /\ deleterlock \in Conns \cup {Timer, NoThread}
           /\ head \in DOMAIN heap \cup {NULL} /\ size \in Int /\ DOMAIN heap \subseteq Nat
           /\ heap \in [DOMAIN heap -> Nodes]
           /\ \A m \in DOMAIN heap : heap[m].next \in DOMAIN heap \cup {NULL}
BY DEF TypeInv, TypeOK, HeapOK

\* A step of that kind that leaves the list and its nodes alone.
LEMMA LocalTypeInv ==
    ASSUME TypeInv,
           UNCHANGED <<now, heap, head, size, socketfds, alloc, timer, sender>>,
           deleterlock' \in Conns \cup {Timer, NoThread},
           up' \in {"running", "exited", "killed", "crashed"},
           ReaderOK', Positions'
    PROVE  TypeInv'
BY TypeParts, StepTypeInv

\* Facts about constants that the steps below use.
LEMMA ConstantTypes ==
    /\ MyInfo \in Infos
    /\ MyInfo.macaddr \in Macs
    /\ WeightMod \in Nat \ {0}
    /\ 1 \in 0 .. WeightMod - 1
    /\ <<>> \in Seq(Links)
<1>1. MyInfo \in Infos
  BY ProxyAssumption
<1>2. WeightMod \in Nat /\ WeightMod > 2
  BY DataAssumption
<1> QED
  BY <1>1, <1>2 DEF Infos

\* The thread of c is back at recv().
LEMMA ReturnTypeInv ==
    ASSUME TypeInv, NEW c \in Conns,
           pc' = [pc EXCEPT ![c] = "recv"], recvd' = [recvd EXCEPT ![c] = <<>>],
           pos' = [pos EXCEPT ![c] = 1], ptr' = [ptr EXCEPT ![c] = NULL],
           UNCHANGED reroute,
           greeted' \in {greeted, [greeted EXCEPT ![c] = TRUE]},
           UNCHANGED <<from, gone>>, DOMAIN heap' = DOMAIN heap
    PROVE  ReaderOK' /\ Positions'
<1>1. ReaderOK /\ Positions
  BY TypeParts
<1>2. ReaderOK'
  <2>1. recvd' \in [Conns -> Seq(Links)]
    BY <1>1, ConstantTypes DEF ReaderOK
  <2>2. pos' \in [Conns -> Nat \ {0}] /\ reroute' \in [Conns -> Nat]
    BY <1>1 DEF ReaderOK
  <2>3. ptr' \in [Conns -> DOMAIN heap' \cup {NULL}]
    BY <1>1 DEF ReaderOK
  <2>4. greeted' \in [Conns -> BOOLEAN]
    BY <1>1 DEF ReaderOK
  <2> QED
    BY <1>1, <2>1, <2>2, <2>3, <2>4 DEF ReaderOK
<1>3. Positions'
  BY <1>1 DEF ReaderOK, Positions
<1> QED
  BY <1>2, <1>3

\* The thread of c receives.
LEMMA RecvTypeInv ==
    ASSUME TypeInv, NEW c \in Conns, Recv(c)
    PROVE  TypeInv'
<1>1. ReaderOK /\ Positions /\ deleterlock \in Conns \cup {Timer, NoThread}
      /\ up \in {"running", "exited", "killed", "crashed"}
  BY TypeParts
<1>2. CASE RecvKnown(c) \/ RecvJoin(c)
  <2>1. PICK p \in Hello[c] \cup Flood[c] :
           /\ Receive(c, p)
           /\ pc' \in {[pc EXCEPT ![c] = "members"], [pc EXCEPT ![c] = "addsock"]}
           /\ from' = [from EXCEPT ![c] = p.source]
           /\ recvd' = [recvd EXCEPT ![c] = p.list]
           /\ UNCHANGED <<pos, ptr, reroute>>
    BY <1>2 DEF RecvKnown, RecvJoin, Receive, Goto
  <2>2. /\ greeted' = [greeted EXCEPT ![c] = TRUE]
        /\ UNCHANGED <<up, now, heap, head, size, socketfds, alloc, deleterlock, gone,
                       timer, sender>>
    BY <2>1 DEF Receive, Arrives, shared
  <2>3. p.source \in Infos /\ p.list \in Seq(Links) /\ p.list # <<>>
    BY <2>1, PacketType DEF Receive
  <2>4. ReaderOK'
    BY <1>1, <2>1, <2>2, <2>3 DEF ReaderOK
  <2>5. Positions'
    BY <1>1, <2>1, <2>3 DEF ReaderOK, Positions
  <2> QED
    BY <1>1, <2>2, <2>4, <2>5, LocalTypeInv
<1>3. CASE RecvIgnored(c)
  <2>1. /\ pc' = [pc EXCEPT ![c] = "recv"] /\ recvd' = [recvd EXCEPT ![c] = <<>>]
        /\ pos' = [pos EXCEPT ![c] = 1] /\ ptr' = [ptr EXCEPT ![c] = NULL]
        /\ UNCHANGED reroute
        /\ greeted' = [greeted EXCEPT ![c] = TRUE]
        /\ UNCHANGED <<up, now, heap, head, size, socketfds, alloc, deleterlock, gone,
                       timer, sender, from>>
    BY <1>3 DEF RecvIgnored, Receive, Arrives, Return, Goto, shared
  <2>2. ReaderOK' /\ Positions'
    BY <2>1, ReturnTypeInv
  <2> QED
    BY <1>1, <2>1, <2>2, LocalTypeInv
<1>4. CASE RecvLeave(c) \/ LostConnection(c)
  <2>1. /\ gone' = [gone EXCEPT ![c] = TRUE]
        /\ UNCHANGED <<up, now, heap, head, size, socketfds, alloc, deleterlock, timer,
                       sender, pc, from, recvd, pos, ptr, reroute, greeted>>
    BY <1>4 DEF RecvLeave, LostConnection, Silence, shared
  <2>2. ReaderOK' /\ Positions'
    BY <1>1, <2>1 DEF ReaderOK, Positions
  <2> QED
    BY <1>1, <2>1, <2>2, LocalTypeInv
<1>5. CASE RecvQuit(c) \/ RecvEmpty(c)
  <2>1. /\ up' \in {"exited", "crashed"}
        /\ UNCHANGED <<now, shared, reader, timer, sender>>
    BY <1>5 DEF RecvQuit, RecvEmpty
  <2>2. ReaderOK' /\ Positions'
    BY <1>1, <2>1 DEF ReaderOK, Positions, reader, shared
  <2> QED
    BY <1>1, <2>1, <2>2, LocalTypeInv DEF shared
<1> QED
  BY <1>2, <1>3, <1>4, <1>5 DEF Recv

\* A new node has the type of nodes, and what held an address still does.
LEMMA NewNodeType ==
    ASSUME HeapOK, NEW n \in Nat \ {0}, NEW local \in Infos, NEW remote \in Infos,
           NEW weight \in 0 .. WeightMod - 1, NEW time \in Nat
    PROVE  LET h == NewNode(heap, n, local, remote, weight, time)
           IN  /\ DOMAIN h = DOMAIN heap \cup {n}
               /\ h \in [DOMAIN h -> Nodes]
               /\ \A m \in DOMAIN h : h[m].next \in DOMAIN h \cup {NULL}
BY DEF HeapOK, NewNode, Nodes, NULL

\* Pushing a node keeps the type of the heap.
LEMMA PushType ==
    ASSUME NEW h, h \in [DOMAIN h -> Nodes], DOMAIN h \subseteq Nat,
           \A m \in DOMAIN h : h[m].next \in DOMAIN h \cup {NULL},
           NEW hd \in DOMAIN h \cup {NULL}, NEW n
    PROVE  /\ DOMAIN Push(h, hd, n) = DOMAIN h
           /\ Push(h, hd, n) \in [DOMAIN h -> Nodes]
           /\ \A m \in DOMAIN h : Push(h, hd, n)[m].next \in DOMAIN h \cup {NULL}
<1> DEFINE p == Push(h, hd, n)
<1>1. hd \in Nat
  BY DEF NULL
<1>2. DOMAIN p = DOMAIN h
  BY DEF Push
<1>3. ASSUME NEW m \in DOMAIN h
      PROVE  p[m] \in Nodes /\ p[m].next \in DOMAIN h \cup {NULL}
  BY <1>1 DEF Push, Nodes
<1> QED
  BY <1>2, <1>3 DEF Push

\* A new entry has the type of entries.
LEMMA addsockfdType ==
    ASSUME NEW table, table \in [DOMAIN table -> Entries],
           NEW e, NEW mac \in Macs, NEW fd \in Conns
    PROVE  /\ DOMAIN addsockfd(table, e, mac, fd) = DOMAIN table \cup {e}
           /\ addsockfd(table, e, mac, fd) \in [DOMAIN table \cup {e} -> Entries]
BY DEF addsockfd, Entries

\* Addresses stay below the last one allocated.
LEMMA GrowRange ==
    ASSUME NEW a \in Nat, NEW b \in Nat, a <= b, NEW D, D \subseteq 1 .. a,
           NEW n \in Nat, 1 <= n, n <= b
    PROVE  D \cup {n} \subseteq 1 .. b
<1>1. \A m \in D : m \in 1 .. b
  <2>1. \A m \in 1 .. a : m \in 1 .. b
    OBVIOUS
  <2> QED
    BY <2>1
<1>2. n \in 1 .. b
  OBVIOUS
<1> QED
  BY <1>1, <1>2

\* JoinAdd adds a typed node and a typed entry.
LEMMA JoinAddType ==
    ASSUME TypeInv, NEW c \in Conns, JoinAdd(c)
    PROVE  /\ DOMAIN heap' = DOMAIN heap \cup {alloc + 2}
           /\ heap' \in [DOMAIN heap' -> Nodes]
           /\ \A m \in DOMAIN heap' : heap'[m].next \in DOMAIN heap' \cup {NULL}
           /\ DOMAIN socketfds' = DOMAIN socketfds \cup {alloc + 1}
           /\ socketfds' \in [DOMAIN socketfds' -> Entries]
<1> DEFINE link == Head(recvd[c])
           mac  == IF ZeroRemote(recvd[c]) THEN from[c].macaddr ELSE link.local.macaddr
           remote == [ip |-> from[c].ip, macaddr |-> mac]
<1>1. link \in Links /\ from[c] \in Infos
  BY DEF TypeInv, TypeOK, Positions, ReaderOK, JoinAdd, At
<1>2. remote \in Infos /\ from[c].macaddr \in Macs
  BY <1>1 DEF Infos, Links
<1>3. HeapOK /\ TableOK /\ now \in Nat /\ alloc + 2 \in Nat \ {0}
  BY DEF TypeInv, TypeOK, HeapOK
<1>4. /\ heap' = NewNode(heap, alloc + 2, MyInfo, remote, 1, now)
      /\ socketfds' = addsockfd(socketfds, alloc + 1, from[c].macaddr, c)
  BY DEF JoinAdd
<1> HIDE DEF link, mac, remote
<1>5. /\ DOMAIN heap' = DOMAIN heap \cup {alloc + 2}
      /\ heap' \in [DOMAIN heap' -> Nodes]
      /\ \A m \in DOMAIN heap' : heap'[m].next \in DOMAIN heap' \cup {NULL}
  BY <1>2, <1>3, <1>4, ConstantTypes, NewNodeType
<1>6. socketfds \in [DOMAIN socketfds -> Entries]
  BY <1>3 DEF TableOK
<1>7. /\ DOMAIN socketfds' = DOMAIN socketfds \cup {alloc + 1}
      /\ socketfds' \in [DOMAIN socketfds \cup {alloc + 1} -> Entries]
  BY <1>2, <1>4, <1>6, addsockfdType
<1> QED
  BY <1>5, <1>7

\* So JoinAdd keeps the types.
LEMMA JoinAddTypeInv ==
    ASSUME TypeInv, NEW c \in Conns, JoinAdd(c)
    PROVE  TypeInv'
<1>1. /\ DOMAIN heap' = DOMAIN heap \cup {alloc + 2}
      /\ heap' \in [DOMAIN heap' -> Nodes]
      /\ \A m \in DOMAIN heap' : heap'[m].next \in DOMAIN heap' \cup {NULL}
      /\ DOMAIN socketfds' = DOMAIN socketfds \cup {alloc + 1}
      /\ socketfds' \in [DOMAIN socketfds' -> Entries]
  BY JoinAddType
<1>2. /\ alloc' = alloc + 2 /\ ptr' = [ptr EXCEPT ![c] = alloc + 2]
      /\ pc' = [pc EXCEPT ![c] = "joinlock"]
      /\ UNCHANGED <<up, now, head, size, deleterlock, from, recvd, pos, reroute,
                     greeted, gone, tpc, tptr, ttime, spc, slist, sent>>
  BY DEF JoinAdd, Goto, timer, sender
<1>3. /\ alloc \in Nat /\ DOMAIN heap \subseteq 1 .. alloc
      /\ head \in DOMAIN heap \cup {NULL} /\ size \in Int
      /\ DOMAIN socketfds \subseteq 1 .. alloc
  BY DEF TypeInv, TypeOK, HeapOK, TableOK
<1>4. alloc + 2 \in Nat /\ alloc + 1 \in Nat /\ alloc <= alloc + 2
      /\ 1 <= alloc + 1 /\ alloc + 1 <= alloc + 2 /\ 1 <= alloc + 2
  BY <1>3
<1>5. DOMAIN heap' \subseteq 1 .. alloc'
  BY <1>1, <1>2, <1>3, <1>4, GrowRange
<1>6. DOMAIN socketfds' \subseteq 1 .. alloc'
  BY <1>1, <1>2, <1>3, <1>4, GrowRange
<1>7. HeapOK'
  BY <1>1, <1>2, <1>3, <1>4, <1>5 DEF HeapOK
<1>8. TableOK'
  BY <1>1, <1>6 DEF TableOK
<1>9. ReaderOK'
  BY <1>1, <1>2 DEF TypeInv, TypeOK, ReaderOK
<1>10. Positions'
  BY <1>2 DEF TypeInv, TypeOK, ReaderOK, Positions
<1>11. TimerOK' /\ SenderOK' /\ Standing'
  BY <1>1, <1>2 DEF TypeInv, TypeOK, TimerOK, SenderOK, Standing
<1> QED
  BY <1>2, <1>7, <1>8, <1>9, <1>10, <1>11 DEF TypeInv, TypeOK

\* The thread of c joins the source of a packet, or locks the mutex.
LEMMA JoinTypeInv ==
    ASSUME TypeInv, NEW c \in Conns, Join(c) \/ JoinLock(c) \/ MemberLock(c)
    PROVE  TypeInv'
<1>1. CASE JoinAdd(c)
  BY <1>1, JoinAddTypeInv
<1>3. /\ HeapOK /\ ReaderOK /\ Positions
      /\ up \in {"running", "exited", "killed", "crashed"}
      /\ deleterlock \in Conns \cup {Timer, NoThread}
      /\ head \in DOMAIN heap \cup {NULL} /\ size \in Int /\ DOMAIN heap \subseteq Nat
      /\ heap \in [DOMAIN heap -> Nodes]
      /\ \A m \in DOMAIN heap : heap[m].next \in DOMAIN heap \cup {NULL}
  BY TypeParts
<1>4. CASE JoinInsert(c)
  <2>1. /\ heap' = Push(heap, head, ptr[c]) /\ head' = ptr[c]
        /\ ptr' = [ptr EXCEPT ![c] = NULL] /\ pc' = [pc EXCEPT ![c] = "count"]
        /\ UNCHANGED <<up, now, size, socketfds, alloc, deleterlock, from, recvd, pos,
                       reroute, greeted, gone, timer, sender>>
    BY <1>4 DEF JoinInsert, Goto
  <2>2. /\ DOMAIN heap' = DOMAIN heap
        /\ heap' \in [DOMAIN heap -> Nodes]
        /\ \A m \in DOMAIN heap : heap'[m].next \in DOMAIN heap \cup {NULL}
    BY <1>3, <2>1, PushType
  <2>3. head' \in DOMAIN heap \cup {NULL} /\ size' \in Int
    BY <1>3, <2>1 DEF ReaderOK
  <2>4. ReaderOK'
    BY <1>3, <2>1, <2>2 DEF ReaderOK
  <2>5. Positions'
    BY <1>3, <2>1 DEF ReaderOK, Positions
  <2> QED
    BY <1>3, <2>1, <2>2, <2>3, <2>4, <2>5, StepTypeInv
<1>5. CASE ReplyList(c)
  <2>1. /\ ptr' = [ptr EXCEPT ![c] = head]
        /\ pc' = [pc EXCEPT ![c] = "truncate"]
        /\ UNCHANGED <<up, now, shared, from, recvd, pos, reroute, greeted, gone, timer, sender>>
    BY <1>5 DEF ReplyList, Goto
  <2>2. UNCHANGED <<heap, head, size, socketfds, alloc, deleterlock>>
    BY <2>1 DEF shared
  <2>3. ReaderOK'
    BY <1>3, <2>1, <2>2 DEF ReaderOK
  <2>4. Positions'
    BY <1>3, <2>1 DEF ReaderOK, Positions
  <2> QED
    BY <1>3, <2>1, <2>2, <2>3, <2>4, LocalTypeInv
<1>6. CASE ReplySend(c)
  <2>1. /\ ptr[c] # NULL /\ heap' = [heap EXCEPT ![ptr[c]].next = NULL]
        /\ pc' = [pc EXCEPT ![c] = "recv"] /\ recvd' = [recvd EXCEPT ![c] = <<>>]
        /\ pos' = [pos EXCEPT ![c] = 1] /\ ptr' = [ptr EXCEPT ![c] = NULL]
        /\ UNCHANGED reroute
        /\ UNCHANGED <<up, now, head, size, socketfds, alloc, deleterlock, from,
                       greeted, gone, timer, sender>>
    BY <1>6 DEF ReplySend, Return, Goto
  <2>2. \A m \in DOMAIN heap : heap'[m] \in Nodes
                               /\ heap'[m].next \in {heap[m].next, NULL}
    <3> DEFINE k == ptr[c]
    <3>1. heap' = [heap EXCEPT ![k].next = NULL]
      BY <2>1
    <3> HIDE DEF k
    <3>2. ASSUME NEW m \in DOMAIN heap, m # k PROVE heap'[m] = heap[m]
      BY <3>1, <3>2
    <3>3. ASSUME k \in DOMAIN heap
          PROVE  heap'[k] \in Nodes /\ heap'[k].next = NULL
      <4>1. heap[k] \in Nodes /\ heap'[k] = [heap[k] EXCEPT !.next = NULL]
        BY <1>3, <3>1, <3>3
      <4> QED
        BY <4>1 DEF Nodes, NULL
    <3> QED
      BY <1>3, <3>2, <3>3
  <2>3. DOMAIN heap' = DOMAIN heap /\ heap' \in [DOMAIN heap -> Nodes]
    BY <1>3, <2>1, <2>2
  <2>4. \A m \in DOMAIN heap : heap'[m].next \in DOMAIN heap \cup {NULL}
    BY <1>3, <2>2
  <2>5. ReaderOK' /\ Positions'
    BY <2>1, <2>3, ReturnTypeInv
  <2> QED
    BY <1>3, <2>1, <2>3, <2>4, <2>5, StepTypeInv
<1>7. CASE ReplyCrash(c) \/ ReplyKilled(c)
  <2>1. up' \in {"crashed", "killed"} /\ UNCHANGED <<now, shared, reader, timer, sender>>
    BY <1>7 DEF ReplyCrash, ReplyKilled
  <2>2. UNCHANGED <<heap, head, size, socketfds, alloc, deleterlock>>
    BY <2>1 DEF shared
  <2>3. ReaderOK' /\ Positions'
    BY <1>3, <2>1, <2>2 DEF ReaderOK, Positions, reader
  <2> QED
    BY <1>3, <2>1, <2>2, <2>3, LocalTypeInv
<1>8. CASE JoinLock(c) \/ MemberLock(c)
  <2>1. /\ deleterlock' = c
        /\ \/ pc[c] = "joinlock" /\ pc' = [pc EXCEPT ![c] = "insert"]
           \/ pc[c] = "memberlock" /\ pc' = [pc EXCEPT ![c] = "member"]
        /\ UNCHANGED <<up, now, heap, head, size, socketfds, alloc, from, recvd, pos,
                       ptr, reroute, greeted, gone, timer, sender>>
    BY <1>8 DEF JoinLock, MemberLock, Lock, At, Goto
  <2>2. ReaderOK'
    BY <1>3, <2>1 DEF ReaderOK
  <2>3. Positions'
    BY <1>3, <2>1 DEF ReaderOK, Positions
  <2> QED
    BY <1>3, <2>1, <2>2, <2>3, LocalTypeInv
<1>9. CASE JoinCount(c)
  <2>1. /\ size' = size + 1 /\ deleterlock' = NoThread
        /\ pc' \in {[pc EXCEPT ![c] = "members"], [pc EXCEPT ![c] = "reply"]}
        /\ UNCHANGED <<up, now, heap, head, socketfds, alloc, from, recvd, pos, ptr,
                       reroute, greeted, gone, timer, sender>>
    BY <1>9 DEF JoinCount, Unlock, Goto
  <2>2. ReaderOK' /\ Positions'
    BY <1>3, <2>1 DEF ReaderOK, Positions
  <2>3. size' \in Int /\ deleterlock' \in Conns \cup {Timer, NoThread}
    BY <1>3, <2>1
  <2> QED
    BY <1>3, <2>1, <2>2, <2>3, StepTypeInv
<1> QED
  BY <1>1, <1>4, <1>5, <1>6, <1>7, <1>8, <1>9 DEF Join

\* The node add_member_connect works on is a link.
LEMMA SubjectType ==
    ASSUME TypeInv, NEW c \in Conns, pc[c] = "member"
    PROVE  /\ Subject(c).local \in Infos /\ Subject(c).remote \in Infos
           /\ Subject(c).linkweight \in 0 .. WeightMod - 1
           /\ Subject(c).remote.macaddr \in Macs
           /\ Subject(c).local.macaddr \in Macs
<1>1. CASE ptr[c] = NULL
  <2>1. recvd[c] \in Seq(Links) /\ pos[c] \in 1 .. Len(recvd[c])
    BY <1>1 DEF TypeInv, TypeOK, ReaderOK, Positions
  <2>2. recvd[c][pos[c]] \in Links
    BY <2>1
  <2> QED
    BY <1>1, <2>2 DEF Subject, Links, Infos
<1>2. CASE ptr[c] # NULL
  <2>1. heap[ptr[c]] \in Nodes
    BY <1>2 DEF TypeInv, TypeOK, ReaderOK, HeapOK
  <2> QED
    BY <1>2, <2>1 DEF Subject, Nodes, Infos
<1> QED
  BY <1>1, <1>2

\* A distance is a uint32_t.
LEMMA DistanceType ==
    ASSUME HeapOK, NEW mac
    PROVE  LowestSavedDistance(heap, head, mac) \in 0 .. WeightMod - 1
<1> DEFINE W == {heap[n].linkweight : n \in ListNodes(heap, head) \cap SameRemote(heap, mac)}
           T == W \cup {WeightMod - 1}
<1>1. \A n \in DOMAIN heap : heap[n].linkweight \in 0 .. WeightMod - 1
  BY DEF HeapOK, Nodes
<1>2. ListNodes(heap, head) \subseteq DOMAIN heap
  BY VisitedNodes DEF ListNodes
<1>3. WeightMod - 1 \in 0 .. WeightMod - 1
  BY ConstantTypes
<1>4. T \subseteq 0 .. WeightMod - 1 /\ T # {}
  BY <1>1, <1>2, <1>3
<1>5. T \in SUBSET Nat
  BY <1>4, ConstantTypes
<1>6. \E d \in T : \A w \in T : d <= w
  BY <1>4, <1>5, LeastElement
<1>7. LowestSavedDistance(heap, head, mac) = CHOOSE d \in T : \A w \in T : d <= w
  BY DEF LowestSavedDistance
<1> HIDE DEF T
<1> QED
  BY <1>4, <1>6, <1>7

\* The heap that LinkSubject pushes the subject on.
Prepared(c, n, weight) ==
    IF ptr[c] = NULL
    THEN NewNode(heap, n, Subject(c).local, Subject(c).remote, weight, now)
    ELSE [heap EXCEPT ![n].linkweight = weight, ![n].ID = now]

\* It is typed, and the nodes it had lead where they led.
LEMMA PreparedType ==
    ASSUME TypeInv, NEW c \in Conns, pc[c] = "member",
           NEW n \in Nat \ {0}, ptr[c] # NULL => n = ptr[c],
           NEW weight \in 0 .. WeightMod - 1
    PROVE  /\ DOMAIN Prepared(c, n, weight) = DOMAIN heap \cup {n}
           /\ Prepared(c, n, weight) \in [DOMAIN heap \cup {n} -> Nodes]
           /\ \A m \in DOMAIN heap \cup {n} :
                 Prepared(c, n, weight)[m].next \in DOMAIN heap \cup {n, NULL}
           /\ (n \notin DOMAIN heap \/ ptr[c] # NULL) =>
                 \A m \in DOMAIN heap : Prepared(c, n, weight)[m].next = heap[m].next
<1> DEFINE s == Subject(c)
           h == Prepared(c, n, weight)
<1>1. s.local \in Infos /\ s.remote \in Infos
  BY SubjectType
<1>2. HeapOK /\ now \in Nat /\ ptr[c] \in DOMAIN heap \cup {NULL}
  BY DEF TypeInv, TypeOK, ReaderOK
<1> HIDE DEF s
<1>3. CASE ptr[c] = NULL
  <2>1. h = NewNode(heap, n, s.local, s.remote, weight, now)
    BY <1>3 DEF Prepared, s
  <2> HIDE DEF h
  <2>2. /\ DOMAIN NewNode(heap, n, s.local, s.remote, weight, now) = DOMAIN heap \cup {n}
        /\ NewNode(heap, n, s.local, s.remote, weight, now)
              \in [DOMAIN NewNode(heap, n, s.local, s.remote, weight, now) -> Nodes]
        /\ \A m \in DOMAIN NewNode(heap, n, s.local, s.remote, weight, now) :
              NewNode(heap, n, s.local, s.remote, weight, now)[m].next
                 \in DOMAIN NewNode(heap, n, s.local, s.remote, weight, now) \cup {NULL}
    BY <1>1, <1>2, NewNodeType
  <2>3. n \notin DOMAIN heap => \A m \in DOMAIN heap : h[m].next = heap[m].next
    BY <2>1 DEF NewNode
  <2>4. /\ DOMAIN h = DOMAIN heap \cup {n}
        /\ h \in [DOMAIN h -> Nodes]
        /\ \A m \in DOMAIN h : h[m].next \in DOMAIN h \cup {NULL}
    BY <2>1, <2>2, Zenon
  <2> QED
    BY <1>3, <2>3, <2>4 DEF h
<1>4. CASE ptr[c] # NULL
  <2>1. /\ n \in DOMAIN heap /\ heap \in [DOMAIN heap -> Nodes]
        /\ \A m \in DOMAIN heap : heap[m].next \in DOMAIN heap \cup {NULL}
    BY <1>2, <1>4 DEF HeapOK
  <2>2. h = [heap EXCEPT ![n].linkweight = weight, ![n].ID = now]
    BY <1>4 DEF Prepared
  <2> HIDE DEF h
  <2>3. DOMAIN h = DOMAIN heap
    BY <2>2
  <2>4. \A m \in DOMAIN heap : h[m] \in Nodes /\ h[m].next = heap[m].next
    BY <1>2, <2>1, <2>2 DEF Nodes
  <2>5. h \in [DOMAIN h -> Nodes]
    BY <2>2, <2>3, <2>4
  <2> QED
    BY <2>1, <2>3, <2>4, <2>5 DEF h
<1> QED
  BY <1>3, <1>4

\* The subject becomes a typed node at the head of the list.
LEMMA LinkSubjectType ==
    ASSUME TypeInv, NEW c \in Conns, pc[c] = "member",
           NEW n \in Nat \ {0}, ptr[c] # NULL => n = ptr[c],
           NEW weight \in 0 .. WeightMod - 1, LinkSubject(c, n, weight)
    PROVE  /\ DOMAIN heap' = DOMAIN heap \cup {n}
           /\ heap' \in [DOMAIN heap' -> Nodes]
           /\ \A m \in DOMAIN heap' : heap'[m].next \in DOMAIN heap' \cup {NULL}
<1>0. /\ Prepared(c, n, weight) \in [DOMAIN heap \cup {n} -> Nodes]
      /\ \A m \in DOMAIN heap \cup {n} :
            Prepared(c, n, weight)[m].next \in DOMAIN heap \cup {n, NULL}
  BY PreparedType
<1> DEFINE h == Prepared(c, n, weight)
<1>1. heap' = Push(h, head, n)
  BY DEF LinkSubject, Prepared
<1>2. /\ DOMAIN h = DOMAIN heap \cup {n}
      /\ h \in [DOMAIN h -> Nodes]
      /\ \A m \in DOMAIN h : h[m].next \in DOMAIN h \cup {NULL}
  <2> HIDE DEF h
  <2>1. h = Prepared(c, n, weight)
    BY DEF h
  <2> QED
    BY <1>0, <2>1
<1>3. DOMAIN h \subseteq Nat /\ head \in DOMAIN h \cup {NULL}
  BY <1>2 DEF TypeInv, TypeOK, HeapOK
<1> HIDE DEF h
<1> QED
  BY <1>1, <1>2, <1>3, PushType

\* The thread of c goes through the nodes of a packet.
LEMMA AddMembersTypeInv ==
    ASSUME TypeInv, NEW c \in Conns, AddMembers(c)
    PROVE  TypeInv'
<1>0. /\ HeapOK /\ ReaderOK /\ Positions
      /\ up \in {"running", "exited", "killed", "crashed"} /\ now \in Nat
      /\ deleterlock \in Conns \cup {Timer, NoThread}
      /\ head \in DOMAIN heap \cup {NULL} /\ size \in Int
      /\ heap \in [DOMAIN heap -> Nodes]
      /\ \A m \in DOMAIN heap : heap[m].next \in DOMAIN heap \cup {NULL}
  BY TypeParts
<1>1. ASSUME MembersNext(c) PROVE TypeInv'
  <2>1. /\ pc' = [pc EXCEPT ![c] = "memberlock"]
        /\ UNCHANGED <<up, now, heap, head, size, socketfds, alloc, deleterlock, from,
                       recvd, pos, reroute, greeted, gone, timer, sender>>
    BY <1>1 DEF MembersNext, Goto, shared
  <2>2. /\ ptr[c] = NULL => pos[c] <= Len(recvd[c]) /\ ptr' = ptr
        /\ ptr[c] # NULL => /\ ptr' = [ptr EXCEPT ![c] = heap[ptr[c]].next]
                            /\ heap[ptr[c]].next # NULL
    BY <1>1 DEF MembersNext
  <2>3. ptr \in [Conns -> DOMAIN heap \cup {NULL}]
    BY <1>0 DEF ReaderOK
  <2>4. ptr' \in [Conns -> DOMAIN heap \cup {NULL}]
    BY <1>0, <2>2, <2>3
  <2>5. ReaderOK'
    BY <1>0, <2>1, <2>4 DEF ReaderOK
  <2>6. Positions'
    <3>1. ptr'[c] = NULL => pos[c] \in 1 .. Len(recvd[c])
      <4>1. pos[c] \in Nat \ {0} /\ Len(recvd[c]) \in Nat
        BY <1>0 DEF ReaderOK
      <4> QED
        BY <2>2, <2>3, <4>1
    <3>2. \A d \in Conns \ {c} : pc'[d] = pc[d] /\ ptr'[d] = ptr[d]
      BY <1>0, <2>1, <2>2, <2>3 DEF ReaderOK
    <3>3. pc'[c] = "memberlock"
      BY <1>0, <2>1 DEF ReaderOK
    <3> QED
      BY <1>0, <2>1, <3>1, <3>2, <3>3 DEF Positions
  <2> QED
    BY <1>0, <2>1, <2>5, <2>6, LocalTypeInv
<1>2. ASSUME MembersDone(c) PROVE TypeInv'
  <2>1. /\ pc' = [pc EXCEPT ![c] = "recv"] /\ recvd' = [recvd EXCEPT ![c] = <<>>]
        /\ pos' = [pos EXCEPT ![c] = 1] /\ ptr' = [ptr EXCEPT ![c] = NULL]
        /\ UNCHANGED reroute
        /\ UNCHANGED <<up, now, heap, head, size, socketfds, alloc, deleterlock, from,
                       greeted, gone, timer, sender>>
    BY <1>2 DEF MembersDone, Return, Goto, shared
  <2>2. ReaderOK' /\ Positions'
    BY <2>1, ReturnTypeInv
  <2> QED
    BY <1>0, <2>1, <2>2, LocalTypeInv
<1>3. ASSUME MembersWild(c) \/ OutOfMemory(c) PROVE TypeInv'
  <2>1. up' = "crashed" /\ UNCHANGED <<now, shared, reader, timer, sender>>
    BY <1>3 DEF MembersWild, OutOfMemory
  <2>2. ReaderOK' /\ Positions'
    BY <1>0, <2>1 DEF ReaderOK, Positions, reader, shared
  <2> QED
    BY <1>0, <2>1, <2>2, LocalTypeInv DEF shared
<1>4. ASSUME MemberSpin(c) PROVE TypeInv'
  <2>1. /\ pc[c] = "member" /\ pc' = [pc EXCEPT ![c] = "spin"]
        /\ UNCHANGED <<up, now, heap, head, size, socketfds, alloc, deleterlock, from,
                       recvd, pos, ptr, reroute, greeted, gone, timer, sender>>
    BY <1>4 DEF MemberSpin, At, Goto, shared
  <2>2. ReaderOK'
    BY <1>0, <2>1 DEF ReaderOK
  <2>3. Positions'
    BY <1>0, <2>1 DEF ReaderOK, Positions
  <2> QED
    BY <1>0, <2>1, <2>2, <2>3, LocalTypeInv
<1>5. ASSUME MemberKnown(c) \/ MemberRefresh(c) PROVE TypeInv'
  <2>1. /\ pos' \in {pos, [pos EXCEPT ![c] = @ + 1]}
        /\ pc' = [pc EXCEPT ![c] = "members"] /\ deleterlock' = NoThread
        /\ heap' \in {heap, [heap EXCEPT ![Finder(c)].ID = now]}
        /\ UNCHANGED <<up, now, head, size, socketfds, alloc, from, recvd, ptr, reroute,
                       greeted, gone, timer, sender>>
    BY <1>5 DEF MemberKnown, MemberRefresh, Skip, Unlock, Goto
  <2>2. \A m \in DOMAIN heap : heap'[m] \in Nodes /\ heap'[m].next = heap[m].next
    BY <1>0, <2>1 DEF Nodes
  <2>3. DOMAIN heap' = DOMAIN heap /\ heap' \in [DOMAIN heap -> Nodes]
    BY <1>0, <2>1, <2>2
  <2>4. ReaderOK'
    <3>1. pos' \in [Conns -> Nat \ {0}]
      BY <1>0, <2>1 DEF ReaderOK
    <3>2. pc' \in [Conns -> {"recv", "addsock", "joinlock", "insert", "count", "reply",
                             "truncate", "members", "memberlock", "member",
                             "membercount", "spin"}]
      BY <1>0, <2>1 DEF ReaderOK
    <3> QED
      BY <1>0, <2>1, <2>3, <3>1, <3>2 DEF ReaderOK
  <2>5. Positions'
    BY <1>0, <2>1 DEF ReaderOK, Positions
  <2> QED
    BY <1>0, <2>1, <2>2, <2>3, <2>4, <2>5, StepTypeInv
<1>7. ASSUME NEW n \in Nat \ {0}, ptr[c] # NULL => n = ptr[c],
             NEW weight \in 0 .. WeightMod - 1, LinkSubject(c, n, weight), pc[c] = "member",
             alloc <= alloc', alloc' \in Nat, n <= alloc',
             socketfds' \in [DOMAIN socketfds' -> Entries],
             DOMAIN socketfds' \subseteq 1 .. alloc', reroute' \in [Conns -> Nat],
             UNCHANGED <<up, now, from, recvd, pos, greeted, gone, timer, sender>>
      PROVE  TypeInv'
  <2>1. /\ DOMAIN heap' = DOMAIN heap \cup {n}
        /\ heap' \in [DOMAIN heap' -> Nodes]
        /\ \A m \in DOMAIN heap' : heap'[m].next \in DOMAIN heap' \cup {NULL}
    BY <1>7, LinkSubjectType
  <2>2. /\ head' = n /\ ptr' = [ptr EXCEPT ![c] = n]
        /\ pc' = [pc EXCEPT ![c] = "membercount"] /\ UNCHANGED <<size, deleterlock>>
    BY <1>7 DEF LinkSubject, Goto
  <2>3. alloc \in Nat /\ DOMAIN heap \subseteq 1 .. alloc /\ size \in Int
    BY DEF TypeInv, TypeOK, HeapOK
  <2>4. 1 <= n
    OBVIOUS
  <2>5. DOMAIN heap' \subseteq 1 .. alloc'
    BY <1>7, <2>1, <2>3, <2>4, GrowRange
  <2>6. HeapOK'
    BY <1>7, <2>1, <2>2, <2>3, <2>5 DEF HeapOK
  <2>7. TableOK'
    BY <1>7 DEF TableOK
  <2>8. ReaderOK' /\ Positions'
    BY <1>7, <2>1, <2>2 DEF TypeInv, TypeOK, ReaderOK, Positions
  <2>9. TimerOK' /\ SenderOK' /\ Standing'
    BY <1>7, <2>1 DEF TypeInv, TypeOK, TimerOK, SenderOK, Standing, timer, sender
  <2> QED
    BY <1>7, <2>2, <2>6, <2>7, <2>8, <2>9 DEF TypeInv, TypeOK
<1>8. ASSUME MemberNew(c) PROVE TypeInv'
  <2> DEFINE n == IF ptr[c] = NULL THEN alloc + 2 ELSE ptr[c]
             weight == (Subject(c).linkweight + 1) % WeightMod
  <2>1. /\ pc[c] = "member" /\ alloc' = alloc + 2
        /\ socketfds' = addsockfd(socketfds, alloc + 1, Subject(c).remote.macaddr, c)
        /\ LinkSubject(c, n, weight)
        /\ UNCHANGED <<up, now, from, recvd, pos, reroute, greeted, gone, timer, sender>>
    BY <1>8 DEF MemberNew, LinkSubject, At
  <2>2. /\ alloc \in Nat /\ ptr[c] \in DOMAIN heap \cup {NULL}
        /\ DOMAIN heap \subseteq 1 .. alloc /\ DOMAIN socketfds \subseteq 1 .. alloc
        /\ socketfds \in [DOMAIN socketfds -> Entries] /\ reroute \in [Conns -> Nat]
    BY DEF TypeInv, TypeOK, HeapOK, TableOK, ReaderOK
  <2>3. /\ alloc <= alloc' /\ alloc' \in Nat /\ alloc + 1 \in Nat
        /\ 1 <= alloc + 1 /\ alloc + 1 <= alloc'
    BY <2>1, <2>2
  <2>4. n \in Nat \ {0} /\ n <= alloc'
    BY <2>1, <2>2
  <2>5. weight \in 0 .. WeightMod - 1
    <3>1. Subject(c).linkweight \in Nat /\ WeightMod \in Nat \ {0}
      BY <2>1, SubjectType, ConstantTypes
    <3> QED
      BY <3>1
  <2>6. /\ DOMAIN socketfds' = DOMAIN socketfds \cup {alloc + 1}
        /\ socketfds' \in [DOMAIN socketfds \cup {alloc + 1} -> Entries]
    BY <2>1, <2>2, SubjectType, addsockfdType
  <2>7. DOMAIN socketfds' \subseteq 1 .. alloc'
    BY <2>2, <2>3, <2>6, GrowRange
  <2>8. ptr[c] # NULL => n = ptr[c]
    OBVIOUS
  <2> HIDE DEF n, weight
  <2> QED
    BY <1>7, <2>1, <2>2, <2>3, <2>4, <2>5, <2>6, <2>7, <2>8
<1>9. ASSUME MemberRelink(c) PROVE TypeInv'
  <2> DEFINE n == IF ptr[c] = NULL THEN alloc + 1 ELSE ptr[c]
             d == LowestSavedDistance(heap, head, Subject(c).local.macaddr)
             weight == (Subject(c).linkweight + d) % WeightMod
  <2>1. /\ pc[c] = "member" /\ alloc' = IF ptr[c] = NULL THEN n ELSE alloc
        /\ \E e \in {Listed(c), NULL} : reroute' = [reroute EXCEPT ![c] = e]
        /\ LinkSubject(c, n, weight)
        /\ UNCHANGED <<up, now, socketfds, from, recvd, pos, greeted, gone, timer, sender>>
    BY <1>9 DEF MemberRelink, LinkSubject, At
  <2>2. /\ alloc \in Nat /\ ptr[c] \in DOMAIN heap \cup {NULL}
        /\ DOMAIN heap \subseteq 1 .. alloc /\ DOMAIN socketfds \subseteq 1 .. alloc
        /\ socketfds \in [DOMAIN socketfds -> Entries] /\ reroute \in [Conns -> Nat]
    BY DEF TypeInv, TypeOK, HeapOK, TableOK, ReaderOK
  <2>3. n \in Nat \ {0} /\ n <= alloc' /\ alloc <= alloc' /\ alloc' \in Nat
    BY <2>1, <2>2
  <2>4. weight \in 0 .. WeightMod - 1
    <3>1. Subject(c).linkweight \in Nat /\ WeightMod \in Nat \ {0}
      BY <2>1, SubjectType, ConstantTypes
    <3>2. d \in 0 .. WeightMod - 1
      BY DistanceType DEF TypeInv, TypeOK
    <3> HIDE DEF d
    <3> QED
      BY <3>1, <3>2
  <2>5. reroute' \in [Conns -> Nat]
    <3>1. Listed(c) \in DOMAIN socketfds \cup {NULL}
      BY <2>2, FindMatches DEF Listed, Matches
    <3>2. Listed(c) \in Nat
      BY <2>2, <3>1 DEF NULL
    <3> QED
      BY <2>1, <2>2, <3>2 DEF NULL
  <2>6. socketfds' \in [DOMAIN socketfds' -> Entries]
    BY <2>1, <2>2
  <2>7. DOMAIN socketfds' \subseteq 1 .. alloc'
    <3>1. \A m \in 1 .. alloc : m \in 1 .. alloc'
      BY <2>2, <2>3
    <3> QED
      BY <2>1, <2>2, <3>1
  <2>8. ptr[c] # NULL => n = ptr[c]
    OBVIOUS
  <2> HIDE DEF n, weight
  <2> QED
    BY <1>7, <2>1, <2>3, <2>4, <2>5, <2>6, <2>7, <2>8
<1>10. ASSUME MemberCount(c) PROVE TypeInv'
  <2>1. /\ size' = size + 1 /\ deleterlock' = NoThread
        /\ pc' = [pc EXCEPT ![c] = "members"] /\ reroute' = [reroute EXCEPT ![c] = NULL]
        /\ socketfds' = [e \in DOMAIN socketfds |->
               IF e = reroute[c] THEN [socketfds[e] EXCEPT !.sock_fd = c] ELSE socketfds[e]]
        /\ UNCHANGED <<up, now, heap, head, alloc, from, recvd, pos, ptr, greeted, gone,
                       timer, sender>>
    BY <1>10 DEF MemberCount, Unlock, Goto
  <2>2. TableOK'
    <3>1. /\ DOMAIN socketfds \subseteq 1 .. alloc
          /\ socketfds \in [DOMAIN socketfds -> Entries]
      BY DEF TypeInv, TypeOK, TableOK
    <3>2. \A e \in DOMAIN socketfds : socketfds'[e] \in Entries
      BY <2>1, <3>1 DEF Entries
    <3>3. DOMAIN socketfds' = DOMAIN socketfds /\ socketfds' \in [DOMAIN socketfds -> Entries]
      BY <2>1, <3>2
    <3> QED
      BY <2>1, <3>1, <3>3 DEF TableOK
  <2>3. HeapOK'
    BY <1>0, <2>1 DEF HeapOK
  <2>4. ReaderOK' /\ Positions'
    BY <1>0, <2>1 DEF ReaderOK, Positions, NULL
  <2>5. TimerOK' /\ SenderOK' /\ Standing'
    BY <2>1 DEF TypeInv, TypeOK, TimerOK, SenderOK, Standing, timer, sender
  <2> QED
    BY <1>0, <2>1, <2>2, <2>3, <2>4, <2>5 DEF TypeInv, TypeOK
<1> QED
  BY <1>1, <1>2, <1>3, <1>4, <1>5, <1>8, <1>9, <1>10 DEF AddMembers

\* Unlinking a node keeps the type of the heap.
LEMMA UnlinkType ==
    ASSUME NEW h, h \in [DOMAIN h -> Nodes],
           \A m \in DOMAIN h : h[m].next \in DOMAIN h \cup {NULL},
           NEW hd, NEW stop, NEW x \in DOMAIN h
    PROVE  /\ DOMAIN Unlink(h, hd, stop, x) = DOMAIN h
           /\ Unlink(h, hd, stop, x) \in [DOMAIN h -> Nodes]
           /\ \A m \in DOMAIN h : Unlink(h, hd, stop, x)[m].next \in DOMAIN h \cup {NULL}
<1> DEFINE u == Unlink(h, hd, stop, x)
<1>1. \A m \in DOMAIN h : /\ h[m] \in Nodes
                           /\ u[m] \in {h[m], [h[m] EXCEPT !.next = h[x].next]}
  BY DEF Unlink
<1>2. DOMAIN u = DOMAIN h /\ u = [m \in DOMAIN h |-> u[m]]
  BY DEF Unlink
<1> HIDE DEF u
<1>3. h[x].next \in Nat /\ h[x].next \in DOMAIN h \cup {NULL}
  BY <1>1 DEF Nodes
<1>4. \A m \in DOMAIN h : u[m] \in Nodes /\ u[m].next \in DOMAIN h \cup {NULL}
  BY <1>1, <1>3 DEF Nodes
<1>5. u \in [DOMAIN h -> Nodes]
  BY <1>2, <1>4
<1> QED
  BY <1>2, <1>4, <1>5 DEF u

\* The thread that deletes expired members.
LEMMA TimerTypeInv ==
    ASSUME TypeInv, TimerLock \/ CheckLinkTimeOut
    PROVE  TypeInv'
<1>1. ASSUME TimerLock \/ TimerKeep \/ TimerDone PROVE TypeInv'
  <2>1. /\ UNCHANGED <<up, now, heap, head, size, socketfds, alloc, reader, sender>>
        /\ deleterlock' \in {deleterlock, Timer, NoThread}
    BY <1>1 DEF TimerLock, TimerKeep, TimerDone, Lock, Unlock, shared
  <2>2. HeapOK' /\ TableOK'
    BY <2>1 DEF TypeInv, TypeOK, HeapOK, TableOK
  <2>3. ReaderOK' /\ Positions'
    BY <2>1 DEF TypeInv, TypeOK, ReaderOK, Positions, reader
  <2>4. SenderOK'
    BY <2>1 DEF TypeInv, TypeOK, SenderOK, sender
  <2>5. TimerOK'
    <3>1. tptr' \in DOMAIN heap \cup {NULL}
      BY <1>1 DEF TimerLock, TimerKeep, TimerDone, TypeInv, TypeOK, HeapOK, TimerOK
    <3>2. ttime' \in Nat /\ tpc' \in {"sleep", "expire"}
      BY <1>1 DEF TimerLock, TimerKeep, TimerDone, TypeInv, TypeOK, TimerOK
    <3> QED
      BY <2>1, <3>1, <3>2 DEF TimerOK
  <2>6. Standing'
    BY <1>1 DEF TimerLock, TimerKeep, TimerDone, Standing
  <2> QED
    BY <2>1, <2>2, <2>3, <2>4, <2>5, <2>6 DEF TypeInv, TypeOK
<1>2. ASSUME TimerDelete PROVE TypeInv'
  <2> DEFINE mac  == heap[tptr].remote.macaddr
             same == SameRemote(heap, mac)
             x    == FirstOf(heap, head, same)
             ends == Terminates(heap, head, same)
  <2>1. /\ tptr # NULL
        /\ tpc' \in {"count", "expire", "spin"}
        /\ tptr' \in {heap[tptr].next, tptr} /\ (tpc' = "count" => tptr' = tptr)
        /\ UNCHANGED <<up, now, size, alloc, reader, ttime, sender>>
    BY <1>2 DEF TimerDelete
  <2>2. \/ UNCHANGED <<heap, head, socketfds, deleterlock>>
        \/ /\ x # NULL
           /\ socketfds' = deletesockfd(socketfds, mac)
           /\ deleterlock' \in {NoThread, deleterlock}
           /\ heap' = Unlink(heap, head, same, x)
           /\ head' = IF x = head THEN heap[x].next ELSE head
    BY <1>2 DEF TimerDelete, Unlock
  <2>3. x \in DOMAIN heap \cup {NULL}
    BY FirstOfType
  <2> HIDE DEF mac, same, x, ends
  <2>4. HeapOK /\ TableOK
    BY DEF TypeInv, TypeOK
  <2>5. /\ DOMAIN heap' = DOMAIN heap
        /\ heap' \in [DOMAIN heap -> Nodes]
        /\ \A m \in DOMAIN heap : heap'[m].next \in DOMAIN heap \cup {NULL}
    <3>1. /\ heap \in [DOMAIN heap -> Nodes]
          /\ \A m \in DOMAIN heap : heap[m].next \in DOMAIN heap \cup {NULL}
      BY <2>4 DEF HeapOK
    <3>2. CASE heap' = heap
      BY <3>1, <3>2
    <3>3. CASE x # NULL /\ heap' = Unlink(heap, head, same, x)
      BY <2>3, <3>1, <3>3, UnlinkType
    <3> QED
      BY <2>2, <3>2, <3>3
  <2>6. head' \in DOMAIN heap \cup {NULL} /\ size' \in Int
    BY <2>1, <2>2, <2>3, <2>4 DEF HeapOK
  <2>7. HeapOK'
    BY <2>1, <2>4, <2>5, <2>6 DEF HeapOK
  <2>8. TableOK'
    <3>1. /\ DOMAIN socketfds' \subseteq DOMAIN socketfds
          /\ socketfds' \in [DOMAIN socketfds' -> Entries]
      BY <2>2, <2>4 DEF TableOK, deletesockfd
    <3> QED
      BY <2>1, <2>4, <3>1 DEF TableOK
  <2>9. ReaderOK' /\ Positions'
    BY <2>1, <2>5 DEF TypeInv, TypeOK, ReaderOK, Positions, reader
  <2>10. TimerOK'
    <3>1. tptr \in DOMAIN heap /\ ttime \in Nat
      BY <2>1 DEF TypeInv, TypeOK, TimerOK
    <3> QED
      BY <2>1, <2>4, <2>5, <3>1 DEF TimerOK, HeapOK
  <2>11. SenderOK'
    BY <2>1, <2>5 DEF TypeInv, TypeOK, SenderOK, sender
  <2>12. deleterlock' \in Conns \cup {Timer, NoThread}
    BY <2>2 DEF TypeInv, TypeOK
  <2>13. Standing'
    BY <2>1 DEF Standing
  <2> QED
    BY <2>1, <2>7, <2>8, <2>9, <2>10, <2>11, <2>12, <2>13 DEF TypeInv, TypeOK
<1>3. ASSUME TimerCount PROVE TypeInv'
  <2>1. /\ tpc = "count" /\ size' = size - 1 /\ tpc' = "expire" /\ tptr' = heap[tptr].next
        /\ UNCHANGED <<up, now, heap, head, socketfds, alloc, deleterlock, reader, ttime,
                       sender>>
    BY <1>3 DEF TimerCount
  <2>2. HeapOK' /\ TableOK'
    BY <2>1 DEF TypeInv, TypeOK, HeapOK, TableOK
  <2>3. ReaderOK' /\ Positions'
    BY <2>1 DEF TypeInv, TypeOK, ReaderOK, Positions, reader
  <2>4. TimerOK' /\ Standing'
    <3>1. tptr \in DOMAIN heap
      BY <2>1 DEF TypeInv, TypeOK, TimerOK, Standing
    <3> QED
      BY <2>1, <3>1 DEF TypeInv, TypeOK, TimerOK, HeapOK, Standing
  <2>5. SenderOK'
    BY <2>1 DEF TypeInv, TypeOK, SenderOK, sender
  <2> QED
    BY <2>1, <2>2, <2>3, <2>4, <2>5 DEF TypeInv, TypeOK
<1> QED
  BY <1>1, <1>2, <1>3 DEF CheckLinkTimeOut

\* The thread that floods the list, which writes nothing but its own locals.
LEMMA SenderTypeInv ==
    ASSUME TypeInv, SendPackets
    PROVE  TypeInv'
<1>1. /\ UNCHANGED <<now, shared, reader, timer>>
      /\ up' \in {up, "crashed"}
  BY DEF SendPackets, SendCheck, SendLength, SendList, SendTo, SendDone, SendCrash
<1>2. HeapOK' /\ TableOK'
  BY <1>1 DEF TypeInv, TypeOK, HeapOK, TableOK, shared
<1>3. ReaderOK' /\ Positions'
  BY <1>1 DEF TypeInv, TypeOK, ReaderOK, Positions, reader, shared
<1>4. TimerOK' /\ Standing'
  BY <1>1 DEF TypeInv, TypeOK, TimerOK, Standing, timer, shared
<1>5. SenderOK'
  <2>1. head \in DOMAIN heap \cup {NULL} /\ size \in Int /\ DOMAIN socketfds \subseteq Nat
    BY DEF TypeInv, TypeOK, HeapOK, TableOK
  <2>2. SenderOK
    BY DEF TypeInv, TypeOK
  <2>3. UNCHANGED heap
    BY <1>1 DEF shared
  <2> QED
    BY <2>1, <2>2, <2>3 DEF SendPackets, SendCheck, SendLength, SendList, SendTo,
       SendDone, SendCrash, SenderOK, sender, NULL
<1> QED
  BY <1>1, <1>2, <1>3, <1>4, <1>5 DEF TypeInv, TypeOK, shared
-----------------------------------------------------------------------------
\* Every step keeps the types.
LEMMA NextTypeInv == TypeInv /\ [Next]_vars => TypeInv'
<1> SUFFICES ASSUME TypeInv, [Next]_vars PROVE TypeInv'
  OBVIOUS
<1>1. ASSUME Tick \/ UNCHANGED vars PROVE TypeInv'
  <2>1. /\ now' \in Nat
        /\ UNCHANGED <<up, heap, head, size, socketfds, alloc, deleterlock, reader, timer,
                       sender>>
    BY <1>1 DEF Tick, vars, shared, TypeInv, TypeOK
  <2>2. HeapOK' /\ TableOK'
    BY <2>1 DEF TypeInv, TypeOK, HeapOK, TableOK
  <2>3. ReaderOK' /\ Positions'
    BY <2>1 DEF TypeInv, TypeOK, ReaderOK, Positions, reader
  <2>4. TimerOK' /\ SenderOK' /\ Standing'
    BY <2>1 DEF TypeInv, TypeOK, TimerOK, SenderOK, Standing, timer, sender
  <2> QED
    BY <2>1, <2>2, <2>3, <2>4 DEF TypeInv, TypeOK
<1>2. ASSUME NEW c \in Conns, TCPHandle(c) PROVE TypeInv'
  BY <1>2, RecvTypeInv, JoinTypeInv, AddMembersTypeInv DEF TCPHandle
<1> QED
  BY <1>1, <1>2, TimerTypeInv, SenderTypeInv DEF Next, Down

\* Whatever the network sends and however its threads interleave, the variables
\* of the process keep their types: each pointer a thread reads unlocked and uses
\* later is NULL or the address of a node.
THEOREM TypeCorrect == Spec => []TypeOK
<1>1. TypeInv => TypeOK
  BY DEF TypeInv
<1> QED
  BY <1>1, InitTypeInv, NextTypeInv, PTL DEF Spec
-----------------------------------------------------------------------------
(***************************************************************************)
(* Cycles.  A node whose join waits for the mutex is known to its thread   *)
(* alone, so its insertion cannot close one, whatever the others do.       *)
(***************************************************************************)
Waits(d) == pc[d] \in {"joinlock", "insert"}

Fresh(d) ==
    /\ ptr[d] \in DOMAIN heap /\ ptr[d] # head
    /\ \A m \in DOMAIN heap : heap[m].next # ptr[d]
    /\ \A c \in Conns \ {d} : ptr[c] # ptr[d]

FreshInv == \A d \in Conns : Waits(d) => Fresh(d)

\* The steps that CycleOnlyByRelink allows.
Ending == Terminates(heap, head, {})
Relinks(c) == pc[c] = "member" /\ ptr[c] \in ListNodes(heap, head) /\ head' = ptr[c]
CycleStep == Ending /\ ~Ending' => \E c \in Conns : Relinks(c)

\* The parts of the type invariant that the traversal lemmas rely on.
LEMMA WiredHeap ==
    ASSUME TypeInv
    PROVE  /\ Wired(heap) /\ NULL \notin DOMAIN heap /\ heap \in [DOMAIN heap -> Nodes]
           /\ head \in DOMAIN heap \cup {NULL}
           /\ alloc \in Nat /\ DOMAIN heap \subseteq 1 .. alloc
           /\ ptr \in [Conns -> DOMAIN heap \cup {NULL}]
           /\ DOMAIN pc = Conns /\ DOMAIN ptr = Conns
<1>1. /\ alloc \in Nat /\ DOMAIN heap \subseteq 1 .. alloc
      /\ heap \in [DOMAIN heap -> Nodes] /\ head \in DOMAIN heap \cup {NULL}
      /\ \A n \in DOMAIN heap : heap[n].next \in DOMAIN heap \cup {NULL}
  BY DEF TypeInv, TypeOK, HeapOK
<1>2. /\ ptr \in [Conns -> DOMAIN heap \cup {NULL}]
      /\ DOMAIN pc = Conns /\ DOMAIN ptr = Conns
  BY DEF TypeInv, TypeOK, ReaderOK
<1> QED
  BY <1>1, <1>2 DEF Wired, NULL

\* A step that leaves the list and its nodes alone; its thread may follow a pointer.
LEMMA LocalCycle ==
    ASSUME TypeInv, FreshInv, UNCHANGED <<heap, head>>, NEW c \in Conns,
           NEW l, l # "joinlock", l = "insert" => Waits(c) /\ UNCHANGED ptr,
           pc' = [pc EXCEPT ![c] = l],
           \/ UNCHANGED ptr
           \/ ptr' = [ptr EXCEPT ![c] = NULL]
           \/ ptr' = [ptr EXCEPT ![c] = head]
           \/ ptr[c] # NULL /\ ptr' = [ptr EXCEPT ![c] = heap[ptr[c]].next]
    PROVE  FreshInv' /\ CycleStep
<1>1. ASSUME NEW d \in Conns, Waits(d)' PROVE Fresh(d)'
  <2>1. Waits(d) /\ Fresh(d) /\ ptr'[d] = ptr[d]
    BY <1>1, WiredHeap DEF FreshInv, Waits
  <2>2. ptr[d] # NULL
    BY <2>1, WiredHeap DEF Fresh
  <2>3. ASSUME NEW e \in Conns \ {d} PROVE ptr'[e] # ptr[d]
    BY <2>1, <2>2, WiredHeap DEF Fresh
  <2> QED
    BY <2>1, <2>3 DEF Fresh
<1> QED
  BY <1>1 DEF FreshInv, CycleStep, Ending

\* A step of another thread that leaves them alone.
LEMMA IdleCycle ==
    ASSUME FreshInv, UNCHANGED <<heap, head, pc, ptr>>
    PROVE  FreshInv' /\ CycleStep
BY DEF FreshInv, Waits, Fresh, CycleStep, Ending

\* A packet arrives or the connection falls silent.
LEMMA RecvCycle ==
    ASSUME TypeInv, FreshInv, NEW c \in Conns, Recv(c)
    PROVE  FreshInv' /\ CycleStep
<1>1. CASE RecvKnown(c) \/ RecvJoin(c) \/ RecvIgnored(c)
  <2>1. /\ UNCHANGED <<heap, head>>
        /\ \E l \in {"members", "addsock", "recv"} : pc' = [pc EXCEPT ![c] = l]
        /\ ptr' \in {ptr, [ptr EXCEPT ![c] = NULL]}
    BY <1>1 DEF RecvKnown, RecvJoin, RecvIgnored, Receive, Return, Goto, shared
  <2> QED
    BY <2>1, LocalCycle
<1>2. CASE RecvLeave(c) \/ LostConnection(c) \/ RecvQuit(c) \/ RecvEmpty(c)
  <2>1. UNCHANGED <<heap, head, pc, ptr>>
    BY <1>2 DEF RecvLeave, LostConnection, Silence, RecvQuit, RecvEmpty, shared, reader
  <2> QED
    BY <2>1, IdleCycle
<1> QED
  BY <1>1, <1>2 DEF Recv

\* A node whose address nobody has yet.
LEMMA JoinAddCycle ==
    ASSUME TypeInv, FreshInv, NEW c \in Conns, JoinAdd(c)
    PROVE  FreshInv' /\ CycleStep
<1>1. TypeInv'
  BY JoinAddTypeInv
<1>2. PICK local, remote : heap' = NewNode(heap, alloc + 2, local, remote, 1, now)
  BY DEF JoinAdd
<1>3. /\ alloc' = alloc + 2 /\ ptr' = [ptr EXCEPT ![c] = alloc + 2]
      /\ pc' = [pc EXCEPT ![c] = "joinlock"] /\ UNCHANGED head
  BY DEF JoinAdd, Goto
<1>4. /\ alloc + 2 \notin DOMAIN heap \cup {NULL}
      /\ DOMAIN heap' = DOMAIN heap \cup {alloc + 2}
      /\ heap'[alloc + 2].next = NULL
      /\ \A m \in DOMAIN heap : heap'[m] = heap[m]
  <2>1. alloc + 2 \notin DOMAIN heap \cup {NULL}
    BY WiredHeap DEF NULL
  <2> QED
    BY <1>2, <2>1 DEF NewNode
<1>5. ASSUME NEW d \in Conns, Waits(d)' PROVE Fresh(d)'
  <2>1. CASE d = c
    <3>1. ptr'[d] = alloc + 2 /\ \A e \in Conns \ {d} : ptr'[e] = ptr[e]
      BY <1>3, <2>1, WiredHeap
    <3>2. \A m \in DOMAIN heap' : heap'[m].next # alloc + 2
      BY <1>4, WiredHeap DEF Wired
    <3>3. \A e \in Conns \ {d} : ptr[e] # alloc + 2
      BY <1>4, WiredHeap
    <3> QED
      BY <1>3, <1>4, <3>1, <3>2, <3>3, WiredHeap DEF Fresh
  <2>2. CASE d # c
    <3>1. Fresh(d) /\ ptr'[d] = ptr[d]
      BY <1>3, <1>5, <2>2, WiredHeap DEF FreshInv, Waits
    <3>2. ptr[d] # alloc + 2 /\ ptr[d] # NULL
      BY <1>4, <3>1, WiredHeap DEF Fresh
    <3>3. \A m \in DOMAIN heap' : heap'[m].next # ptr[d]
      BY <1>4, <3>1, <3>2 DEF Fresh
    <3>4. \A e \in Conns \ {d} : ptr'[e] # ptr[d]
      BY <1>3, <3>1, <3>2, WiredHeap DEF Fresh
    <3> QED
      BY <1>3, <1>4, <3>1, <3>3, <3>4 DEF Fresh
  <2> QED
    BY <2>1, <2>2
<1>6. Ending => Ending'
  <2>1. Wired(heap') /\ NULL \notin DOMAIN heap'
    BY <1>1, <1>4, WiredHeap DEF Wired
  <2> QED
    BY <1>3, <1>4, <2>1, WiredHeap, EndsKept DEF Ending
<1> QED
  BY <1>5, <1>6 DEF FreshInv, CycleStep

\* The node that waited is pushed.
LEMMA JoinInsertCycle ==
    ASSUME TypeInv, FreshInv, NEW c \in Conns, JoinInsert(c)
    PROVE  FreshInv' /\ CycleStep
<1> DEFINE n == ptr[c]
<1>1. /\ heap' = Push(heap, head, n) /\ head' = n
      /\ ptr' = [ptr EXCEPT ![c] = NULL]
      /\ pc' = [pc EXCEPT ![c] = "count"]
      /\ Fresh(c)
  BY DEF JoinInsert, Goto, At, FreshInv, Waits
<1>2. /\ n \in DOMAIN heap /\ DOMAIN heap' = DOMAIN heap /\ heap'[n].next = head
      /\ \A m \in DOMAIN heap \ {n} : heap'[m].next = heap[m].next
  BY <1>1, WiredHeap DEF Push, Nodes, Fresh
<1>3. ASSUME NEW d \in Conns, Waits(d)' PROVE Fresh(d)'
  <2>1. d # c /\ Fresh(d) /\ ptr'[d] = ptr[d]
    BY <1>1, <1>3, WiredHeap DEF FreshInv, Waits
  <2>2. ptr[d] # n /\ ptr[d] # NULL
    BY <2>1, WiredHeap DEF Fresh
  <2>3. \A e \in Conns \ {d} : ptr'[e] # ptr[d]
    BY <1>1, <2>1, <2>2, WiredHeap DEF Fresh
  <2> QED
    BY <1>1, <1>2, <2>1, <2>2, <2>3 DEF Fresh
<1>4. Ending => Ending'
  <2>1. n \notin ListNodes(heap, head)
    <3>1. ClosedUnder(heap, head, {}, DOMAIN heap \ {n})
      BY <1>1, WiredHeap DEF ClosedUnder, Fresh, Wired
    <3> QED
      BY <3>1, VisitedLeast DEF ListNodes
  <2> QED
    BY <1>1, <1>2, <2>1, WiredHeap, EndsPushed DEF Ending
<1> QED
  BY <1>3, <1>4 DEF FreshInv, CycleStep

\* A node loses its next pointer, or only its contents change.
LEMMA KeptCycle ==
    ASSUME TypeInv, FreshInv, TypeInv', NEW c \in Conns, NEW l \in {"recv", "members"},
           DOMAIN heap' = DOMAIN heap, UNCHANGED head,
           \A m \in DOMAIN heap : heap'[m].next \in {heap[m].next, NULL},
           pc' = [pc EXCEPT ![c] = l], ptr' \in {ptr, [ptr EXCEPT ![c] = NULL]}
    PROVE  FreshInv' /\ CycleStep
<1>1. ASSUME NEW d \in Conns, Waits(d)' PROVE Fresh(d)'
  <2>1. Fresh(d) /\ ptr'[d] = ptr[d] /\ ptr[d] # NULL
    BY <1>1, WiredHeap DEF FreshInv, Waits, Fresh
  <2>2. \A e \in Conns \ {d} : ptr'[e] # ptr[d]
    BY <2>1, WiredHeap DEF Fresh
  <2> QED
    BY <2>1, <2>2 DEF Fresh
<1>2. Wired(heap')
  BY WiredHeap DEF Wired
<1>3. Ending => Ending'
  BY <1>2, WiredHeap, EndsKept DEF Ending
<1> QED
  BY <1>1, <1>3 DEF FreshInv, CycleStep

\* A join takes a step.
LEMMA JoinCycle ==
    ASSUME TypeInv, FreshInv, NEW c \in Conns, Join(c) \/ JoinLock(c) \/ MemberLock(c)
    PROVE  FreshInv' /\ CycleStep
<1>1. CASE ReplySend(c)
  <2>1. /\ heap' = [heap EXCEPT ![ptr[c]].next = NULL] /\ UNCHANGED head
        /\ pc' = [pc EXCEPT ![c] = "recv"] /\ ptr' = [ptr EXCEPT ![c] = NULL]
    BY <1>1 DEF ReplySend, Return, Goto
  <2>2. /\ DOMAIN heap' = DOMAIN heap
        /\ \A m \in DOMAIN heap : heap'[m].next \in {heap[m].next, NULL}
    BY <2>1, WiredHeap DEF Nodes
  <2> QED
    BY <2>1, <2>2, JoinTypeInv, KeptCycle
<1>2. CASE ReplyList(c)
  <2>1. /\ UNCHANGED <<heap, head>> /\ pc' = [pc EXCEPT ![c] = "truncate"]
        /\ ptr' = [ptr EXCEPT ![c] = head]
    BY <1>2 DEF ReplyList, Goto, shared
  <2> QED
    BY <2>1, LocalCycle
<1>3. CASE ReplyCrash(c) \/ ReplyKilled(c)
  BY <1>3, IdleCycle DEF ReplyCrash, ReplyKilled, shared, reader
<1>4. CASE JoinLock(c) \/ MemberLock(c)
  <2>1. /\ UNCHANGED <<heap, head, ptr>>
        /\ \/ pc[c] = "joinlock" /\ pc' = [pc EXCEPT ![c] = "insert"]
           \/ pc' = [pc EXCEPT ![c] = "member"]
    BY <1>4 DEF JoinLock, MemberLock, At, Goto
  <2> QED
    BY <2>1, LocalCycle DEF Waits
<1>5. CASE JoinCount(c)
  <2>1. /\ UNCHANGED <<heap, head, ptr>>
        /\ \E l \in {"members", "reply"} : pc' = [pc EXCEPT ![c] = l]
    BY <1>5 DEF JoinCount, Goto
  <2> QED
    BY <2>1, LocalCycle
<1> QED
  BY <1>1, <1>2, <1>3, <1>4, <1>5, JoinAddCycle, JoinInsertCycle DEF Join

\* The subject becomes the head: a new node, or one the loop met in some list.
LEMMA LinkCycle ==
    ASSUME TypeInv, FreshInv, NEW c \in Conns, pc[c] = "member",
           NEW n \in Nat \ {0}, ptr[c] # NULL => n = ptr[c],
           ptr[c] = NULL => n \notin DOMAIN heap,
           NEW weight \in 0 .. WeightMod - 1, LinkSubject(c, n, weight)
    PROVE  FreshInv' /\ CycleStep
<1> DEFINE h == Prepared(c, n, weight)
<1>0. ptr[c] # NULL => n \in DOMAIN heap
  BY WiredHeap
<1>1. /\ heap' = Push(h, head, n) /\ head' = n
      /\ ptr' = [ptr EXCEPT ![c] = n] /\ pc' = [pc EXCEPT ![c] = "membercount"]
  BY DEF LinkSubject, Goto, Prepared
<1>2. /\ DOMAIN h = DOMAIN heap \cup {n} /\ h \in [DOMAIN h -> Nodes]
      /\ \A m \in DOMAIN h : h[m].next \in DOMAIN h \cup {NULL}
      /\ \A m \in DOMAIN heap : h[m].next = heap[m].next
  <2>1. DOMAIN h = DOMAIN heap \cup {n} /\ h \in [DOMAIN heap \cup {n} -> Nodes]
    BY PreparedType
  <2>2. \A m \in DOMAIN heap \cup {n} : h[m].next \in DOMAIN heap \cup {n, NULL}
    BY PreparedType
  <2>3. \A m \in DOMAIN heap : h[m].next = heap[m].next
    <3>1. n \notin DOMAIN heap \/ ptr[c] # NULL
      OBVIOUS
    <3> QED
      BY <3>1, PreparedType, Zenon
  <2> HIDE DEF h
  <2> QED
    BY <2>1, <2>2, <2>3
<1> HIDE DEF h
<1>3. /\ DOMAIN heap' = DOMAIN heap \cup {n} /\ heap'[n].next = head
      /\ \A m \in DOMAIN heap \ {n} : heap'[m].next = heap[m].next
  BY <1>1, <1>2 DEF Push, Nodes
<1>4. ASSUME NEW d \in Conns, Waits(d)' PROVE Fresh(d)'
  <2>1. d # c /\ Fresh(d) /\ ptr'[d] = ptr[d]
    BY <1>1, <1>4, WiredHeap DEF FreshInv, Waits
  <2>2. ptr[d] # n
    BY <1>0, <2>1 DEF Fresh
  <2>3. \A e \in Conns \ {d} : ptr'[e] # ptr[d]
    BY <1>1, <2>1, <2>2, WiredHeap DEF Fresh
  <2> QED
    BY <1>1, <1>3, <2>1, <2>2, <2>3 DEF Fresh
<1>5. Wired(h) /\ NULL \notin DOMAIN h /\ head \in DOMAIN h \cup {NULL} /\ n \in DOMAIN h
  BY <1>0, <1>2, WiredHeap DEF Wired, NULL
<1>6. ASSUME Ending, n \notin ListNodes(heap, head) PROVE Ending'
  <2>1. Terminates(h, head, {})
    BY <1>2, <1>5, <1>6, WiredHeap, EndsKept DEF Ending
  <2>2. n \notin ListNodes(h, head)
    BY <1>2, <1>5, <1>6, WiredHeap, NodesStay
  <2> QED
    BY <1>1, <1>2, <1>5, <2>1, <2>2, EndsPushed DEF Ending
<1>7. n \in ListNodes(heap, head) => Relinks(c)
  <2>1. ListNodes(heap, head) \subseteq DOMAIN heap
    BY VisitedNodes DEF ListNodes
  <2> QED
    BY <1>0, <1>1, <2>1 DEF Relinks
<1> QED
  BY <1>4, <1>6, <1>7 DEF FreshInv, CycleStep

\* A new weight is one.
LEMMA WeightType ==
    ASSUME TypeInv, NEW c \in Conns, pc[c] = "member"
    PROVE  /\ (Subject(c).linkweight + 1) % WeightMod \in 0 .. WeightMod - 1
           /\ \A mac : (Subject(c).linkweight + LowestSavedDistance(heap, head, mac)) % WeightMod
                         \in 0 .. WeightMod - 1
<1>1. Subject(c).linkweight \in Nat /\ WeightMod \in Nat \ {0}
  BY SubjectType, ConstantTypes
<1>2. ASSUME NEW mac PROVE LowestSavedDistance(heap, head, mac) \in Nat
  BY <1>1, DistanceType DEF TypeInv, TypeOK
<1> QED
  BY <1>1, <1>2

\* The thread of c goes through the nodes of a packet.
LEMMA AddMembersCycle ==
    ASSUME TypeInv, FreshInv, NEW c \in Conns, AddMembers(c)
    PROVE  FreshInv' /\ CycleStep
<1>1. CASE MembersNext(c) \/ MembersDone(c) \/ MemberSpin(c) \/ MemberKnown(c)
         \/ MemberCount(c)
  <2>1. /\ UNCHANGED <<heap, head>>
        /\ \E l \in {"memberlock", "recv", "spin", "members"} : pc' = [pc EXCEPT ![c] = l]
        /\ \/ UNCHANGED ptr
           \/ ptr' = [ptr EXCEPT ![c] = NULL]
           \/ ptr[c] # NULL /\ ptr' = [ptr EXCEPT ![c] = heap[ptr[c]].next]
    BY <1>1 DEF MembersNext, MembersDone, MemberSpin, MemberKnown, MemberCount, Skip,
       Return, Goto, shared
  <2> QED
    BY <2>1, LocalCycle
<1>2. CASE MembersWild(c) \/ OutOfMemory(c)
  BY <1>2, IdleCycle DEF MembersWild, OutOfMemory, shared, reader
<1>3. CASE MemberRefresh(c)
  <2>1. /\ heap' \in {heap, [heap EXCEPT ![Finder(c)].ID = now]}
        /\ UNCHANGED <<head, ptr>> /\ pc' = [pc EXCEPT ![c] = "members"]
    BY <1>3 DEF MemberRefresh, Skip, Goto
  <2>2. DOMAIN heap' = DOMAIN heap /\ \A m \in DOMAIN heap : heap'[m].next = heap[m].next
    BY <2>1, WiredHeap DEF Nodes
  <2> QED
    BY <2>1, <2>2, AddMembersTypeInv, KeptCycle
<1>4. CASE MemberNew(c)
  <2> DEFINE n == IF ptr[c] = NULL THEN alloc + 2 ELSE ptr[c]
             weight == (Subject(c).linkweight + 1) % WeightMod
  <2>1. pc[c] = "member" /\ LinkSubject(c, n, weight)
    BY <1>4 DEF MemberNew, At
  <2>2. weight \in 0 .. WeightMod - 1
    BY <2>1, WeightType
  <2>3. /\ n \in Nat \ {0} /\ (ptr[c] # NULL => n = ptr[c])
        /\ ptr[c] = NULL => n \notin DOMAIN heap
    BY WiredHeap DEF NULL
  <2> HIDE DEF n, weight
  <2> QED
    BY <2>1, <2>2, <2>3, LinkCycle
<1>5. CASE MemberRelink(c)
  <2> DEFINE n == IF ptr[c] = NULL THEN alloc + 1 ELSE ptr[c]
             weight == (Subject(c).linkweight
                          + LowestSavedDistance(heap, head, Subject(c).local.macaddr)) % WeightMod
  <2>1. pc[c] = "member" /\ LinkSubject(c, n, weight)
    BY <1>5 DEF MemberRelink, At
  <2>2. weight \in 0 .. WeightMod - 1
    BY <2>1, WeightType
  <2>3. /\ n \in Nat \ {0} /\ (ptr[c] # NULL => n = ptr[c])
        /\ ptr[c] = NULL => n \notin DOMAIN heap
    BY WiredHeap DEF NULL
  <2> HIDE DEF n, weight
  <2> QED
    BY <2>1, <2>2, <2>3, LinkCycle
<1> QED
  BY <1>1, <1>2, <1>3, <1>4, <1>5 DEF AddMembers

\* A member is unlinked, wherever the list may lead beyond it.
LEMMA TimerDeleteCycle ==
    ASSUME TypeInv, FreshInv, TimerDelete
    PROVE  FreshInv' /\ CycleStep
<1> DEFINE same == SameRemote(heap, heap[tptr].remote.macaddr)
           x    == FirstOf(heap, head, same)
<1>1. UNCHANGED <<pc, ptr>>
  BY DEF TimerDelete, reader
<1>2. CASE x = NULL
  BY <1>1, <1>2, IdleCycle DEF TimerDelete
<1>3. CASE x # NULL
  <2>1. /\ heap' = Unlink(heap, head, same, x)
        /\ head' = IF x = head THEN heap[x].next ELSE head
    BY <1>3 DEF TimerDelete
  <2>2. x \in ListNodes(heap, head) /\ x \in DOMAIN heap
    <3>1. x \in Visited(heap, head, same)
      BY <1>3, FirstOfStop
    <3> QED
      BY <3>1, WiredHeap, VisitedStop, VisitedNodes
  <2> HIDE DEF same, x
  <2>3. /\ DOMAIN heap' = DOMAIN heap
        /\ \A m \in DOMAIN heap : \/ heap'[m].next = heap[m].next
                                  \/ heap[m].next = x /\ heap'[m].next = heap[x].next
    BY <2>1, WiredHeap DEF Unlink, Nodes
  <2>4. ASSUME NEW d \in Conns, Waits(d)' PROVE Fresh(d)'
    <3>1. Fresh(d) /\ ptr' = ptr
      BY <1>1, <2>4 DEF FreshInv, Waits
    <3> QED
      BY <2>1, <2>2, <2>3, <3>1 DEF Fresh
  <2>5. Ending => Ending'
    BY <2>1, <2>2, <2>3, WiredHeap, EndsUnlinked DEF Ending
  <2> QED
    BY <2>4, <2>5 DEF FreshInv, CycleStep
<1> QED
  BY <1>2, <1>3

\* Every step keeps what a join waits with, and closes a cycle only as a relink.
LEMMA NextCycle == TypeInv /\ FreshInv /\ [Next]_vars => FreshInv' /\ CycleStep
<1> SUFFICES ASSUME TypeInv, FreshInv, [Next]_vars PROVE FreshInv' /\ CycleStep
  OBVIOUS
<1>1. ASSUME NEW c \in Conns, TCPHandle(c) PROVE FreshInv' /\ CycleStep
  BY <1>1, RecvCycle, JoinCycle, AddMembersCycle DEF TCPHandle
<1>2. CASE TimerLock \/ TimerKeep \/ TimerCount \/ TimerDone \/ SendPackets \/ Tick
         \/ UNCHANGED vars
  <2>1. UNCHANGED <<heap, head, pc, ptr>>
    BY <1>2 DEF TimerLock, TimerKeep, TimerCount, TimerDone, SendPackets, SendCheck,
       SendLength, SendList, SendTo, SendDone, SendCrash, Tick, vars, shared, reader
  <2> QED
    BY <2>1, IdleCycle
<1> QED
  BY <1>1, <1>2, TimerDeleteCycle DEF Next, CheckLinkTimeOut, Down

\* In any network, whatever the threads read unlocked and use later, no step closes a
\* cycle in mem_list but one of add_members that moves a listed node to the front.
THEOREM CyclesByRelinkOnly == Spec => CycleOnlyByRelink
<1>1. Init => TypeInv /\ FreshInv
  BY InitTypeInv DEF Init, FreshInv, Waits
<1>2. TypeInv /\ FreshInv /\ [Next]_vars => TypeInv' /\ FreshInv' /\ CycleStep
  BY NextTypeInv, NextCycle
<1>3. CycleStep =>
          (Terminates(heap, head, {}) /\ ~Terminates(heap, head, {})'
             => \E c \in Conns : /\ pc[c] = "member"
                                 /\ ptr[c] \in ListNodes(heap, head)
                                 /\ head' = ptr[c])
  BY DEF CycleStep, Ending, Relinks
<1> QED
  BY <1>1, <1>2, <1>3, PTL DEF Spec, CycleOnlyByRelink
-----------------------------------------------------------------------------
(***************************************************************************)
(* This proxy itself.                                                      *)
(***************************************************************************)
\* A thread that is about to add a route and a member takes them from a packet of
\* somebody else, and the member's address too unless the packet is misnamed.
JoinsOther(c) ==
    pc[c] = "addsock" =>
        /\ from[c].macaddr # MyInfo.macaddr
        /\ \/ ZeroRemote(recvd[c]) \/ Head(recvd[c]).local.macaddr # MyInfo.macaddr
           \/ Misnamed

SelfInv == SelfNeverMember /\ \A c \in Conns : JoinsOther(c)

\* A step that adds nothing but nodes and entries for others, or the node of a
\* misnamed packet, and begins no join.
LEMMA OthersAdded ==
    ASSUME SelfInv,
           \A m \in DOMAIN heap' :
               \/ /\ m \in DOMAIN heap /\ heap'[m].remote = heap[m].remote
                  /\ heap'[m].local = heap[m].local
               \/ heap'[m].remote.macaddr # MyInfo.macaddr
               \/ heap'[m].local = MyInfo /\ Misnamed,
           \A e \in DOMAIN socketfds' :
               \/ e \in DOMAIN socketfds /\ socketfds'[e].macaddr = socketfds[e].macaddr
               \/ socketfds'[e].macaddr # MyInfo.macaddr,
           \A c \in Conns : pc'[c] = "addsock" =>
               pc[c] = "addsock" /\ from'[c] = from[c] /\ recvd'[c] = recvd[c]
    PROVE  SelfInv'
BY DEF SelfInv, SelfNeverMember, JoinsOther

\* A packet of somebody else arrives.
LEMMA RecvSelf ==
    ASSUME HonestNetwork, TypeInv, SelfInv, NEW c \in Conns, Recv(c)
    PROVE  SelfInv'
<1>0. DOMAIN pc = Conns /\ DOMAIN from = Conns /\ DOMAIN recvd = Conns
  BY DEF TypeInv, TypeOK, ReaderOK
<1>1. CASE RecvJoin(c)
  <2>1. PICK p \in Hello[c] \cup Flood[c] :
           /\ p.list # <<>> /\ (ZeroRemote(p.list) \/ p.numNeighbors = 1)
           /\ pc' = [pc EXCEPT ![c] = "addsock"]
           /\ from' = [from EXCEPT ![c] = p.source]
           /\ recvd' = [recvd EXCEPT ![c] = p.list]
           /\ UNCHANGED <<heap, socketfds>>
    BY <1>1 DEF RecvJoin, Receive, Goto, shared
  <2>2. JoinsOther(c)'
    <3>1. p.source.macaddr # MyInfo.macaddr
      BY DEF HonestNetwork
    <3>2. \/ ZeroRemote(p.list) \/ Head(p.list).local.macaddr # MyInfo.macaddr
          \/ Misnamed
      BY <2>1 DEF Misnamed
    <3> QED
      BY <1>0, <2>1, <3>1, <3>2 DEF JoinsOther
  <2>3. \A d \in Conns \ {c} : JoinsOther(d)'
    BY <1>0, <2>1 DEF SelfInv, JoinsOther
  <2> QED
    BY <2>1, <2>2, <2>3 DEF SelfInv, SelfNeverMember
<1>2. CASE RecvKnown(c) \/ RecvIgnored(c)
  <2>1. /\ UNCHANGED <<heap, socketfds>>
        /\ \E l \in {"members", "recv"} : pc' = [pc EXCEPT ![c] = l]
        /\ \A d \in Conns \ {c} : from'[d] = from[d] /\ recvd'[d] = recvd[d]
    BY <1>0, <1>2 DEF RecvKnown, RecvIgnored, Receive, Return, Goto, shared
  <2> QED
    BY <1>0, <2>1, OthersAdded
<1>3. CASE RecvLeave(c) \/ LostConnection(c) \/ RecvQuit(c) \/ RecvEmpty(c)
  <2>1. UNCHANGED <<heap, socketfds, pc, from, recvd>>
    BY <1>3 DEF RecvLeave, LostConnection, Silence, RecvQuit, RecvEmpty, shared, reader
  <2> QED
    BY <2>1, OthersAdded
<1> QED
  BY <1>1, <1>2, <1>3 DEF Recv

\* A join takes a step.
LEMMA JoinSelf ==
    ASSUME TypeInv, SelfInv, NEW c \in Conns, Join(c) \/ JoinLock(c) \/ MemberLock(c)
    PROVE  SelfInv'
<1>0. /\ DOMAIN pc = Conns /\ DOMAIN recvd = Conns /\ heap \in [DOMAIN heap -> Nodes]
  BY DEF TypeInv, TypeOK, ReaderOK, HeapOK
<1>1. CASE JoinAdd(c)
  <2>1. PICK mac : /\ mac # MyInfo.macaddr \/ Misnamed
                   /\ heap' = NewNode(heap, alloc + 2, MyInfo,
                                      [ip |-> from[c].ip, macaddr |-> mac], 1, now)
    <3> DEFINE m == IF ZeroRemote(recvd[c]) THEN from[c].macaddr
                    ELSE Head(recvd[c]).local.macaddr
    <3>1. m # MyInfo.macaddr \/ Misnamed
      BY <1>1 DEF JoinAdd, At, SelfInv, JoinsOther
    <3>2. heap' = NewNode(heap, alloc + 2, MyInfo, [ip |-> from[c].ip, macaddr |-> m], 1, now)
      BY <1>1 DEF JoinAdd
    <3> QED
      BY <3>1, <3>2
  <2>2. /\ socketfds' = addsockfd(socketfds, alloc + 1, from[c].macaddr, c)
        /\ from[c].macaddr # MyInfo.macaddr
        /\ pc' = [pc EXCEPT ![c] = "joinlock"] /\ UNCHANGED <<from, recvd>>
    BY <1>1 DEF JoinAdd, At, Goto, SelfInv, JoinsOther
  <2>3. \A m \in DOMAIN heap' :
            \/ /\ m \in DOMAIN heap /\ heap'[m].remote = heap[m].remote
               /\ heap'[m].local = heap[m].local
            \/ heap'[m].remote.macaddr # MyInfo.macaddr
            \/ heap'[m].local = MyInfo /\ Misnamed
    BY <2>1 DEF NewNode
  <2>4. \A e \in DOMAIN socketfds' :
            \/ e \in DOMAIN socketfds /\ socketfds'[e].macaddr = socketfds[e].macaddr
            \/ socketfds'[e].macaddr # MyInfo.macaddr
    BY <2>2 DEF addsockfd
  <2> QED
    BY <1>0, <2>2, <2>3, <2>4, OthersAdded
<1>2. CASE JoinInsert(c) \/ ReplySend(c)
  <2>1. /\ \E a : heap' = [heap EXCEPT ![ptr[c]].next = a]
        /\ UNCHANGED socketfds
        /\ \E l \in {"count", "recv"} : pc' = [pc EXCEPT ![c] = l]
        /\ from' = from /\ (recvd' = recvd \/ recvd' = [recvd EXCEPT ![c] = <<>>])
    BY <1>2 DEF JoinInsert, ReplySend, Return, Goto, Push
  <2>2. /\ DOMAIN heap' = DOMAIN heap
        /\ \A m \in DOMAIN heap : /\ heap'[m].remote = heap[m].remote
                                  /\ heap'[m].local = heap[m].local
    BY <1>0, <2>1 DEF Nodes
  <2> QED
    BY <1>0, <2>1, <2>2, OthersAdded
<1>3. CASE JoinCount(c) \/ ReplyList(c) \/ JoinLock(c) \/ MemberLock(c)
  <2>1. /\ UNCHANGED <<heap, socketfds, from, recvd>>
        /\ \E l \in {"members", "reply", "truncate", "insert", "member"} :
              pc' = [pc EXCEPT ![c] = l]
    BY <1>3 DEF JoinCount, ReplyList, JoinLock, MemberLock, Goto, shared
  <2> QED
    BY <1>0, <2>1, OthersAdded
<1>4. CASE ReplyCrash(c) \/ ReplyKilled(c)
  <2>1. UNCHANGED <<heap, socketfds, pc, from, recvd>>
    BY <1>4 DEF ReplyCrash, ReplyKilled, shared, reader
  <2> QED
    BY <2>1, OthersAdded
<1> QED
  BY <1>1, <1>2, <1>3, <1>4 DEF Join

\* The subject is put in the list.
LEMMA LinkSelf ==
    ASSUME TypeInv, SelfInv, NEW c \in Conns, pc[c] = "member",
           NEW n \in Nat \ {0}, ptr[c] # NULL => n = ptr[c],
           NEW weight \in 0 .. WeightMod - 1,
           LinkSubject(c, n, weight), UNCHANGED <<from, recvd>>,
           Subject(c).remote.macaddr # MyInfo.macaddr,
           \A e \in DOMAIN socketfds' :
               \/ e \in DOMAIN socketfds /\ socketfds'[e].macaddr = socketfds[e].macaddr
               \/ socketfds'[e].macaddr # MyInfo.macaddr
    PROVE  SelfInv'
<1>1. Prepared(c, n, weight) \in [DOMAIN heap \cup {n} -> Nodes]
  BY PreparedType
<1> DEFINE h == Prepared(c, n, weight)
<1>0. /\ DOMAIN pc = Conns /\ DOMAIN recvd = Conns /\ heap \in [DOMAIN heap -> Nodes]
      /\ ptr[c] \in DOMAIN heap \cup {NULL}
  BY DEF TypeInv, TypeOK, ReaderOK, HeapOK
<1>2. heap' = Push(h, head, n) /\ pc' = [pc EXCEPT ![c] = "membercount"]
  BY DEF LinkSubject, Goto, Prepared
<1>3. \A m \in DOMAIN h :
          \/ /\ m \in DOMAIN heap /\ h[m].remote = heap[m].remote
             /\ h[m].local = heap[m].local
          \/ h[m].remote.macaddr # MyInfo.macaddr
  BY <1>0 DEF Prepared, NewNode, Nodes
<1>4. \A m \in DOMAIN h : heap'[m].remote = h[m].remote /\ heap'[m].local = h[m].local
  <2> HIDE DEF h
  <2>1. h = Prepared(c, n, weight)
    BY DEF h
  <2> QED
    BY <1>1, <1>2, <2>1 DEF Push, Nodes
<1>5. DOMAIN heap' = DOMAIN h
  BY <1>2 DEF Push
<1> HIDE DEF h
<1> QED
  BY <1>0, <1>2, <1>3, <1>4, <1>5, OthersAdded

\* The thread of c goes through the nodes of a packet: this proxy's own address has
\* no route, so it is not linked as one that has, and none is made for it.
LEMMA AddMembersSelf ==
    ASSUME HonestNetwork, TypeInv, SelfInv, NEW c \in Conns, AddMembers(c)
    PROVE  SelfInv'
<1>0. /\ DOMAIN pc = Conns /\ DOMAIN recvd = Conns /\ heap \in [DOMAIN heap -> Nodes]
      /\ alloc \in Nat /\ ptr[c] \in DOMAIN heap \cup {NULL} /\ DOMAIN heap \subseteq 1 .. alloc
      /\ DOMAIN socketfds \subseteq 1 .. alloc /\ socketfds \in [DOMAIN socketfds -> Entries]
  BY DEF TypeInv, TypeOK, ReaderOK, HeapOK, TableOK
<1>1. CASE MembersNext(c) \/ MembersDone(c) \/ MemberSpin(c) \/ MemberKnown(c)
  <2>1. /\ UNCHANGED <<heap, socketfds, from>>
        /\ \E l \in {"memberlock", "recv", "spin", "members"} : pc' = [pc EXCEPT ![c] = l]
        /\ recvd' = recvd \/ recvd' = [recvd EXCEPT ![c] = <<>>]
    BY <1>1 DEF MembersNext, MembersDone, MemberSpin, MemberKnown, MemberCount, Skip,
       Return, Goto, shared
  <2> QED
    BY <1>0, <2>1, OthersAdded
<1>2. CASE MembersWild(c) \/ OutOfMemory(c)
  <2>1. UNCHANGED <<heap, socketfds, pc, from, recvd>>
    BY <1>2 DEF MembersWild, OutOfMemory, shared, reader
  <2> QED
    BY <2>1, OthersAdded
<1>3. CASE MemberRefresh(c)
  <2>1. /\ heap' \in {heap, [heap EXCEPT ![Finder(c)].ID = now]}
        /\ UNCHANGED <<socketfds, from, recvd>> /\ pc' = [pc EXCEPT ![c] = "members"]
    BY <1>3 DEF MemberRefresh, Skip, Goto
  <2>2. /\ DOMAIN heap' = DOMAIN heap
        /\ \A m \in DOMAIN heap : /\ heap'[m].remote = heap[m].remote
                                  /\ heap'[m].local = heap[m].local
    BY <1>0, <2>1 DEF Nodes
  <2> QED
    BY <1>0, <2>1, <2>2, OthersAdded
<1>4. CASE MemberNew(c)
  <2> DEFINE n == IF ptr[c] = NULL THEN alloc + 2 ELSE ptr[c]
             weight == (Subject(c).linkweight + 1) % WeightMod
             mac == Subject(c).remote.macaddr
  <2>1. /\ pc[c] = "member" /\ LinkSubject(c, n, weight) /\ mac # MyInfo.macaddr
        /\ socketfds' = addsockfd(socketfds, alloc + 1, mac, c) /\ UNCHANGED <<from, recvd>>
    BY <1>4 DEF MemberNew, LinkSubject, At, IsMe
  <2>2. weight \in 0 .. WeightMod - 1
    BY <2>1, WeightType
  <2>3. n \in Nat \ {0} /\ (ptr[c] # NULL => n = ptr[c])
    BY <1>0
  <2>4. \A e \in DOMAIN socketfds' :
            \/ e \in DOMAIN socketfds /\ socketfds'[e].macaddr = socketfds[e].macaddr
            \/ socketfds'[e].macaddr # MyInfo.macaddr
    BY <2>1 DEF addsockfd
  <2> HIDE DEF n, weight
  <2> QED
    BY <2>1, <2>2, <2>3, <2>4, LinkSelf
<1>5. CASE MemberRelink(c)
  <2> DEFINE n == IF ptr[c] = NULL THEN alloc + 1 ELSE ptr[c]
             weight == (Subject(c).linkweight
                          + LowestSavedDistance(heap, head, Subject(c).local.macaddr)) % WeightMod
             mac == Subject(c).remote.macaddr
  <2>1. /\ pc[c] = "member" /\ LinkSubject(c, n, weight) /\ Listed(c) # NULL
        /\ UNCHANGED <<socketfds, from, recvd>>
    BY <1>5 DEF MemberRelink, LinkSubject, At
  <2>2. weight \in 0 .. WeightMod - 1
    BY <2>1, WeightType
  <2>3. n \in Nat \ {0} /\ (ptr[c] # NULL => n = ptr[c])
    BY <1>0
  <2>4. \A e \in DOMAIN socketfds' :
            e \in DOMAIN socketfds /\ socketfds'[e].macaddr = socketfds[e].macaddr
    BY <1>0, <2>1 DEF Entries
  <2>5. mac # MyInfo.macaddr
    <3>1. PICK e \in DOMAIN socketfds : StrKey[socketfds[e].macaddr] = StrKey[mac]
      <4>1. Matches(socketfds, mac) # {}
        BY <1>0, <2>1, FindMatches DEF Listed
      <4> QED
        BY <4>1 DEF Matches
    <3>2. socketfds[e].macaddr \in Macs /\ socketfds[e].macaddr # MyInfo.macaddr
      BY <1>0 DEF Entries, SelfInv, SelfNeverMember
    <3> QED
      BY <3>1, <3>2 DEF HonestNetwork
  <2> HIDE DEF n, weight
  <2> QED
    BY <2>1, <2>2, <2>3, <2>4, <2>5, LinkSelf
<1>6. CASE MemberCount(c)
  <2>1. /\ UNCHANGED <<heap, from, recvd>> /\ pc' = [pc EXCEPT ![c] = "members"]
        /\ DOMAIN socketfds' = DOMAIN socketfds
        /\ \A e \in DOMAIN socketfds : socketfds'[e].macaddr = socketfds[e].macaddr
    BY <1>0, <1>6 DEF MemberCount, Goto, Entries
  <2> QED
    BY <1>0, <2>1, OthersAdded
<1> QED
  BY <1>1, <1>2, <1>3, <1>4, <1>5, <1>6 DEF AddMembers

\* No step makes this proxy a member of its own list.
LEMMA NextSelf ==
    ASSUME HonestNetwork
    PROVE  TypeInv /\ SelfInv /\ [Next]_vars => SelfInv'
<1> SUFFICES ASSUME TypeInv, SelfInv, [Next]_vars PROVE SelfInv'
  OBVIOUS
<1>1. ASSUME NEW c \in Conns, TCPHandle(c) PROVE SelfInv'
  BY <1>1, RecvSelf, JoinSelf, AddMembersSelf DEF TCPHandle
<1>2. CASE TimerLock \/ TimerKeep \/ TimerCount \/ TimerDone \/ SendPackets \/ Tick
         \/ UNCHANGED vars
  <2>1. UNCHANGED <<heap, socketfds, pc, from, recvd>>
    BY <1>2 DEF TimerLock, TimerKeep, TimerCount, TimerDone, SendPackets, SendCheck,
       SendLength, SendList, SendTo, SendDone, SendCrash, Tick, vars, shared, reader
  <2> QED
    BY <2>1, OthersAdded
<1>3. CASE TimerDelete
  <2>1. /\ UNCHANGED <<pc, from, recvd>>
        /\ heap' = heap \/ \E same, x : heap' = Unlink(heap, head, same, x)
        /\ socketfds' = socketfds \/ \E mac : socketfds' = deletesockfd(socketfds, mac)
    BY <1>3 DEF TimerDelete, reader
  <2>2. /\ DOMAIN heap' = DOMAIN heap
        /\ \A m \in DOMAIN heap : /\ heap'[m].remote = heap[m].remote
                                  /\ heap'[m].local = heap[m].local
    BY <2>1, WiredHeap DEF Unlink, Nodes
  <2>3. /\ DOMAIN socketfds' \subseteq DOMAIN socketfds
        /\ \A e \in DOMAIN socketfds' : socketfds'[e] = socketfds[e]
    BY <2>1 DEF deletesockfd
  <2> QED
    BY <2>1, <2>2, <2>3, OthersAdded
<1> QED
  BY <1>1, <1>2, <1>3 DEF Next, CheckLinkTimeOut, Down

\* In a network where nobody else has this proxy's address, whatever its neighbours
\* flood and its threads read meanwhile, no route leads to this proxy itself, and the
\* only member that does is one a join made from a packet that lists a link of this
\* proxy as its sender's.
THEOREM NeverOwnMember ==
    ASSUME HonestNetwork
    PROVE  Spec => []SelfNeverMember
<1>1. Init => TypeInv /\ SelfInv
  BY InitTypeInv DEF Init, SelfInv, SelfNeverMember, JoinsOther
<1>2. TypeInv /\ SelfInv /\ [Next]_vars => TypeInv' /\ SelfInv'
  BY NextTypeInv, NextSelf
<1>3. SelfInv => SelfNeverMember
  BY DEF SelfInv
<1> QED
  BY <1>1, <1>2, <1>3, PTL DEF Spec
=============================================================================
