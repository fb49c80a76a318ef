---------------------------- MODULE StartupProofs ----------------------------
(***************************************************************************)
(* Which descriptor a new thread reads, and which peers main tries, for    *)
(* any configuration file and any number of accepted connections.          *)
(***************************************************************************)
EXTENDS Startup, TLAPS

Fds == 1 .. fds
Readers == [arg : Slots, own : Int, tcp_fd : Int]

TypeInv ==
    /\ fds \in Nat
    /\ slot \in [Slots -> Fds \cup {Failed}]
    /\ readers \in Seq(Readers)

\* A variable that a thread is about to be created for holds its connection.
Filled ==
    /\ main = "spawn" => slot["socket_fd"] \in Fds
    /\ acc = "spawn" => slot["connfd"] \in Fds

\* The variable of a thread that has not read it yet holds no earlier connection.
Waiting ==
    \A t \in DOMAIN readers :
        readers[t].tcp_fd = Unread =>
            slot[readers[t].arg] = Failed \/ slot[readers[t].arg] >= readers[t].own

OwnKnown == \A t \in DOMAIN readers : readers[t].own \in Fds

Waits == TypeInv /\ OwnKnown /\ Waiting /\ NeverEarlier

Inv == Waits /\ Filled

\* It holds at the start.
LEMMA InitInv == Init => Inv
BY DEF Init, Inv, Waits, TypeInv, Filled, OwnKnown, Waiting, NeverEarlier, Failed,
   Slots, Fds

\* A variable gets the number of a new connection, or -1.
LEMMA FillWaits ==
    ASSUME Waits, NEW v \in Slots, UNCHANGED readers,
           \/ fds' = fds + 1 /\ slot' = [slot EXCEPT ![v] = fds + 1]
           \/ fds' = fds /\ slot' = [slot EXCEPT ![v] = Failed]
    PROVE  Waits'
<1>1. /\ fds \in Nat /\ fds' \in Nat /\ fds <= fds'
      /\ slot \in [Slots -> Fds \cup {Failed}] /\ readers \in Seq(Readers)
  BY DEF Waits, TypeInv
<1>2. TypeInv'
  <2>1. slot' \in [Slots -> Fds' \cup {Failed}]
    BY <1>1 DEF Fds
  <2> QED
    BY <1>1, <2>1 DEF TypeInv
<1>3. OwnKnown'
  BY <1>1 DEF Waits, OwnKnown, Fds
<1>4. Waiting'
  <2> SUFFICES ASSUME NEW t \in DOMAIN readers, readers[t].tcp_fd = Unread
               PROVE  slot'[readers[t].arg] = Failed
                      \/ slot'[readers[t].arg] >= readers[t].own
    BY DEF Waiting
  <2>1. readers[t].arg \in Slots
    <3>1. readers[t] \in Readers
      BY <1>1
    <3> QED
      BY <3>1 DEF Readers
  <2>2. readers[t].own \in 1 .. fds
    BY DEF Waits, OwnKnown, Fds
  <2>3. slot[readers[t].arg] = Failed \/ slot[readers[t].arg] >= readers[t].own
    BY DEF Waits, Waiting
  <2> QED
    BY <1>1, <2>1, <2>2, <2>3
<1>5. NeverEarlier'
  BY DEF Waits, NeverEarlier
<1> QED
  BY <1>2, <1>3, <1>4, <1>5 DEF Waits

\* A thread is created for the connection in a variable.
LEMMA SpawnWaits ==
    ASSUME Waits, NEW v \in Slots, slot[v] \in Fds, Spawn(v), UNCHANGED <<fds, slot>>
    PROVE  Waits'
<1> DEFINE r == [arg |-> v, own |-> slot[v], tcp_fd |-> Unread]
<1>1. fds \in Nat /\ slot \in [Slots -> Fds \cup {Failed}] /\ readers \in Seq(Readers)
  BY DEF Waits, TypeInv
<1>2. r \in Readers
  BY DEF Readers, Fds, Unread
<1>3. /\ readers' \in Seq(Readers) /\ DOMAIN readers' = 1 .. Len(readers) + 1
      /\ DOMAIN readers = 1 .. Len(readers) /\ Len(readers) \in Nat
      /\ \A t \in DOMAIN readers : readers'[t] = readers[t]
      /\ readers'[Len(readers) + 1] = r
  BY <1>1, <1>2 DEF Spawn
<1>4. \A t \in DOMAIN readers' : t \in DOMAIN readers \/ readers'[t] = r
  BY <1>3
<1>5. TypeInv'
  BY <1>1, <1>3 DEF TypeInv, Fds
<1>6. OwnKnown'
  BY <1>3, <1>4 DEF Waits, OwnKnown, Fds
<1>7. Waiting'
  <2> SUFFICES ASSUME NEW t \in DOMAIN readers', readers'[t].tcp_fd = Unread
               PROVE  slot[readers'[t].arg] = Failed
                      \/ slot[readers'[t].arg] >= readers'[t].own
    BY DEF Waiting
  <2>1. CASE t \in DOMAIN readers
    BY <1>3, <2>1 DEF Waits, Waiting
  <2>2. CASE readers'[t] = r
    BY <2>2 DEF Fds
  <2> QED
    BY <1>4, <2>1, <2>2
<1>8. NeverEarlier'
  BY <1>3, <1>4 DEF Waits, NeverEarlier
<1> QED
  BY <1>5, <1>6, <1>7, <1>8 DEF Waits

\* A thread reads its variable.
LEMMA StartWaits ==
    ASSUME Waits, NEW t \in DOMAIN readers, Start(t)
    PROVE  Waits'
<1>1. fds \in Nat /\ slot \in [Slots -> Fds \cup {Failed}] /\ readers \in Seq(Readers)
  BY DEF Waits, TypeInv
<1>2. /\ readers[t].tcp_fd = Unread /\ UNCHANGED <<fds, slot>>
      /\ readers' = [readers EXCEPT ![t].tcp_fd = slot[readers[t].arg]]
  BY DEF Start
<1>3. readers[t] \in Readers
  BY <1>1
<1>4. slot[readers[t].arg] \in Int
  BY <1>1, <1>3 DEF Readers, Fds, Failed
<1>5. /\ DOMAIN readers' = DOMAIN readers
      /\ \A u \in DOMAIN readers \ {t} : readers'[u] = readers[u]
      /\ readers'[t] = [readers[t] EXCEPT !.tcp_fd = slot[readers[t].arg]]
  BY <1>1, <1>2
<1>6. /\ readers'[t] \in Readers /\ readers'[t].arg = readers[t].arg
      /\ readers'[t].own = readers[t].own /\ readers'[t].tcp_fd = slot[readers[t].arg]
  BY <1>3, <1>4, <1>5 DEF Readers
<1>7. TypeInv'
  <2>1. readers' \in Seq(Readers)
    BY <1>1, <1>2, <1>5, <1>6
  <2> QED
    BY <1>1, <1>2, <2>1 DEF TypeInv, Fds
<1>8. OwnKnown'
  BY <1>2, <1>5, <1>6 DEF Waits, OwnKnown, Fds
<1>9. slot[readers[t].arg] = Failed \/ slot[readers[t].arg] >= readers[t].own
  BY <1>2 DEF Waits, Waiting
<1>10. Waiting'
  BY <1>2, <1>5, <1>6, <1>9 DEF Waits, Waiting
<1>11. NeverEarlier'
  BY <1>5, <1>6, <1>9 DEF Waits, NeverEarlier
<1> QED
  BY <1>7, <1>8, <1>10, <1>11 DEF Waits

\* The invariant is inductive.
LEMMA NextInv == Inv /\ [Next]_vars => Inv'
<1> SUFFICES ASSUME Inv, [Next]_vars PROVE Inv'
  OBVIOUS
<1>1. /\ Waits /\ Filled /\ fds \in Nat /\ slot \in [Slots -> Fds \cup {Failed}]
      /\ "socket_fd" \in Slots /\ "connfd" \in Slots /\ "socket_fd" # "connfd"
  BY DEF Inv, Waits, TypeInv, Slots
<1>2. CASE Connect \/ ConnectFailed
  <2>1. Waits'
    BY <1>1, <1>2, FillWaits DEF Connect, ConnectFailed, Fill
  <2>2. Filled'
    BY <1>1, <1>2 DEF Connect, ConnectFailed, Fill, Filled, Fds
  <2> QED
    BY <2>1, <2>2 DEF Inv
<1>3. CASE Accept \/ AcceptFailed
  <2>1. Waits'
    BY <1>1, <1>3, FillWaits DEF Accept, AcceptFailed, Fill
  <2>2. Filled'
    BY <1>1, <1>3 DEF Accept, AcceptFailed, Fill, Filled, Fds
  <2> QED
    BY <2>1, <2>2 DEF Inv
<1>4. CASE ConnectSpawn \/ AcceptSpawn
  <2>1. Waits'
    BY <1>1, <1>4, SpawnWaits DEF ConnectSpawn, AcceptSpawn, Filled
  <2>2. Filled'
    BY <1>1, <1>4 DEF ConnectSpawn, AcceptSpawn, Filled, Fds
  <2> QED
    BY <2>1, <2>2 DEF Inv
<1>5. CASE \E t \in Threads : Start(t)
  <2>1. Waits'
    BY <1>1, <1>5, StartWaits DEF Start
  <2>2. Filled'
    BY <1>1, <1>5 DEF Start, Filled, Fds
  <2> QED
    BY <2>1, <2>2 DEF Inv
<1>6. CASE Config \/ StartThreads \/ Listen \/ ListenFailed \/ Quiet \/ UNCHANGED vars
  <2>1. UNCHANGED <<fds, slot, readers>>
    BY <1>6 DEF Config, ConfigPeer, ConfigOption, MainFailed, SetUp, StartThreads, Listen,
       ListenFailed, Quiet, vars
  <2>2. (main' = "spawn" => main = "spawn") /\ (acc' = "spawn" => acc = "spawn")
    BY <1>6 DEF Config, ConfigPeer, ConfigOption, MainFailed, SetUp, StartThreads, Listen,
       ListenFailed, Quiet, vars
  <2> QED
    BY <1>1, <2>1, <2>2 DEF Inv, Waits, TypeInv, Filled, OwnKnown, Waiting, NeverEarlier, Fds
<1> QED
  BY <1>2, <1>3, <1>4, <1>5, <1>6 DEF Next, Main, AcceptConn

\* However main, acceptconn and the new threads are scheduled, no thread reads a
\* connection older than the one it was created for (cs352proxy.c:511, 935).
THEOREM NeverEarlierCorrect == Spec => []NeverEarlier
<1>1. Inv => NeverEarlier
  BY DEF Inv, Waits
<1> QED
  BY <1>1, InitInv, NextInv, PTL DEF Spec
-----------------------------------------------------------------------------
\* The chain of peers is in the order of the file, and complete.
Chain ==
    /\ lines \in Nat /\ DOMAIN next \subseteq 1 .. lines
    /\ head = NULL <=> DOMAIN next = {}
    /\ head # NULL => head \in DOMAIN next /\ \A p \in DOMAIN next : head <= p
    /\ \A p \in DOMAIN next :
           /\ next[p] = NULL => \A q \in DOMAIN next : q <= p
           /\ next[p] # NULL => /\ next[p] \in DOMAIN next /\ p < next[p]
                                /\ \A q \in DOMAIN next : q <= p \/ next[p] <= q

WasTried(p) == \E i \in DOMAIN tried : tried[i] = p

\* What main has tried is what it has gone past on the chain.
Passed ==
    /\ tried \in Seq(DOMAIN next)
    /\ \A i, j \in DOMAIN tried : i < j => tried[i] < tried[j]
    /\ curr \in DOMAIN next \cup {NULL}
    /\ main = "config" => tried = <<>>
    /\ main = "connect" => \A p \in DOMAIN next : WasTried(p) <=> curr = NULL \/ p < curr
    /\ main = "spawn" => curr # NULL /\ \A p \in DOMAIN next : WasTried(p) <=> p <= curr
    /\ main = "join" => \A p \in DOMAIN next : WasTried(p)

PeerInv == Chain /\ Passed

\* A line that is read later goes to the end of the chain.
LEMMA AppendChain ==
    ASSUME Chain, LL_APPEND(lines + 1), lines' = lines + 1
    PROVE  Chain'
<1> DEFINE add == lines + 1
<1>1. /\ lines \in Nat /\ DOMAIN next \subseteq 1 .. lines /\ NULL \notin DOMAIN next
      /\ \A p \in DOMAIN next : p \in Nat /\ p < add
  BY DEF Chain, NULL
<1>2. /\ head' = IF head = NULL THEN add ELSE head
      /\ DOMAIN next' = DOMAIN next \cup {add}
      /\ next'[add] = NULL
      /\ \A p \in DOMAIN next : next'[p] = IF next[p] = NULL THEN add ELSE next[p]
  BY <1>1 DEF LL_APPEND
<1>3. add \in Nat /\ add # NULL /\ DOMAIN next' \subseteq 1 .. lines'
  BY <1>1, <1>2 DEF NULL
<1>4. /\ head' = NULL <=> DOMAIN next' = {}
      /\ head' # NULL => head' \in DOMAIN next' /\ \A p \in DOMAIN next' : head' <= p
  BY <1>1, <1>2, <1>3 DEF Chain
<1>5. ASSUME NEW p \in DOMAIN next'
      PROVE  /\ next'[p] = NULL => \A q \in DOMAIN next' : q <= p
             /\ next'[p] # NULL => /\ next'[p] \in DOMAIN next' /\ p < next'[p]
                                   /\ \A q \in DOMAIN next' : q <= p \/ next'[p] <= q
  <2>1. CASE p = add
    BY <1>1, <1>2, <1>3, <2>1
  <2>2. CASE p \in DOMAIN next /\ next[p] = NULL
    BY <1>1, <1>2, <1>3, <2>2 DEF Chain
  <2>3. CASE p \in DOMAIN next /\ next[p] # NULL
    BY <1>1, <1>2, <1>3, <2>3 DEF Chain
  <2> QED
    BY <1>2, <2>1, <2>2, <2>3
<1> QED
  BY <1>1, <1>3, <1>4, <1>5 DEF Chain

\* connecttohost is called for the peer main is at.
LEMMA TryPassed ==
    ASSUME Chain, Passed, main = "connect", curr # NULL, tried' = Append(tried, curr),
           UNCHANGED peers
    PROVE  /\ tried' \in Seq(DOMAIN next)
           /\ \A i, j \in DOMAIN tried' : i < j => tried'[i] < tried'[j]
           /\ \A p \in DOMAIN next : WasTried(p)' <=> p <= curr
<1>1. /\ tried \in Seq(DOMAIN next) /\ curr \in DOMAIN next
      /\ \A p \in DOMAIN next : p \in Nat
      /\ \A p \in DOMAIN next : WasTried(p) <=> p < curr
  BY DEF Chain, Passed
<1>2. /\ tried' \in Seq(DOMAIN next) /\ DOMAIN tried' = DOMAIN tried \cup {Len(tried) + 1}
      /\ DOMAIN tried = 1 .. Len(tried) /\ Len(tried) \in Nat
      /\ \A i \in DOMAIN tried : tried'[i] = tried[i] /\ tried[i] \in DOMAIN next
      /\ tried'[Len(tried) + 1] = curr
  BY <1>1
<1>3. \A i \in DOMAIN tried : tried[i] < curr
  BY <1>1, <1>2 DEF WasTried
<1>4. \A i, j \in DOMAIN tried' : i < j => tried'[i] < tried'[j]
  <2> SUFFICES ASSUME NEW i \in DOMAIN tried', NEW j \in DOMAIN tried', i < j
               PROVE  tried'[i] < tried'[j]
    OBVIOUS
  <2>1. i \in DOMAIN tried
    BY <1>2
  <2>2. CASE j \in DOMAIN tried
    BY <1>2, <2>1, <2>2 DEF Passed
  <2>3. CASE j = Len(tried) + 1
    BY <1>2, <1>3, <2>1, <2>3
  <2> QED
    BY <1>2, <2>2, <2>3
<1>5. \A p \in DOMAIN next : WasTried(p)' <=> WasTried(p) \/ p = curr
  BY <1>2 DEF WasTried
<1>6. \A p \in DOMAIN next : WasTried(p)' <=> p <= curr
  BY <1>1, <1>5
<1> QED
  BY <1>2, <1>4, <1>6

\* Behind the peers up to curr come those from next[curr] on.
LEMMA NextPeer ==
    ASSUME Chain, curr \in DOMAIN next
    PROVE  /\ next[curr] \in DOMAIN next \cup {NULL}
           /\ \A p \in DOMAIN next : p <= curr <=> next[curr] = NULL \/ p < next[curr]
<1>1. \A p \in DOMAIN next : p \in Nat
  BY DEF Chain
<1> QED
  BY <1>1 DEF Chain

\* The invariant is inductive.
LEMMA NextPeerInv == PeerInv /\ [Next]_vars => PeerInv'
<1> SUFFICES ASSUME PeerInv, [Next]_vars PROVE PeerInv'
  OBVIOUS
<1>0. Chain /\ Passed
  BY DEF PeerInv
<1>1. CASE ConfigPeer
  <2>1. Chain'
    BY <1>0, <1>1, AppendChain DEF ConfigPeer
  <2>2. /\ main = "config" /\ main' = "config" /\ tried' = <<>>
        /\ curr' = curr /\ DOMAIN next \subseteq DOMAIN next'
    BY <1>0, <1>1 DEF ConfigPeer, LL_APPEND, Passed
  <2> QED
    BY <1>0, <2>1, <2>2 DEF PeerInv, Passed
<1>2. CASE ConfigOption
  <2>1. lines' = lines + 1 /\ UNCHANGED <<main, head, next, curr, tried>>
    BY <1>2 DEF ConfigOption
  <2>2. Chain'
    BY <1>0, <2>1 DEF Chain
  <2>3. Passed'
    BY <1>0, <2>1 DEF Passed, WasTried
  <2> QED
    BY <2>2, <2>3 DEF PeerInv
<1>3. CASE SetUp
  <2>1. /\ main = "config" /\ main' = "connect" /\ curr' = head /\ UNCHANGED <<peers, tried>>
    BY <1>3 DEF SetUp
  <2>2. tried = <<>> /\ head \in DOMAIN next \cup {NULL}
    BY <1>0, <2>1 DEF Chain, Passed
  <2>3. \A p \in DOMAIN next : ~WasTried(p) /\ head # NULL /\ ~(p < head)
    <3>1. \A p \in DOMAIN next : p \in Nat
      BY <1>0 DEF Chain
    <3> QED
      BY <1>0, <2>2, <3>1 DEF Chain, WasTried
  <2>4. Passed'
    BY <1>0, <2>1, <2>2, <2>3 DEF Passed, WasTried, peers
  <2> QED
    BY <1>0, <2>1, <2>4 DEF PeerInv, Chain, peers
<1>4. CASE Connect \/ ConnectFailed
  <2>1. /\ main = "connect" /\ curr # NULL /\ curr \in DOMAIN next
        /\ tried' = Append(tried, curr) /\ UNCHANGED peers
    BY <1>0, <1>4 DEF Connect, ConnectFailed, Passed
  <2>2. \/ main' = "spawn" /\ curr' = curr
        \/ main' = "connect" /\ curr' = next[curr]
    BY <1>4, <2>1 DEF Connect, ConnectFailed
  <2>3. /\ tried' \in Seq(DOMAIN next)
        /\ \A i, j \in DOMAIN tried' : i < j => tried'[i] < tried'[j]
        /\ \A p \in DOMAIN next : WasTried(p)' <=> p <= curr
    BY <1>0, <2>1, TryPassed
  <2>4. Passed'
    BY <1>0, <2>1, <2>2, <2>3, NextPeer DEF Passed, peers
  <2> QED
    BY <1>0, <2>1, <2>4 DEF PeerInv, Chain, peers
<1>5. CASE ConnectSpawn
  <2>1. /\ main = "spawn" /\ main' = "connect" /\ curr' = next[curr]
        /\ UNCHANGED <<peers, tried>>
    BY <1>5 DEF ConnectSpawn
  <2>2. curr \in DOMAIN next /\ \A p \in DOMAIN next : WasTried(p) <=> p <= curr
    BY <1>0, <2>1 DEF Passed
  <2>3. Passed'
    BY <1>0, <2>1, <2>2, NextPeer DEF Passed, WasTried, peers
  <2> QED
    BY <1>0, <2>1, <2>3 DEF PeerInv, Chain, peers
<1>6. CASE StartThreads
  <2>1. /\ main = "connect" /\ main' = "join" /\ curr = NULL
        /\ UNCHANGED <<peers, curr, tried>>
    BY <1>6 DEF StartThreads
  <2>2. Passed'
    BY <1>0, <2>1 DEF Passed, WasTried, peers
  <2> QED
    BY <1>0, <2>1, <2>2 DEF PeerInv, Chain, peers
<1>7. CASE MainFailed \/ AcceptConn \/ (\E t \in Threads : Start(t)) \/ Quiet \/ UNCHANGED vars
  <2>1. UNCHANGED <<main, peers, curr, tried>>
    BY <1>7 DEF MainFailed, AcceptConn, Listen, ListenFailed, Accept, AcceptFailed,
       AcceptSpawn, Start, Quiet, vars
  <2> QED
    BY <1>0, <2>1 DEF PeerInv, Chain, Passed, WasTried, peers
<1> QED
  BY <1>1, <1>2, <1>3, <1>4, <1>5, <1>6, <1>7 DEF Next, Config, Main

\* Whatever the file and however the connections fail, main tries each peer once,
\* in the order of the file, before the other threads start (cs352proxy.c:917).
THEOREM PeersInOrderCorrect == Spec => []PeersInOrder
<1>1. Init => PeerInv
  BY DEF Init, PeerInv, Chain, Passed, WasTried
<1>2. PeerInv => PeersInOrder
  BY DEF PeerInv, Passed, PeersInOrder, WasTried
<1> QED
  BY <1>1, <1>2, NextPeerInv, PTL DEF Spec
=============================================================================
