-------------------------------- MODULE Proxy --------------------------------
(***************************************************************************)
(* One proxy process: the threads that share its membership list and its   *)
(* forwarding table, and the mutex deleterlock that some of them take.     *)
(*                                                                         *)
(*   - one TCPHandle thread per connection, which parses packets and joins *)
(*     or refreshes members;                                               *)
(*   - checkLinkTimeOut, which deletes the members it has not heard from;  *)
(*   - sendPackets, which floods the list, without taking the lock.        *)
(*                                                                         *)
(* A step of a thread reaches to its next access to shared state; lock and *)
(* unlock are separate accesses.  What the peers send is a parameter.      *)
(***************************************************************************)
EXTENDS MemberList, Sequences

CONSTANTS MyInfo,       \* my_proxy_info
          Timer,        \* the checkLinkTimeOut thread
          NoThread,     \* the holder of a free mutex
          Hello,        \* Hello[c]: what may arrive first on connection c
          Flood,        \* Flood[c]: what may arrive on c after that
          LinkTimeout,  \* linkTimeout, in ticks of the clock
          MaxTime,      \* bound: the clock stops here
          MaxAlloc,     \* bound: nodes and table entries there is memory for
          MaxSize       \* bound: expiry stops where mem_list->size is -MaxSize

Packets == [source : Infos, numNeighbors : Nat, list : Seq(Links)]

ASSUME ProxyAssumption ==
    /\ MyInfo \in Infos
    /\ Timer \notin Conns
    /\ NoThread \notin Conns \cup {Timer}
    /\ Hello \in [Conns -> SUBSET Packets]
    /\ Flood \in [Conns -> SUBSET Packets]
    /\ LinkTimeout \in Nat
    /\ MaxTime \in Nat
    /\ MaxAlloc \in Nat
    /\ MaxSize \in Nat

VARIABLES
    up,          \* "running", "exited" (PKT_QUIT), "killed" (SIGPIPE) or "crashed"
    now,         \* gettimeid()
    heap,        \* every linkstate_node linked or about to be; none is ever freed
    head,        \* mem_list->head
    size,        \* mem_list->size
    socketfds,   \* the forwarding table
    alloc,       \* the last address malloc returned
    deleterlock, \* the thread that holds the mutex
    pc,          \* pc[c]: where the TCPHandle thread of c is
    from,        \* from[c]: pkt->source
    recvd,       \* recvd[c]: pkt->list as parsed
    pos,         \* pos[c]: add_members' position in recvd[c]
    ptr,         \* ptr[c]: a node the thread has an address of
    reroute,     \* reroute[c]: pkt_sockfd if its sock_fd is about to be changed
    greeted,     \* greeted[c]: something has arrived on c
    gone,        \* gone[c]: nothing will arrive on c any more
    tpc, tptr, ttime,       \* checkLinkTimeOut: control, ptr, time
    spc, slist, sent        \* sendPackets: control, list, last entry

shared == <<heap, head, size, socketfds, alloc, deleterlock>>
reader == <<pc, from, recvd, pos, ptr, reroute, greeted, gone>>
timer  == <<tpc, tptr, ttime>>
sender == <<spc, slist, sent>>
vars   == <<up, now, shared, reader, timer, sender>>

Init ==
    /\ up = "running" /\ now = 0
    /\ heap = [n \in {} |-> NULL] /\ head = NULL /\ size = 0
    /\ socketfds = [e \in {} |-> NULL] /\ alloc = 0
    /\ deleterlock = NoThread
    /\ pc = [c \in Conns |-> "recv"]
    /\ from = [c \in Conns |-> MyInfo]
    /\ recvd = [c \in Conns |-> <<>>]
    /\ pos = [c \in Conns |-> 1]
    /\ ptr = [c \in Conns |-> NULL]
    /\ reroute = [c \in Conns |-> NULL]
    /\ greeted = [c \in Conns |-> FALSE]
    /\ gone = [c \in Conns |-> FALSE]
    /\ tpc = "sleep" /\ tptr = NULL /\ ttime = 0
    /\ spc = "sleep" /\ slist = NULL /\ sent = NULL
-----------------------------------------------------------------------------
(***************************************************************************)
(* TCPHandle: receiving a packet.                                          *)
(***************************************************************************)
At(c, label) == up = "running" /\ pc[c] = label
Goto(c, label) == pc' = [pc EXCEPT ![c] = label]

\* Back to recv(): the thread's locals are dead.
Return(c) ==
    /\ Goto(c, "recv")
    /\ recvd' = [recvd EXCEPT ![c] = <<>>]
    /\ pos' = [pos EXCEPT ![c] = 1]
    /\ ptr' = [ptr EXCEPT ![c] = NULL]

\* recv() returned the link state packet p, and it has a node.
Arrives(c, p) ==
    /\ At(c, "recv") /\ ~gone[c]
    /\ p \in IF greeted[c] THEN Flood[c] ELSE Hello[c]

Receive(c, p) ==
    /\ Arrives(c, p) /\ p.list # <<>>
    /\ greeted' = [greeted EXCEPT ![c] = TRUE]
    /\ UNCHANGED <<up, now, shared, reroute, gone, timer, sender>>

\* Slip: the lookup of the source is forgotten, so every packet joins.
UnknownAlways(p) == p.source.macaddr \in Macs

\* The source has no entry, looked up without the lock.
Unknown(p) == find_socketfd(socketfds, p.source.macaddr) = NULL

\* comp_mac_zero(list->remote.macaddr) != 0, which holds of a zero address.
ZeroRemote(list) == Head(list).remote.macaddr = ZeroMac

\* The source is known: add_members(pkt->list, tcp_fd).
RecvKnown(c) == \E p \in Hello[c] \cup Flood[c] :
    /\ Receive(c, p) /\ ~Unknown(p)
    /\ Goto(c, "members")
    /\ from' = [from EXCEPT ![c] = p.source]
    /\ recvd' = [recvd EXCEPT ![c] = p.list]
    /\ UNCHANGED <<pos, ptr>>

\* The source is unknown and one of the two join branches applies.
RecvJoin(c) == \E p \in Hello[c] \cup Flood[c] :
    /\ Receive(c, p) /\ Unknown(p)
    /\ ZeroRemote(p.list) \/ p.numNeighbors = 1
    /\ Goto(c, "addsock")
    /\ from' = [from EXCEPT ![c] = p.source]
    /\ recvd' = [recvd EXCEPT ![c] = p.list]
    /\ UNCHANGED <<pos, ptr>>

\* The source is unknown and neither branch applies: the packet is dropped.
RecvIgnored(c) == \E p \in Hello[c] \cup Flood[c] :
    /\ Receive(c, p) /\ Unknown(p)
    /\ ~ZeroRemote(p.list) /\ p.numNeighbors # 1
    /\ Return(c)
    /\ UNCHANGED from

\* A packet without nodes: pkt->list is never assigned, lies outside the block
\* malloc returned, and is dereferenced.
RecvEmpty(c) == \E p \in Hello[c] \cup Flood[c] :
    /\ Arrives(c, p) /\ p.list = <<>>
    /\ up' = "crashed"
    /\ UNCHANGED <<now, shared, reader, timer, sender>>

\* Nothing more will arrive on c; its thread stays in recv().
Silence(c) ==
    /\ At(c, "recv") /\ ~gone[c]
    /\ gone' = [gone EXCEPT ![c] = TRUE]
    /\ UNCHANGED <<up, now, shared, timer, sender, pc, from, recvd, pos, ptr,
                   reroute, greeted>>

\* PKT_LEAVE: the branch only prints, and the peer leaves.
RecvLeave(c) == Silence(c)

\* The connection is lost: recv() returns 0 or -1 from now on, and the loop
\* calls it again.  Nothing is deleted and the socket is not closed.
LostConnection(c) == Silence(c)

\* PKT_QUIT: exit(1).
RecvQuit(c) ==
    /\ At(c, "recv") /\ ~gone[c]
    /\ up' = "exited"
    /\ UNCHANGED <<now, shared, reader, timer, sender>>
-----------------------------------------------------------------------------
(***************************************************************************)
(* TCPHandle: the two join branches.  Both add a table entry, without the  *)
(* lock, and then a node under it; the second one also answers.            *)
(***************************************************************************)
\* addsockfd, then malloc and gettimeid for the node of the link to the source.
JoinAdd(c) ==
    LET node == alloc + 2
        link == Head(recvd[c])
        mac  == IF ZeroRemote(recvd[c]) THEN from[c].macaddr ELSE link.local.macaddr
    IN  /\ At(c, "addsock") /\ alloc + 2 <= MaxAlloc
        /\ socketfds' = addsockfd(socketfds, alloc + 1, from[c].macaddr, c)
        /\ heap' = NewNode(heap, node, MyInfo,
                           [ip |-> from[c].ip, macaddr |-> mac], 1, now)
        /\ alloc' = node
        /\ ptr' = [ptr EXCEPT ![c] = node]
        /\ Goto(c, "joinlock")
        /\ UNCHANGED <<up, now, head, size, deleterlock, from, recvd, pos, reroute, greeted, gone, timer, sender>>

\* pthread_mutex_lock of thread t.
Lock(t) == deleterlock = NoThread /\ deleterlock' = t

\* Slip: a return without unlock.
UnlockForgotten == UNCHANGED deleterlock

\* pthread_mutex_unlock: glibc's default mutex does not check who unlocks it.
Unlock == deleterlock' = NoThread

\* Slip: the branch inserts its node without taking the mutex.
JoinLockMissing(c) ==
    /\ At(c, "joinlock")
    /\ Goto(c, "insert")
    /\ UNCHANGED <<up, now, shared, from, recvd, pos, ptr, reroute, greeted, gone,
                   timer, sender>>

JoinLock(c) ==
    /\ At(c, "joinlock") /\ Lock(c)
    /\ Goto(c, "insert")
    /\ UNCHANGED <<up, now, heap, head, size, socketfds, alloc, from, recvd, pos,
                   ptr, reroute, greeted, gone, timer, sender>>

\* The node becomes the head of the list ...
JoinInsert(c) ==
    /\ At(c, "insert")
    /\ heap' = Push(heap, head, ptr[c])
    /\ head' = ptr[c]
    /\ ptr' = [ptr EXCEPT ![c] = NULL]
    /\ Goto(c, "count")
    /\ UNCHANGED <<up, now, size, socketfds, alloc, deleterlock, from, recvd, pos,
                   reroute, greeted, gone, timer, sender>>

\* ... and is counted.  The first branch goes on with add_members, the second one
\* with the reply.
JoinCount(c) ==
    /\ At(c, "count")
    /\ size' = size + 1
    /\ Unlock
    /\ Goto(c, IF ZeroRemote(recvd[c]) THEN "members" ELSE "reply")
    /\ UNCHANGED <<up, now, heap, head, socketfds, alloc, from, recvd, pos, ptr,
                   reroute, greeted, gone, timer, sender>>

\* The reply is built from mem_list without the lock: its head is read ...
ReplyList(c) ==
    /\ At(c, "reply")
    /\ ptr' = [ptr EXCEPT ![c] = head]
    /\ Goto(c, "truncate")
    /\ UNCHANGED <<up, now, shared, from, recvd, pos, reroute, greeted, gone, timer,
                   sender>>

\* ... and lspkt2->list->next = NULL cuts the list behind that head, and the
\* one node is sent.
ReplySend(c) ==
    /\ At(c, "truncate") /\ ptr[c] # NULL
    /\ heap' = [heap EXCEPT ![ptr[c]].next = NULL]
    /\ Return(c)
    /\ UNCHANGED <<up, now, head, size, socketfds, alloc, deleterlock, from,
                   reroute, greeted, gone, timer, sender>>

\* The list was emptied in between: the assignment dereferences NULL.
ReplyCrash(c) ==
    /\ At(c, "truncate") /\ ptr[c] = NULL
    /\ up' = "crashed"
    /\ UNCHANGED <<now, shared, reader, timer, sender>>

\* The reply is sent without MSG_NOSIGNAL: if the connection is lost by then, SIGPIPE
\* ends the process.
ReplyKilled(c) ==
    /\ At(c, "truncate") /\ ptr[c] # NULL
    /\ up' = "killed"
    /\ UNCHANGED <<now, shared, reader, timer, sender>>
-----------------------------------------------------------------------------
(***************************************************************************)
(* TCPHandle: add_members and add_member_connect.  The loop of add_members *)
(* advances by ptr->next, which add_member_connect overwrites when it puts *)
(* the node in mem_list: from then on the loop walks mem_list itself.      *)
(* ptr[c] is NULL while the loop is in the received list.                  *)
(***************************************************************************)
\* ptr = ptr->next, and the loop's test.  The last node that ntohLinkstate
\* parsed has an uninitialised next, unless it is also the first one.
MembersNext(c) ==
    /\ At(c, "members")
    /\ IF ptr[c] = NULL
       THEN /\ pos[c] <= Len(recvd[c])
            /\ UNCHANGED ptr
       ELSE /\ heap[ptr[c]].next # NULL
            /\ ptr' = [ptr EXCEPT ![c] = heap[ptr[c]].next]
    /\ Goto(c, "memberlock")
    /\ UNCHANGED <<up, now, shared, from, recvd, pos, reroute, greeted, gone,
                   timer, sender>>

MembersDone(c) ==
    /\ At(c, "members")
    /\ IF ptr[c] = NULL THEN pos[c] > Len(recvd[c]) ELSE heap[ptr[c]].next = NULL
    /\ Return(c)
    /\ UNCHANGED <<up, now, shared, from, reroute, greeted, gone, timer, sender>>

MembersWild(c) ==
    /\ At(c, "members")
    /\ ptr[c] = NULL /\ pos[c] > Len(recvd[c]) /\ Len(recvd[c]) > 1
    /\ up' = "crashed"
    /\ UNCHANGED <<now, shared, reader, timer, sender>>

MemberLock(c) ==
    /\ At(c, "memberlock") /\ Lock(c)
    /\ Goto(c, "member")
    /\ UNCHANGED <<up, now, heap, head, size, socketfds, alloc, from, recvd, pos,
                   ptr, reroute, greeted, gone, timer, sender>>

\* The node add_member_connect is called with, and the parts of its tests.
Subject(c) == IF ptr[c] = NULL THEN recvd[c][pos[c]] ELSE heap[ptr[c]]
Listed(c) == find_socketfd(socketfds, Subject(c).remote.macaddr)
\* Slip: only a zero address is taken for this proxy.
IsMeZeroOnly(c) == Subject(c).remote.macaddr = ZeroMac
IsMe(c) == Subject(c).remote.macaddr \in {ZeroMac, MyInfo.macaddr}
Opposite(c) == Reverse(heap, Subject(c).local, Subject(c).remote)
Finder(c) == FirstOf(heap, head, Opposite(c))

\* One received node is done and was not put in mem_list.
Skip(c) ==
    /\ pos' = IF ptr[c] = NULL THEN [pos EXCEPT ![c] = @ + 1] ELSE pos
    /\ Goto(c, "members")
    /\ Unlock
    /\ UNCHANGED ptr

\* in_member_list never returns on a cyclic list without the node: the thread
\* loops for ever and keeps the lock.
MemberSpin(c) ==
    /\ At(c, "member")
    /\ Listed(c) # NULL \/ IsMe(c)
    /\ ~Terminates(heap, head, Opposite(c))
    /\ Goto(c, "spin")
    /\ UNCHANGED <<up, now, shared, from, recvd, pos, ptr, reroute, greeted, gone,
                   timer, sender>>

\* The link leads to this proxy: refresh the node of the opposite direction.
MemberRefresh(c) ==
    /\ At(c, "member")
    /\ Listed(c) = NULL /\ IsMe(c)
    /\ Terminates(heap, head, Opposite(c))
    /\ heap' = IF Finder(c) = NULL THEN heap ELSE [heap EXCEPT ![Finder(c)].ID = now]
    /\ Skip(c)
    /\ UNCHANGED <<up, now, head, size, socketfds, alloc, from, recvd, reroute, greeted, gone, timer, sender>>

\* The remote end is known and so is the opposite direction: nothing to do.
MemberKnown(c) ==
    /\ At(c, "member")
    /\ Listed(c) # NULL
    /\ Terminates(heap, head, Opposite(c)) /\ Finder(c) # NULL
    /\ Skip(c)
    /\ UNCHANGED <<up, now, heap, head, size, socketfds, alloc, from, recvd, reroute, greeted, gone, timer, sender>>

\* Put the subject at the head of mem_list.  A received node gets address n; a
\* node the loop met in mem_list is moved to its front where it stands.
LinkSubject(c, n, weight) ==
    LET s == Subject(c)
        h == IF ptr[c] = NULL
             THEN NewNode(heap, n, s.local, s.remote, weight, now)
             ELSE [heap EXCEPT ![n].linkweight = weight, ![n].ID = now]
    IN  /\ heap' = Push(h, head, n)
        /\ head' = n
        /\ ptr' = [ptr EXCEPT ![c] = n]
        /\ Goto(c, "membercount")
        /\ UNCHANGED <<up, now, size, deleterlock, from, recvd, pos, greeted,
                       gone, timer, sender>>

\* A new member: addsockfd and a node.
MemberNew(c) ==
    LET n == IF ptr[c] = NULL THEN alloc + 2 ELSE ptr[c]
    IN  /\ At(c, "member") /\ alloc + 2 <= MaxAlloc
        /\ Listed(c) = NULL /\ ~IsMe(c)
        /\ socketfds' = addsockfd(socketfds, alloc + 1, Subject(c).remote.macaddr, c)
        /\ alloc' = alloc + 2
        /\ LinkSubject(c, n, (Subject(c).linkweight + 1) % WeightMod)
        /\ UNCHANGED reroute

\* The remote end is known but the opposite direction is not: a node at the
\* distance through the reporting proxy, and the route if that is shorter.
MemberRelink(c) ==
    LET s      == Subject(c)
        n      == IF ptr[c] = NULL THEN alloc + 1 ELSE ptr[c]
        weight == (s.linkweight + LowestSavedDistance(heap, head, s.local.macaddr))
                     % WeightMod
        saved  == LowestSavedDistance(heap, head, s.remote.macaddr)
    IN  /\ At(c, "member") /\ n <= MaxAlloc
        /\ Listed(c) # NULL
        /\ Terminates(heap, head, Opposite(c)) /\ Finder(c) = NULL
        /\ alloc' = IF ptr[c] = NULL THEN n ELSE alloc
        /\ LinkSubject(c, n, weight)
        /\ reroute' = [reroute EXCEPT ![c] = IF weight < saved THEN Listed(c) ELSE NULL]
        /\ UNCHANGED socketfds

\* The new node is counted, and if its way is the shorter one the route follows it.
MemberCount(c) ==
    /\ At(c, "membercount")
    /\ size' = size + 1
    /\ socketfds' = [e \in DOMAIN socketfds |->
           IF e = reroute[c] THEN [socketfds[e] EXCEPT !.sock_fd = c] ELSE socketfds[e]]
    /\ reroute' = [reroute EXCEPT ![c] = NULL]
    /\ Unlock
    /\ Goto(c, "members")
    /\ UNCHANGED <<up, now, heap, head, alloc, from, recvd, pos, ptr, greeted,
                   gone, timer, sender>>

\* No result of malloc is checked: without memory the process crashes.
OutOfMemory(c) ==
    /\ \/ At(c, "addsock") /\ alloc + 2 > MaxAlloc
       \/ At(c, "member") /\ Listed(c) = NULL /\ ~IsMe(c) /\ alloc + 2 > MaxAlloc
       \/ At(c, "member") /\ Listed(c) # NULL /\ ptr[c] = NULL /\ alloc + 1 > MaxAlloc
             /\ Terminates(heap, head, Opposite(c)) /\ Finder(c) = NULL
    /\ up' = "crashed"
    /\ UNCHANGED <<now, shared, reader, timer, sender>>
-----------------------------------------------------------------------------
(***************************************************************************)
(* checkLinkTimeOut: removeExpiredMembers and delete_members.              *)
(***************************************************************************)
TimerLock ==
    /\ up = "running" /\ tpc = "sleep" /\ Lock(Timer)
    /\ tpc' = "expire" /\ tptr' = head /\ ttime' = now
    /\ UNCHANGED <<up, now, heap, head, size, socketfds, alloc, reader, sender>>

\* Slip: the comparison is the wrong way round.
ExpiredReversed(n) == ttime - heap[n].ID < LinkTimeout

Expired(n) == ttime - heap[n].ID > LinkTimeout

TimerKeep ==
    /\ up = "running" /\ tpc = "expire" /\ tptr # NULL /\ ~Expired(tptr)
    /\ tptr' = heap[tptr].next
    /\ UNCHANGED <<up, now, shared, reader, tpc, ttime, sender>>

\* delete_members(tptr) deletes the first node with tptr's remote address.
\* deletesockfd unlocks the mutex when the address has no entry.  On a cyclic
\* list without such a node delete_members never returns.
TimerDelete ==
    LET mac  == heap[tptr].remote.macaddr
        same == SameRemote(heap, mac)
        x    == FirstOf(heap, head, same)
        ends == Terminates(heap, head, same)
    IN  /\ up = "running" /\ tpc = "expire" /\ tptr # NULL /\ Expired(tptr)
        /\ size > -MaxSize
        /\ tpc' = IF x # NULL THEN "count" ELSE IF ends THEN "expire" ELSE "spin"
        /\ tptr' = IF x = NULL /\ ends THEN heap[tptr].next ELSE tptr
        /\ IF x = NULL
           THEN UNCHANGED <<heap, head, socketfds, deleterlock>>
           ELSE /\ socketfds' = deletesockfd(socketfds, mac)
                /\ IF find_socketfd(socketfds, mac) = NULL
                   THEN Unlock
                   ELSE UNCHANGED deleterlock
                /\ heap' = Unlink(heap, head, same, x)
                /\ head' = IF x = head THEN heap[x].next ELSE head
        /\ UNCHANGED <<up, now, size, alloc, reader, ttime, sender>>

\* The deletion is counted, and the search goes on behind the expired node.
TimerCount ==
    /\ up = "running" /\ tpc = "count"
    /\ size' = size - 1
    /\ tpc' = "expire" /\ tptr' = heap[tptr].next
    /\ UNCHANGED <<up, now, heap, head, socketfds, alloc, deleterlock, reader, ttime,
                   sender>>

TimerDone ==
    /\ up = "running" /\ tpc = "expire" /\ tptr = NULL
    /\ Unlock
    /\ tpc' = "sleep" /\ ttime' = 0
    /\ UNCHANGED <<up, now, heap, head, size, socketfds, alloc, reader, tptr, sender>>
-----------------------------------------------------------------------------
(***************************************************************************)
(* sendPackets: create_link_packet reads the list three times, and the     *)
(* table is walked, all without the lock.                                  *)
(***************************************************************************)
SendCheck ==
    /\ up = "running" /\ spc = "sleep" /\ head # NULL
    /\ spc' = "length"
    /\ UNCHANGED <<up, now, shared, reader, timer, slist, sent>>

\* length and numNeighbors come from mem_list->size; malloc fails if that is
\* negative ...
SendLength ==
    /\ up = "running" /\ spc = "length" /\ size >= 0
    /\ spc' = "list"
    /\ UNCHANGED <<up, now, shared, reader, timer, slist, sent>>

\* ... and the nodes from mem_list->head.
SendList ==
    /\ up = "running" /\ spc = "list"
    /\ slist' = head /\ spc' = "send"
    /\ UNCHANGED <<up, now, shared, reader, timer, sent>>

Later == {e \in DOMAIN socketfds : e > sent}

\* htonLinkstate and send() to the next entry.  If the entry sent to last was
\* freed meanwhile, its hh.next is read from freed memory and any may come next.
SendTo(e) ==
    /\ up = "running" /\ spc = "send" /\ Terminates(heap, slist, {})
    /\ \/ e \in Later /\ \A f \in Later : e <= f
       \/ sent # NULL /\ sent \notin DOMAIN socketfds
    /\ sent' = e
    /\ UNCHANGED <<up, now, shared, reader, timer, spc, slist>>

SendDone ==
    /\ up = "running" /\ spc = "send"
    /\ Later = {} \/ (sent # NULL /\ sent \notin DOMAIN socketfds)
    /\ spc' = "sleep" /\ slist' = NULL /\ sent' = NULL
    /\ UNCHANGED <<up, now, shared, reader, timer>>

\* Without nodes lstate->list lies behind its block, and the allocator may notice;
\* htonLinkstate runs past its buffer on a cyclic list; a freed entry may fault.
SendCrash ==
    /\ up = "running"
    /\ \/ spc = "length" /\ size <= 0
       \/ spc = "send" /\ Later # {} /\ ~Terminates(heap, slist, {})
       \/ spc = "send" /\ sent # NULL /\ sent \notin DOMAIN socketfds
    /\ up' = "crashed"
    /\ UNCHANGED <<now, shared, reader, timer, sender>>
-----------------------------------------------------------------------------
Tick ==
    /\ up = "running" /\ now < MaxTime
    /\ now' = now + 1
    /\ UNCHANGED <<up, shared, reader, timer, sender>>

\* The process is gone.
Down == up # "running" /\ UNCHANGED vars

Join(c) ==
    \/ JoinAdd(c) \/ JoinInsert(c) \/ JoinCount(c)
    \/ ReplyList(c) \/ ReplySend(c) \/ ReplyCrash(c) \/ ReplyKilled(c)

AddMembers(c) ==
    \/ MembersNext(c) \/ MembersDone(c) \/ MembersWild(c)
    \/ MemberSpin(c) \/ MemberRefresh(c) \/ MemberKnown(c)
    \/ MemberNew(c) \/ MemberRelink(c) \/ MemberCount(c) \/ OutOfMemory(c)

Recv(c) == RecvKnown(c) \/ RecvJoin(c) \/ RecvIgnored(c) \/ RecvEmpty(c)
           \/ RecvLeave(c) \/ LostConnection(c) \/ RecvQuit(c)

TCPHandle(c) == Recv(c) \/ Join(c) \/ JoinLock(c) \/ AddMembers(c) \/ MemberLock(c)

CheckLinkTimeOut == TimerKeep \/ TimerDelete \/ TimerCount \/ TimerDone

SendPackets ==
    \/ SendCheck \/ SendLength \/ SendList
    \/ \E e \in DOMAIN socketfds : SendTo(e)
    \/ SendDone \/ SendCrash

Next ==
    \/ \E c \in Conns : TCPHandle(c)
    \/ TimerLock \/ CheckLinkTimeOut
    \/ SendPackets
    \/ Tick \/ Down

Spec == Init /\ [][Next]_vars

(***************************************************************************)
(* Threads are scheduled: each takes its next step if that stays enabled,  *)
(* and gets the mutex if that is free again and again.  Nothing makes a    *)
(* peer send.                                                              *)
(***************************************************************************)
Fairness ==
    /\ \A c \in Conns : /\ WF_vars(Join(c) \/ AddMembers(c))
                        /\ SF_vars(JoinLock(c))
                        /\ SF_vars(MemberLock(c))
    /\ SF_vars(TimerLock)
    /\ WF_vars(CheckLinkTimeOut)
    /\ WF_vars(SendPackets)
    /\ WF_vars(Tick)

FairSpec == Spec /\ Fairness
-----------------------------------------------------------------------------
(***************************************************************************)
(* Properties.                                                             *)
(***************************************************************************)
HeapOK ==
    /\ alloc \in Nat
    /\ DOMAIN heap \subseteq 1 .. alloc
    /\ heap \in [DOMAIN heap -> Nodes]
    /\ \A n \in DOMAIN heap : heap[n].next \in DOMAIN heap \cup {NULL}
    /\ head \in DOMAIN heap \cup {NULL}
    /\ size \in Int

TableOK ==
    /\ DOMAIN socketfds \subseteq 1 .. alloc
    /\ socketfds \in [DOMAIN socketfds -> Entries]

ReaderOK ==
    /\ pc \in [Conns -> {"recv", "addsock", "joinlock", "insert", "count", "reply",
                         "truncate", "members", "memberlock", "member",
                         "membercount", "spin"}]
    /\ from \in [Conns -> Infos]
    /\ recvd \in [Conns -> Seq(Links)]
    /\ pos \in [Conns -> Nat \ {0}]
    /\ ptr \in [Conns -> DOMAIN heap \cup {NULL}]
    /\ reroute \in [Conns -> Nat]
    /\ greeted \in [Conns -> BOOLEAN]
    /\ gone \in [Conns -> BOOLEAN]

TimerOK ==
    /\ tpc \in {"sleep", "expire", "count", "spin"}
    /\ tptr \in DOMAIN heap \cup {NULL}
    /\ ttime \in Nat

SenderOK ==
    /\ spc \in {"sleep", "length", "list", "send"}
    /\ slist \in DOMAIN heap \cup {NULL}
    /\ sent \in Nat

\* The values the program's variables may take, in any network: no thread comes
\* to hold an address that was never allocated, whatever it reads unlocked.
TypeOK ==
    /\ up \in {"running", "exited", "killed", "crashed"}
    /\ now \in Nat
    /\ deleterlock \in Conns \cup {Timer, NoThread}
    /\ HeapOK /\ TableOK /\ ReaderOK /\ TimerOK /\ SenderOK

Critical(c) == pc[c] \in {"insert", "count", "member", "membercount", "spin"}
TimerCritical == tpc \in {"expire", "count", "spin"}

\* deleterlock is held by exactly the thread that is between its lock and its
\* unlock call: the unlock of deletesockfd, taken when a listed member has no
\* table entry, never releases the mutex under removeExpiredMembers.
LockOwned ==
    /\ \A c \in Conns : Critical(c) <=> deleterlock = c
    /\ TimerCritical <=> deleterlock = Timer

\* No thread loops for ever in in_member_list or delete_members.
NoSpin == tpc # "spin" /\ \A c \in Conns : pc[c] # "spin"

\* Every member of the list can be routed to: the unlocked addsockfd of a join
\* and the locked deletesockfd of an expiry cannot leave a member without entry.
ListInTable ==
    \A n \in ListNodes(heap, head) :
        find_socketfd(socketfds, heap[n].remote.macaddr) # NULL

\* A member is listed once, so delete_members deletes the node that expired.
ListedOnce ==
    \A m, n \in ListNodes(heap, head) :
        heap[m].remote.macaddr = heap[n].remote.macaddr => m = n

\* mem_list->size when the thread in the critical section has counted what it did.
Counted ==
    size + (IF \E c \in Conns : pc[c] \in {"count", "membercount"} THEN 1 ELSE 0)
         - (IF tpc = "count" THEN 1 ELSE 0)

\* mem_list->size never falls short of the list by more than what the holder of the
\* mutex is about to count: the nodes a reply cuts off stay counted, and no deletion
\* is counted twice.  A packet may still announce fewer nodes than it has, because
\* create_link_packet reads size and head in different states.
SizeCoversList == Cardinality(ListNodes(heap, head)) <= Counted

\* What SelfNeverMember supposes of the network: nobody has this proxy's address, or
\* one that strlen cannot tell from it.
HonestNetwork ==
    /\ \A mac \in Macs : StrKey[mac] = StrKey[MyInfo.macaddr] => mac = MyInfo.macaddr
    /\ \A c \in Conns : \A p \in Hello[c] \cup Flood[c] : p.source.macaddr # MyInfo.macaddr

\* A neighbour that expired this proxy may go on listing a link this proxy reported
\* to it, and no other.  The second join branch takes the address from that link.
Misnamed ==
    \E c \in Conns : \E p \in Hello[c] \cup Flood[c] :
        /\ p.numNeighbors = 1 /\ p.list # <<>> /\ ~ZeroRemote(p.list)
        /\ Head(p.list).local.macaddr = MyInfo.macaddr

\* No route leads to this proxy itself, although its neighbours flood their links to
\* it: add_member_connect looks for its own MAC only if that has no route, and the
\* branch for members that have one does not look.  Nor does a member, unless a join
\* made it from a misnamed packet.
SelfNeverMember ==
    /\ \A e \in DOMAIN socketfds : socketfds[e].macaddr # MyInfo.macaddr
    /\ \A n \in DOMAIN heap : heap[n].remote.macaddr = MyInfo.macaddr =>
           heap[n].local = MyInfo /\ Misnamed

\* mem_list becomes cyclic only when add_members walks mem_list itself and
\* add_member_connect moves a node that is already in it to the front.
CycleOnlyByRelink ==
    [][ Terminates(heap, head, {}) /\ ~Terminates(heap, head, {})'
          => \E c \in Conns : /\ pc[c] = "member"
                              /\ ptr[c] \in ListNodes(heap, head)
                              /\ head' = ptr[c] ]_vars

\* mem_list->size is the length of the list, except while the thread that changed
\* the list has not counted yet.
SizeExact == Cardinality(ListNodes(heap, head)) = Counted

\* A route belongs to a member of the list, which an expiry will find, or to one
\* whose join is between addsockfd and the insertion of its node.
TableInList ==
    \A e \in DOMAIN socketfds :
        \/ \E n \in ListNodes(heap, head) : heap[n].remote.macaddr = socketfds[e].macaddr
        \/ pc[socketfds[e].sock_fd] \in {"joinlock", "insert"}

\* A peer nothing arrives from is dropped from the table once it has timed out,
\* provided the bounded clock leaves room for its time-out.
SilentPeerForgotten ==
    \A c \in Conns :
        (gone[c] /\ now + LinkTimeout < MaxTime)
            ~> (up # "running" \/ \A e \in DOMAIN socketfds : socketfds[e].sock_fd # c)

\* "Every predefined period the proxy will check": the search for expired members
\* starts again and again, and ends each time.  A process that is gone does not search
\* any more.
ChecksRecur ==
    /\ (tpc # "expire") ~> (tpc = "expire" \/ up # "running")
    /\ (tpc = "expire") ~> (tpc = "sleep" \/ up # "running")

\* The same, where a process that crashed over a list without end is not excused.
Excused == up \in {"exited", "killed"} \/ (up = "crashed" /\ Terminates(heap, head, {}))

ChecksContinue ==
    /\ (tpc # "expire") ~> (tpc = "expire" \/ Excused)
    /\ (tpc = "expire") ~> (tpc = "sleep" \/ Excused)
=============================================================================
