------------------------------- MODULE Startup -------------------------------
(***************************************************************************)
(* From the configuration file to the TCPHandle threads: main reads the    *)
(* file line by line and chains its "peer" lines with LL_APPEND, sets up   *)
(* the tap device and the listening socket, and connects to the peers      *)
(* while acceptconn accepts.  Each of the two passes a new thread the      *)
(* address of its own variable, which its next connection overwrites.      *)
(*                                                                         *)
(* A peer is the number of its line.  Connections are numbered in the      *)
(* order in which they are made; no descriptor is ever closed, so none is  *)
(* used twice.                                                             *)
(***************************************************************************)
EXTENDS Integers, Sequences

CONSTANTS MaxLines,     \* bound: lines of the configuration file
          MaxAccepts    \* bound: calls of accept that return

ASSUME StartupAssumption == MaxLines \in Nat /\ MaxAccepts \in Nat

NULL == 0
Failed == -1
Unread == -2
Slots == {"socket_fd", "connfd"}    \* main's variable and acceptconn's

VARIABLES
    up,         \* FALSE after exit(1), a return of main, or a crash
    main,       \* main: "config", "connect", "spawn", or "join" once all threads run
    lines,      \* main: lines of the file read so far
    head,       \* the first plist of the chain of peers
    next,       \* next[p]: the plist behind peer p
    curr,       \* main: the peer it is at
    tried,      \* history: the peers connecttohost was called for
    acc,        \* acceptconn: "off", "bind", "accept" or "spawn"
    accepts,    \* how often accept has returned
    fds,        \* the number of connections made so far
    slot,       \* slot[v]: the value of variable v
    readers     \* readers[t]: what TCPHandle thread t was created for and reads

peers == <<lines, head, next>>
vars == <<up, main, peers, curr, tried, acc, accepts, fds, slot, readers>>

Init ==
    /\ up = TRUE
    /\ main = "config" /\ lines = 0 /\ head = NULL /\ next = [p \in {} |-> NULL]
    /\ curr = NULL /\ tried = <<>>
    /\ acc = "off" /\ accepts = 0
    /\ fds = 0
    /\ slot = [v \in Slots |-> Failed]
    /\ readers = <<>>
-----------------------------------------------------------------------------
(***************************************************************************)
(* main: the configuration file and the set-up.                            *)
(***************************************************************************)
\* Slip: the walk to the end of the chain is left out.
LL_APPENDHead(add) ==
    /\ head' = IF head = NULL THEN add ELSE head
    /\ next' = [p \in DOMAIN next \cup {add} |->
                   IF p = add THEN NULL ELSE IF p = head THEN add ELSE next[p]]

\* LL_APPEND walks to the one element without a successor.
LL_APPEND(add) ==
    /\ head' = IF head = NULL THEN add ELSE head
    /\ next' = [p \in DOMAIN next \cup {add} |->
                   IF p = add THEN NULL ELSE IF next[p] = NULL THEN add ELSE next[p]]

ConfigPeer ==
    /\ up /\ main = "config" /\ lines < MaxLines
    /\ lines' = lines + 1
    /\ LL_APPEND(lines + 1)
    /\ UNCHANGED <<up, main, curr, tried, acc, accepts, fds, slot, readers>>

\* Any other option the parser knows.
ConfigOption ==
    /\ up /\ main = "config" /\ lines < MaxLines
    /\ lines' = lines + 1
    /\ UNCHANGED <<up, main, head, next, curr, tried, acc, accepts, fds, slot, readers>>

\* An option it does not know, which ends main, or a value that is missing: strtok
\* returned NULL.  A failure of the tap device, the host name or the socket ends
\* main as well.
MainFailed ==
    /\ up /\ main = "config"
    /\ up' = FALSE
    /\ UNCHANGED <<main, peers, curr, tried, acc, accepts, fds, slot, readers>>

\* The end of the file; tap device and listening socket exist, acceptconn starts.
SetUp ==
    /\ up /\ main = "config"
    /\ main' = "connect" /\ curr' = head
    /\ acc' = "bind"
    /\ UNCHANGED <<up, peers, tried, accepts, fds, slot, readers>>
-----------------------------------------------------------------------------
(***************************************************************************)
(* main: connecting to the peers.                                          *)
(***************************************************************************)
Fill(v, fd) == slot' = [slot EXCEPT ![v] = fd]

\* Slip: acceptconn passes the same variable as main does.
SpawnSame(v) ==
    readers' = Append(readers, [arg |-> "socket_fd", own |-> slot[v], tcp_fd |-> Unread])

\* pthread_create(..., TCPHandle, &v).
Spawn(v) == readers' = Append(readers, [arg |-> v, own |-> slot[v], tcp_fd |-> Unread])

\* connecttohost returned a connected socket ...
Connect ==
    /\ up /\ main = "connect" /\ curr # NULL
    /\ tried' = Append(tried, curr)
    /\ fds' = fds + 1 /\ Fill("socket_fd", fds + 1)
    /\ main' = "spawn"
    /\ UNCHANGED <<up, peers, curr, acc, accepts, readers>>

\* ... or -1, and main goes on with the next peer.
ConnectFailed ==
    /\ up /\ main = "connect" /\ curr # NULL
    /\ tried' = Append(tried, curr)
    /\ Fill("socket_fd", Failed)
    /\ curr' = next[curr]
    /\ UNCHANGED <<up, main, peers, acc, accepts, fds, readers>>

ConnectSpawn ==
    /\ up /\ main = "spawn"
    /\ Spawn("socket_fd")
    /\ curr' = next[curr] /\ main' = "connect"
    /\ UNCHANGED <<up, peers, tried, acc, accepts, fds, slot>>

\* TAPHandle, sendPackets and checkLinkTimeOut start when no peer is left.
StartThreads ==
    /\ up /\ main = "connect" /\ curr = NULL
    /\ main' = "join"
    /\ UNCHANGED <<up, peers, curr, tried, acc, accepts, fds, slot, readers>>
-----------------------------------------------------------------------------
\* acceptconn: bind and listen, or exit(1).
Listen ==
    /\ up /\ acc = "bind"
    /\ acc' = "accept"
    /\ UNCHANGED <<up, main, peers, curr, tried, accepts, fds, slot, readers>>

ListenFailed ==
    /\ up /\ acc = "bind"
    /\ up' = FALSE
    /\ UNCHANGED <<main, peers, curr, tried, acc, accepts, fds, slot, readers>>

Accept ==
    /\ up /\ acc = "accept" /\ accepts < MaxAccepts
    /\ accepts' = accepts + 1
    /\ fds' = fds + 1 /\ Fill("connfd", fds + 1)
    /\ acc' = "spawn"
    /\ UNCHANGED <<up, main, peers, curr, tried, readers>>

AcceptFailed ==
    /\ up /\ acc = "accept" /\ accepts < MaxAccepts
    /\ accepts' = accepts + 1
    /\ Fill("connfd", Failed)
    /\ UNCHANGED <<up, main, peers, curr, tried, acc, fds, readers>>

AcceptSpawn ==
    /\ up /\ acc = "spawn"
    /\ Spawn("connfd")
    /\ acc' = "accept"
    /\ UNCHANGED <<up, main, peers, curr, tried, accepts, fds, slot>>
-----------------------------------------------------------------------------
\* TCPHandle: int tcp_fd = *(int*)fd, whenever the new thread first runs.
Start(t) ==
    /\ up /\ t \in DOMAIN readers /\ readers[t].tcp_fd = Unread
    /\ readers' = [readers EXCEPT ![t].tcp_fd = slot[readers[t].arg]]
    /\ UNCHANGED <<up, main, peers, curr, tried, acc, accepts, fds, slot>>

Config == ConfigPeer \/ ConfigOption \/ MainFailed \/ SetUp
Main == Connect \/ ConnectFailed \/ ConnectSpawn \/ StartThreads
AcceptConn == Listen \/ ListenFailed \/ Accept \/ AcceptFailed \/ AcceptSpawn

\* The process is gone, or nobody connects any more.
Quiet ==
    /\ ~up \/ (main = "join" /\ acc = "accept" /\ accepts = MaxAccepts
                 /\ \A t \in DOMAIN readers : readers[t].tcp_fd # Unread)
    /\ UNCHANGED vars

Threads == 1 .. (MaxLines + MaxAccepts)

Next == Config \/ Main \/ AcceptConn \/ (\E t \in Threads : Start(t)) \/ Quiet

Spec == Init /\ [][Next]_vars

\* Threads are scheduled; nothing makes accept return.
FairSpec ==
    /\ Spec
    /\ WF_vars(Config \/ Main) /\ WF_vars(Listen \/ ListenFailed \/ AcceptSpawn)
    /\ \A t \in Threads : WF_vars(Start(t))
-----------------------------------------------------------------------------
\* A thread reads the connection it was created for, or, if its creator was
\* faster, a later one or the -1 of a later failure; never an earlier one.
NeverEarlier ==
    \A t \in DOMAIN readers :
        readers[t].tcp_fd \in {Unread, Failed} \/ readers[t].tcp_fd >= readers[t].own

\* A connection is read by some thread, unless its variable was overwritten.
ReadUnlessOverwritten ==
    \A f \in Threads :
        (\E t \in DOMAIN readers : readers[t].own = f)
            ~> \/ ~up
               \/ \E t \in DOMAIN readers : readers[t].tcp_fd = f
               \/ \A v \in Slots : slot[v] # f

\* Each peer of the file is tried once, in the order of the file, before the
\* flooding and expiring threads start: a peer that cannot be reached neither ends
\* the loop nor costs another one its turn.
PeersInOrder ==
    /\ \A i, j \in DOMAIN tried : i < j => tried[i] < tried[j]
    /\ main = "join" => \A p \in DOMAIN next : \E i \in DOMAIN tried : tried[i] = p
=============================================================================
