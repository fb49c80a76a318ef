# A verification of the VLAN proxy

The program is a user-level bridge: each host runs one proxy (`src/cs352proxy.c`)
that reads Ethernet frames from a tap device and exchanges them with other proxies
over TCP. A proxy keeps a list of the links it knows (`mem_list`) and a table from
hardware addresses to sockets (`socketfds`). Proxies learn of each other from link
state packets, which they flood periodically, and forget members they have not heard
from. Six kinds of thread share the list and the table; one mutex, `deleterlock`,
protects part of what they do.

This directory holds TLA+ models of that program, TLC runs that check them on small
instances, and TLAPS proofs for instances of every size.

## 1. Inventory

| Component | Source | State | Operations |
|---|---|---|---|
| Membership list | `cs352proxy.c` 139-318, `packets.h` | `mem_list->head`, `mem_list->size`, nodes chained by `next` | `in_member_list`, `get_lowest_saved_distance`, `add_members`, `add_member_connect`, `delete_members`, `removeExpiredMembers` |
| Forwarding table | `cs352proxy.c` 34-132, `uthash.h` | `socketfds` | `addsockfd`, `deletesockfd`, `find_socketfd` |
| TCPHandle, one thread per connection | `cs352proxy.c` 557-777 | its locals; it writes list and table | receive a packet; join, refresh or ignore its source; leave, quit, lost connection |
| checkLinkTimeOut, one thread | `cs352proxy.c` 299-318, 390-396 | `ptr`, `time` | search the list and delete expired members |
| sendPackets, one thread | `cs352proxy.c` 328-382 | the packet being sent | read the list, send it to every table entry |
| Packet codec | `packets.c`, `packets.h`, `helper.c` | none | `hton...`, `ntoh...` |
| Connections and start-up | `cs352proxy.c` 402-525, 780-955 | descriptors, peers of the configuration file | `main`, `connecttohost`, `acceptconn` |
| TAPHandle, one thread | `cs352proxy.c` 531-555 | none | copy a frame to every table entry |
| TAP device, helpers | `helper.c` | none | `allocate_tunnel`, address comparisons, `gettimeid` |
| uthash, utlist (vendored) | `uthash.h`, `utlist.h` | list and buckets of the table, chain of peers | `HASH_ADD_STR`, `HASH_FIND_STR`, `HASH_DEL`, bucket expansion, `LL_APPEND` |
| Previous program | `cs352proxy_old.c` | | not built by the makefile |

**How they interact.** The threads communicate through `mem_list` and `socketfds`
only. `deleterlock` is held while a join inserts its node (lines 662-675, 717-730),
in `add_member_connect` (207-292) and in `removeExpiredMembers` (301-317). It is *not*
held when a packet's source is looked up (632), when a join adds its table entry
(639, 685), when the reply of a join is built (734-753), in `create_link_packet` or in
the walk of `sendPackets` over the table. Proxies interact through TCP: the first packet
of a connection is sent by `connecttohost`, its answer by the second join branch,
all others by `sendPackets`.

**What is hard.** Steps of two threads between a lookup and the insertion it
justifies; an unlock inside `deletesockfd` on behalf of its caller; `next` pointers
that serve two lists at once, the received one and `mem_list`; the reply of a join,
which cuts `mem_list`; a mutex held by a thread that never leaves its loop; a peer that
is gone and only a time-out can tell; a refresh that races with the time-out; a byte
stream that is read as if each `recv` were one packet.
`PROJECT.json` lists each hazard at its line.

**What makes each component correct.** The list is acyclic, has each member once, and
its size field covers it once the holder of the mutex has counted. Every listed member has a route, and every route a member
(or one about to be inserted). The mutex is held by exactly the thread between
its lock and its unlock call. A search for expired members recurs and ends. A silent
peer is forgotten. The packet that is sent describes the list. A descriptor is read by
one thread. What one proxy writes, another one parses. The peers of the configuration file
are tried one after the other. The table's list and buckets agree, and a lookup finds what
was added. A connected neighbour is not forgotten, a silent one is in time.

## 2. Plan

1. `MemberList`: list and table as data (done).
2. `Proxy`: the three kinds of thread that share them, with crashes, time-outs and lost
   connections; the network is a parameter (done).
3. `Hub`, `MCHub`, `MCMesh`: what may arrive, for a hub whose neighbours know nobody else
   and for a proxy in a larger overlay (done).
4. `MemberListProofs`, `ProxyProofs`, `HubProofs`: type correctness in any network, the
   safety invariants in a hub (done).
5. `Members`, what a proxy promises of its neighbours, and `HubMembers`, how a hub
   implements it: checked by TLC for a pair, proved for every hub in `HubMembersProofs` (done).
6. `Codec`, `CodecProofs`: sizes and offsets of the link state packet (done).
7. `Startup`, `StartupProofs`: the peers of the configuration file, and the descriptor that
   `acceptconn` and `main` hand over by its address (done).
8. `Stream`: the byte stream between two proxies, with packets that arrive together or in
   pieces, the frames of `TAPHandle` among them, and the periods of the threads; `StreamProofs`
   (done).
9. `UtHash`, `MCUtHash`: the table's list and buckets, and the steps of an insertion that runs
   into another one or into a deletion (done).
10. `Proxy` with the two assignments of an insertion apart (`head`, then `size`), and `Codec`
   with the reads of both: what the readers without the mutex see in between (done).
11. Theorems beyond a hub: `CycleOnlyByRelink` in every network and `SelfNeverMember` in every
    one where nobody else claims this proxy's address; `size` and table for a single neighbour;
    `ExpiredForCause` of `Stream`; a table of uthash of any size, `UtHashProofs` (done).
12. Theorems: what remains of `ListInTable` in an overlay, where two nodes may share an entry and
   the first of them to expire takes it along; an invariant of cut and cyclic lists is missing.

A model of several complete proxies is not planned any more: as soon as one proxy reports
another, the list of the third is cyclic (`mesh_checks`), so what an overlay promises (who
learns of whom, which distances result) fails on its first step, and `MCMesh` has that step.

## 3. The modules

### MemberList

A *heap* is a function from addresses to `linkstate_node`s, `NULL` is 0, and a list is
whatever following `next` from a head visits. This is what makes the interesting
behaviour expressible: lists that are cyclic, cut short, or shared. `Visited(heap, from,
stop)` is the set of nodes a loop sees that leaves at the first node of `stop`, defined
as a least fixed point, without recursion, so that it can be reasoned about.
`Terminates` says that such a loop ends, and `FirstOf` where. Every loop of
the source is one of these two: `in_member_list` is `FirstOf` with `Reverse`,
`delete_members` is `FirstOf` with `SameRemote` followed by `Unlink`,
`get_lowest_saved_distance` folds over `ListNodes`.

The table is a function from entry addresses to entries. `HASH_ADD` does not look for
an equal key, and `HASH_FIND` meets the most recent equal one, as `UtHash` shows of a table
that has not expanded; both use `strlen` of the address as the key's length, so keys are
compared through `StrKey`, which cuts them at the first zero byte.

Port numbers are left out (no decision reads them). Weights are modulo `WeightMod`,
which stands for 2^32: `get_lowest_saved_distance` starts at -1 and compares unsigned.

### Proxy

One action is what a thread does between two accesses to shared state that another
thread could interleave with; lock and unlock are accesses.

| Source | Actions |
|---|---|
| `recv`, source looked up (566-635) | `RecvKnown`, `RecvJoin`, `RecvIgnored` |
| a packet without nodes (615-621) | `RecvEmpty` |
| leave, quit, lost connection (572-611) | `RecvLeave`, `RecvQuit`, `LostConnection` |
| the two join branches (635-753) | `JoinAdd`, `JoinLock`, `JoinInsert`, `JoinCount`, `ReplyList`, `ReplySend`, `ReplyCrash`, `ReplyKilled` |
| `add_members` (197-204) | `MembersNext`, `MembersDone`, `MembersWild` |
| `add_member_connect` (206-294) | `MemberLock`, `MemberRefresh`, `MemberKnown`, `MemberNew`, `MemberRelink`, `MemberCount`, `MemberSpin` |
| `malloc` without a check | `OutOfMemory` |
| `removeExpiredMembers` (299-318) | `TimerLock`, `TimerKeep`, `TimerDelete`, `TimerCount`, `TimerDone` |
| `create_link_packet`, `sendPackets` (328-382) | `SendCheck`, `SendLength`, `SendList`, `SendTo`, `SendDone`, `SendCrash` |
| the clock | `Tick` |

Points where the model is exact because the code is unusual:

- `add_members` advances by `ptr->next`, which `add_member_connect` overwrites when it
  puts the node in `mem_list`. `ptr[c]` is NULL while the loop is in the received
  list (position `pos[c]`) and an address once it walks `mem_list` itself.
- `comp_mac_zero` returns 0 for an address that is *not* zero, so the first join branch
  (`!= 0`) takes zero addresses.
- `deletesockfd` unlocks the mutex of its caller when it finds no entry (line 85).
- The last of several parsed nodes has an uninitialised `next`: `MembersWild` is the
  outcome that the program follows it; `MembersDone` the one that it happens to be NULL.
- An entry freed by an expiry while `sendPackets` stands on it may lead anywhere:
  `SendTo` allows any entry, `SendDone` the end, `SendCrash` a fault.
- `head` is assigned first and `size` counts in a step of its own (`JoinCount`, `MemberCount`,
  `TimerCount`), so that whoever reads them without the mutex may find the one without the other.
- A packet built while the list was emptied, or before its first member was counted, announces
  no nodes. The sender then writes
  `lstate->list` behind a block that was allocated without room for it (`SendLength` goes on,
  `SendCrash` is the allocator noticing), and the receiver dereferences a pointer outside
  the block it allocated (`RecvEmpty`). With a negative size `malloc` fails.
- A loop over a cyclic list without its target does not end: `MemberSpin` and the "spin"
  branch of `TimerDelete` keep the mutex for ever.
- A lost connection changes nothing: `recv` is called again for ever. The answer of a join, though,
  is sent without `MSG_NOSIGNAL` and may meet the loss with SIGPIPE (`ReplyKilled`).

`up` is "running", "exited" (a quit packet calls `exit(1)`), "killed" (SIGPIPE) or "crashed" (a
NULL or wild dereference, a write behind a buffer, an unchecked `malloc`).

What is abstracted: probe and data packets (they touch neither list nor table), printing,
the port, byte order and layout. `create_link_packet` reads `mem_list->size` three times in a
row, which is one step here (`SendLength`), and then `mem_list->head`, which is another one
(`SendList`). The number of neighbours that the answer of a join announces, `mem_list->size` at line
744, is left out: it decides what the peer does (line 681), and what peers send is a parameter.
`htonLinkstate`'s walk of the list is one step. A call of uthash is one step (`UtHash` has several).
A critical section is two steps, up to the change of the list and from the count on, and the loops of
`add_members` and `removeExpiredMembers` are as many as they have rounds.

### Hub, MCHub, MCMesh

`Proxy` leaves open what arrives. `Hub` assumes neighbours that know nobody but this
proxy, so that each packet holds the one link between the two. Its first packet may have
any remote address: `connecttohost` does not know it and sends what `malloc` left there. A neighbour that has expired this proxy while it built a
packet sends none; `pair` has such packets.
It also assumes that the neighbours' addresses stay different when cut at a zero byte.
`MCHub` instantiates it with one connection (a pair of proxies) or two (a server of one
neighbour that is the client of another).

`MCMesh` instantiates `Proxy` directly: a server `q` that floods its other neighbours'
links in front of the one to this proxy, and a client `r` that is connected to `q` as well. If `q`
has expired this proxy it may still list the link to `r` that this proxy reported (`Stale`).

### Members, HubMembers

`Members` has no list, no table, no addresses, no threads and no mutex: a neighbour has a
route (`route`), is a member (`member`) and was last heard from at some time (`heard`). `Route` and
`Join` are apart because the code adds the table entry long before the node. `Forget` is the
promise: route and membership go in one step, and only for a neighbour that has been silent
for longer than the time-out. `Cut` is in it because the code does it: the reply of a join
drops members whose routes stay. `HubMembers` maps `Proxy` to it: `RouteBar` from the
table, `MemberBar` and `HeardBar` from the nodes of the list and their IDs, `time` from the
clock.

### Startup

`ConfigPeer` (with `LL_APPEND`), `ConfigOption` and `SetUp` are `main` up to its loop over the
peers; `MainFailed` is its returns and the dereference of a missing value. `main` and
`acceptconn` each keep the current descriptor in one variable and pass its
address to the new thread, which reads it when it first runs (`Start`). `Connect`,
`ConnectFailed`, `ConnectSpawn`, `StartThreads` are `main`'s loop over the peers;
`Listen`, `ListenFailed`, `Accept`, `AcceptFailed`, `AcceptSpawn` are `acceptconn`. A failed
call stores -1 in the same variable. Connections are numbered in the order in which they are made, because
no descriptor is ever closed. `main`'s variable is declared in the body of its loop; the
makefile builds without optimisation, so it keeps its place on the stack. `Proxy` assumes
that each connection got its thread: it describes what happens then.

### Codec

`SendCheck`, `SendLength` and `SendList` are `create_link_packet`, `Send` is `htonLinkstate` and `send`
to one neighbour, and `Parsed` what `recv` and `ntohLinkstate` make of the packet. Members join
(`Join`) and expire (`Expire`) at any time, head first and size after (`Count`), because the packet
is built without their mutex: `torn` records that the list changed between the reads. A list is
written as it is when it is written (`ListFrom`), to the second neighbour perhaps longer or shorter than to
the first. Writer and reader use the same offsets, so buffers are rows of places for nodes;
the arithmetic on lengths is exact, with 18, 36 and 40 bytes and 16-bit words. The
sender's buffer is never cleared, so that a place holds anything (`Junk`) before it is written;
so it is for a reader that runs behind its own buffer. What `lstate->list` overwrites when no node was
announced is in `Proxy` (`SendCrash`).

### Stream

Two connected proxies and the two directions of their TCP connection, at the level of packets. One
`recv` returns any number of the packets that are there, the last one perhaps in part
(`Returned`, `Remaining`), and `TCPHandle` takes what it returns for one packet:

- if a link state packet comes first, the rest is dropped (`RecvLink`): the source joins or
  is renewed, and a join answers unless the address was zero;
- if a frame comes first, everything goes to the tap device with it (`RecvOther`), and the
  rest of a packet whose start was returned earlier has no known type.

`TAPHandle` adds frames, and on a lost connection it may be killed by SIGPIPE
(`TAPHandleKilled`), since `write` has no `MSG_NOSIGNAL`. `SendPackets` and `CheckLinkTimeOut` have
the periods of the configuration file. `Stop` is the end of a process, `LostConnection` of the
connection. `missed` records whether a link state packet was taken for something else and
not made up for yet, `stopped` which ends stopped by themselves.

Without `MSG_NOSIGNAL` is the answer of a join, too (`RecvLinkKilled`).

Time: a tick is the unit of `gettimeid`, in which ages are compared with the time-out. A `sleep` lasts at
least as long as it says, so a thread may be up to `WakeDelay` ticks late, and what was sent may
wait to be read for up to `ReadDelay` ticks, on its way and behind other work of the thread
(`Patient`). Both are constants: without any bound on them nothing could be said of a time-out. A handler
is one step, as `Proxy` has its interleavings, and `knows` stands for list and table, which agree
with a single neighbour (run `pair`).

### UtHash, MCUtHash

The same table as the function `socketfds` of `MemberList`, as uthash stores it: one list of all
items in the order of their addition, a chain for each bucket, counts, and the doubling of
the buckets with its "ineffective expansion" rule. `HASH_ADD` is three steps (`AddLink`,
`AddTail`, `AddBucket`), `HASH_DELETE` is two (`DeleteUnlink`, `DeleteBucket`), or one for the only
item, which frees the table (`DeleteLast`). `deletesockfd`'s lookup is part of the first one: an
entry that is not found changes nothing. `Corrupt` is a call that reads freed memory or follows a
cyclic chain. `raced` records that a call began during another one: the code takes the mutex
for deletions and not for additions.

A chain is `Path(i, succ)`: the item at each place that following `succ` from `i` comes to, and
`NULL` from its end on. A loop over a chain is a set of places: `HASH_FIND` takes the first one
with the key, and the doubling takes the places of an old bucket whose items go to a new one
(`Moved`). `NewHandle` and `NewBuckets` say at once what its two nested loops come to: each item is
put at the front of its new bucket, so the last one moved is its head. Buckets are chosen by a
remainder, which for the powers of two that the program has is its bit mask.

### The proof modules

`MemberListProofs` (loops, pushes, unlinking, on any heap), `ProxyProofs` (types, any
network), `HubProofs` (the invariants of a hub), `HubMembersProofs` (the refinement),
`StartupProofs`, `CodecProofs`, `StreamProofs`, `UtHashProofs` (a table of any size). See
section 6.

## 4. The runs

| Run | Instance | Checks | Shows |
|---|---|---|---|
| `pair` | one connection, 4 ticks, time-out 1, fair | `SizeExact`, `TableInList`, `ChecksRecur`, `SilentPeerForgotten`, `ImplementsMembers` | list, size and table agree through joins, refreshes, expiries, rejoins; searches recur and end; a silent peer is forgotten; all of it implements `Members` |
| `star` | two connections | `LockOwned`, `NoSpin`, `ListInTable`, `ListedOnce`, `RouteIsDirect`, `SizeCoversList` | the invariants of a hub under all interleavings |
| `mesh` | one connection, `q` reports `r` | `TypeOK`, `CycleOnlyByRelink` | types survive cut and cyclic lists; there is one way to make a cycle |
| `triangle` | two connections, no ticks | `SelfNeverMember` | no route leads to this proxy, although it is reported to itself; it lists itself only after a packet that sends its own link back |
| `startup` | up to three lines, two accepts, fair | `NeverEarlier`, `PeersInOrder`, `ReadUnlessOverwritten` | peers are tried in the order of the file; a thread reads its own or a later connection; only overwriting its variable loses one |
| `codec` | up to 11 members, ten places | `SmallListsExact`, `MembersParsed` | up to eight members arrive exactly unless the list changed between the reads; longer or changed lists arrive with surplus nodes, but with each member up to the announced size |
| `uthash` | five items of four keys, one adder | `FsckUnlessRaced`, `WalkUnlessRaced`, `FindUnlessRaced`, `ChainsBounded` | calls that do not overlap keep list, buckets and counts right through expansions; lookups find the last item added (any one, once expanded); chains keep to their bounds |
| `stream` | period 1, time-out 2, threads up to 1 late, two frames, fair | `ForgottenInTime`, `ExpiredForCause`, `Settles` | a lost neighbour is forgotten within two time-outs and one delay, a connected one only if a packet was misread; what is lost among frames is made up for |

Runs that refute what a document or comment says of the program:

| Run | Property | What the code does |
|---|---|---|
| `star_forgotten` | `SilentPeerForgotten` | line 747 cuts the list, and the members behind the cut are never expired |
| `mesh_checks` | `ChecksContinue` | a report of a third proxy makes the list cyclic: the process hangs, or crashes over the list that has no end (other ends of the process are `Excused`) |
| `uthash_race` | `Fsck` | two joins at the same time leave the table as `HASH_FSCK` would reject it |
| `stream_pipe` | `TimedOutDeleted` | a frame written to a lost connection ends the process before the neighbour has timed out |

Smaller disagreements, which the models show without a run of their own:

- `PKT_LEAVE` only prints (`RecvLeave`), although the comments on `deletesockfd` and
  `delete_members` say that a leave packet deletes (lines 66, 168).
- The branch commented "On initial connect the remote macaddr will be 0's" (line 686) takes
  the addresses that are not zero; the other one sends no answer, which `README2.txt` (line
  15) promises (`JoinInsert`).
- `main` connects to its peers without waiting for the thread that binds the port
  (`Connect`, `Listen`), against the order of `README2.txt`, line 13.
- The announced length is not "the number of bytes in the packets minus the header"
  (`packets.c`, line 83): it counts 40 bytes for each node of 36 (`Length`, `Written`).
- `create_link_packet` "takes the membership list and makes it into a linkstate_pkt" (line
  325), but length and list are read at different times (`SendLength`, `SendList`), so the
  packet may announce another number of nodes than it has (`torn` in `Codec`).
- Of two unknown proxies in a packet only the first is added, because line 243 overwrites the
  pointer the loop goes on with (`MemberNew`, `MembersNext`); `README2.txt`, line 17, says "any".
- "spawns threads for each connection" (`README2.txt`, line 13): of two connections in quick
  succession both threads may read the second (`Start`; line 511).
- A proxy whose first packet lists two neighbours never joins (`RecvIgnored`; line 681),
  so that a server with two members is never joined by its second client: its answer to it
  announces both (line 744).
- A member may have this proxy's own address (`Misnamed`): the second join branch takes the address
  from the packet's link and not from its source (lines 699-704).

Deadlock is checked in every run. `Down` is the only step of a process that is gone; the
clock ends at `MaxTime`, but the timer can always search again. `Quiet` is the rest of
`Startup` when nobody connects any more and of `Codec` when nobody joins; the clock of `Stream`
runs for ever, its counters being cut off where nothing depends on them.

Each property of a passing run has a mutant, an operator marked "Slip" beside the one it
replaces, that makes the kind of mistake the property is there to find: a lookup
forgotten, a lock missing, an entry kept, an assignment swapped with a read.

## 5. Bounds and fairness

- `MaxTime`: the clock stops. With `LinkTimeout` 0 one tick is enough for a member to
  expire and for a refresh or rejoin to race with that; `pair` uses 4 ticks and a time-out
  of 1, so that a member can be refreshed, expire, rejoin and expire again.
- `MaxAlloc`: nodes and entries that can be allocated. A join takes two. Six allow
  three joins, so that each of two neighbours can join and one of them rejoin. Beyond the
  bound the process runs out of memory and crashes, which real ones may.
- `MaxSize`: a repeated expiry on a cyclic or cut list may decrement `size` without end;
  -4 is beyond anything a hub reaches.
- `WeightMod` 8 in place of 2^32: -1 is 7, above every distance that occurs.
- Two connections: every race in this code is between two threads and a timer.
- `triangle` has no ticks, so nothing expires there: its property is about what is entered, and
  neither an address nor a node's ends ever change. `mesh`, which has one connection, has expiries in
  a larger overlay.
- `startup`: three lines, so that a peer is appended to a chain of two and lines of other
  options come between, and two accepts, so that each variable can be overwritten; each
  call may fail. Thread start-up is the only race, and it is between two of a kind.
- `codec`: `BufLen` is 400 in place of 2052, so that ten nodes fill it and the eleventh
  overflows; nine are where the sizes of 36 and 40 bytes first disagree. Members expire in
  the order in which they joined. Eleven joins suffice for the list to grow past each bound, and to
  be short again after some have expired.
- `uthash`: one bucket at first and a threshold of two in place of 32 and 10, so that five
  items double the buckets more than once; two items share a key; the hash values of three
  items agree in all the bits that choose a bucket, and so do those of the two others, from which
  the first doubling parts them: an expansion can leave one bucket full and others empty.
  `MaxBuckets` stops the doubling that such values would go on with. Giving up expansion
  (`noexpand`) takes eight items that collide; what is proved covers it. `uthash_race` has two
  adders.
- `stream`: period 1, time-out 2, threads up to one tick late, any phase of the threads; what was sent is
  read within its tick. This time-out is the least one with room for the period and the delay
  (`Punctual`); the configurations in the repository have 10 and 15 seconds, and 54 and 900. With a time-out one
  tick shorter TLC finds a neighbour that expires with nothing misread, and so it does for the other
  instances tried, with a delay of reading as well: the assumption cannot be weakened. In particular,
  with a time-out as long as the period a neighbour expires as soon as a flood is the
  least bit late. `ReadDelay` is 0 in this run because its states are many; `stream_pipe` has 1, and the
  proofs cover any. Two frames: one is enough to hide a flood, and the second hides the answer as
  well. `stream_pipe` needs one.

No symmetry is used: the connections play different roles.

*Fairness.* Threads are scheduled, hence weak fairness of each thread's steps. A thread
that waits for the mutex gets it if it is free again and again (strong fairness of
`JoinLock`, `MemberLock`, `TimerLock`): the holders release it and then sleep or wait for
packets. The clock advances. Nothing forces a peer to send, to leave or to stay, and
`recv` steps are not fair, nor is `accept` in `Startup`, where only `main`, the threads it
made and `acceptconn`'s own steps are. `SilentPeerForgotten` starts from a peer that is silent,
with enough of the bounded clock left. In `Stream` the threads of each end run and the clock
advances (weak fairness of `Threads` and `Tick`): TCP delivers what was sent as long as the connection lasts,
so a `recv` with something to read returns. No frame has to come and no connection has to be
lost. `Settles` excepts the case that both ends forget each other with nothing on its way
(`Isolated`): neither floods an empty list, and nobody connects again; TLC reaches it.

## 6. Proofs

All constants are arbitrary: any number of connections, any packets that the assumptions
allow, any time-out, any clock.

**Any network** (`ProxyProofs`). `TypeCorrect == Spec => []TypeOK`. Not
inductive alone: `Positions` adds that a thread that is about to use a received node has
one. The step that matters is that no thread ever holds an address that was not allocated
although it read it without the lock, that cut and unlinked nodes stay nodes, and that the
fallback distance stays a 32-bit number.

`CyclesByRelinkOnly == Spec => CycleOnlyByRelink`: of all that the threads do to the list,
inserting, cutting, unlinking and moving nodes, only the move of a node that is listed already
can close a cycle. `FreshInv` is needed for the insertion of a join, which writes a node that
it allocated before it waited for the mutex: until then no other thread has that node and
nothing in the heap leads to it.

`NeverOwnMember`: in a network where no source gives this proxy's address for its own
(`HonestNetwork`), no route names it. The invariant adds `JoinsOther`: what a join is about to enter
comes from somebody else, as it was when its source was looked up. A *member* may name this proxy: the
second join branch takes the address from the local end of the packet's link, which is this proxy's
in the packet of a neighbour that has expired this proxy but not yet what this proxy had reported to it.
`Misnamed` is that packet, a real neighbour can send it (`triangle` has it), and without it
no member names this proxy either; nor does one that `add_members` entered, with it.

**A hub of any size** (`HubProofs`). `MutexCorrect`, `SearchesEnd`, `MembersRouted`,
`MembersListedOnce`, `SizeSuffices`, `RoutesDirect` state for every hub what `star` checks
for two neighbours. `SizeSuffices` is about the variables: `size`, with what the holder of the mutex is about to
count (`Counted`), is at least the length of the list. It does not say that a packet announces
all its nodes, which is refuted by a join between `SendLength` and `SendList`; see `Codec` for what it means to
the receiver. All six follow from one inductive invariant, `HubInv`:

- the list: no chain of the heap is cyclic (`Acyclic`: every nonempty set of nodes has one
  that leads out of it), every node stands for a neighbour, and the properties themselves;
- the table: each route leads to the neighbour itself, from whom something has arrived;
- `Received(c)`: a thread works on its neighbour's one link, and in `add_members` that link
  leads to this proxy. This needs the table part: a packet whose remote address is
  arbitrary can only be the first one, and then its source has no route yet;
- `Joining(c)`: from the lookup to the insertion the neighbour is not listed; from
  `addsockfd` on its route exists and its node waits outside the list with nothing leading
  to it. This is what makes the unlocked lookup and the unlocked `addsockfd` harmless: no
  other thread joins the same neighbour, and an expiry deletes only addresses of
  listed nodes.

The argument for the mutex closes the circle: the expired address belongs to a listed
node (`FirstOf`), listed nodes have routes (`ListInTable`), so `deletesockfd` finds its
entry and does not unlock. The searches end because the list is acyclic
(`AcyclicTerminates`). The list lemma that took most thought is `UnlinkList`: deleting the
first match of a search takes the node off the list, because whatever leads to it on an
acyclic list comes before it (`BeforeStop`). `HubInv` was first checked by TLC on `star`.

**A hub implements `Members`** (`HubMembersProofs`). `HubImplementsMembers == Spec =>
ImplementsMembers`: each initial state maps to one of `Members`, and each step to a step of it
or to none. A join maps to `Route` when it adds its table entry and to `Join` when it inserts
its node, with the time it noted in between; its answer maps to `Cut`, a refresh to
`Refresh`, the deletion of an expired node to `Forget`. `HubInv` does not suffice:

- `RoutesOnce`: a neighbour has one table entry, and none while it is about to get one;
  without it `deletesockfd` would leave a second route behind;
- `SearchOnce`: the nodes that `checkLinkTimeOut` has before it (`Ahead`) may have been cut off the list since it
  began, by an answer that does not take the mutex, but none of them names a member that
  another node stands for. So the node `delete_members` finds by its address is the one
  that expired;
- `TimesInv`: no time was noted before it came, so that a neighbour that has expired when the
  search began has been silent for longer than the time-out now.

The lemmas on lists need inclusions in the other direction here: what a push or an unlinking
leaves on the list (`PushKeeps`, `UnlinkKeeps`).

**Two proxies** (`HubMembersProofs`). With a single neighbour (`SingleNeighbour`) `PairSizeExact` and
`PairTableInList` hold for any clock, time-out and memory; with two neighbours the cut of an
answer refutes both. `PairInv`: the list has no node or one, and `Counted` says which; a route
without a listed node is one whose join is not finished. It needs the invariant of the refinement, which
keeps the neighbour from being listed twice.

**Start-up** (`StartupProofs`). `NeverEarlierCorrect` and `PeersInOrderCorrect`, for any file and
any number of accepts. The invariants: the variable of a thread that has not read it yet holds -1 or a connection
at least as new as the thread's own (`Waiting`), and a variable holds a connection when a
thread is about to be created for it (`Filled`); the chain of peers leads from each one to
the next one of the file, and those tried are the ones before the current one.

**Stream** (`StreamProofs`). `ForgottenInTimeCorrect`, for any period, time-out and delay. The invariant
relates two clocks: for a neighbour that is known, its age and the time until the next search is due
add up to two time-outs at most (`SearchInTime`). A tick moves one to the other, and a search that
leaves a neighbour on the list has found its age to be at most one time-out.

`ExpiredForCauseCorrect`, for any time-out with room for the longest way between two renewals: the
period, one delay of the sender, and two of reading (`Punctual`). `PromptInv` says what keeps a proxy
known as long as no link state packet was missed: its age and the time until the other end floods add up
to a period at most, or a packet that renews it is on its way, and how long that has waited counts as
well; and if the other end has forgotten it, its own flood comes within the period and is answered
(`Prompt`). While one end has missed a packet and the answer to its next one has not
made good for it, only the weaker `Mutual` holds, of two ends that know each other.

**uthash** (`UtHashProofs`). `WalkInOrder`, `FindFindsKey`, `TableConsistent` and `ChainsStayBounded`,
for any items, keys, hash values, threshold and number of buckets, as long as no call begins during
another one (`raced`; `uthash_race` shows what happens then). `HashInv`, first checked by
TLC on an instance of four items and two adders, has three parts:

- `Calls`: at most one call is under way, and how far it is;
- `List`: `next`, `prev` and the tail follow the order of the additions, except at the end of the
  list between the two halves of an insertion;
- `Buckets`: there is a *rank*, a number for each item, that every chain descends: the head of a
  bucket is the highest of its items, the successor of an item the highest below it, its
  predecessor the lowest above it. An insertion gives its item a rank above all others,
  a deletion changes none, and a doubling turns the rank round (`Turned`), since it puts the items
  of each chain at the front of new ones, one after the other. Until then the rank is the order of
  the additions (`Latest`), which is why a lookup finds the latest item only as long as the table has
  not expanded.

A rank makes a chain a finite descending path without induction along it: `SortedEnds` and
`SortedCovers` follow from the least place, or the highest item, that would be an exception. `Halved`
is the arithmetic of the doubling: items of one new bucket come from one old bucket.

The bound on the chains needs more than the bucket at hand: a doubling allows a new bucket more than
the threshold (`expand_mult`) if it has more than its share, and "its share" grows with the
table. `Bounded` adds that the sum of these factors over all buckets is at most the number of
buckets (`Pairs` counts it). With that, a table has less than `2 * num_buckets * Threshold` items
(`ItemsBounded`), so that after the next one the share of a bucket of the doubled table is at most the threshold
(`IdealEnough`); and as each factor is what its bucket has in whole shares, their sum is at most the number of
buckets again (`PairsBounded`). The proof corrected the property: a doubling *can* leave a bucket with
exactly as many items as its bound, where only the next add doubles again. uthash's "keeps a bound on the chain
length" (`uthash.h`, line 645) is kept in this form.

**Codec** (`CodecProofs`). `SmallListsCorrect` and `MembersArrive`, for any buffer whose
packets have a 16-bit length, with joins and expiries between any two steps of `sendPackets`. `Sizes` is the
arithmetic: `(40 * n) \div 36` is at least `n`, and equal to it up to 8. The invariant says that a packet on
the wire holds its members at the front of its places, and that what was announced is the
length of the list that is written unless `torn`.

Assumptions: `DataAssumption`, `ProxyAssumption`, `HubAssumption`, `StartupAssumption`,
`CodecAssumption`, `StreamAssumption`, `UtHashAssumption`, each evaluated by TLC on the instances.
Three theorem groups have hypotheses of their own: `HonestNetwork`, which `MCMesh` evaluates on the
networks of `mesh` and `triangle`, `SingleNeighbour`, of which `pair` is the instance, and `Punctual`, of
which `stream` is one.

**Only model-checked.** Liveness (`ChecksRecur`, `SilentPeerForgotten`, `ReadUnlessOverwritten`,
`Settles`), which is out of the prover's reach. All other properties of the passing runs are proved.

## 7. Not modelled

Option values, host names and `allocate_tunnel`'s system calls are pure input and output; what
`main` does when one of them fails is `MainFailed`. Probe packets are printed and change nothing.
Proxies that send what this program never sends are outside `Hub` and `Codec`. The packets other
than link state ones are copied field by field, both ways alike. uthash's sorting, selecting, clearing, its Bloom filter and its other
hash functions, and all of `utlist.h` except `LL_APPEND`, are not used by the program.
`cs352proxy_old.c`, the one-connection program of an earlier part, is not built by the makefile.
`quitAfter` and the keys of the configuration file are read and never used.
