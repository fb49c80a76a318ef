------------------------------ MODULE MemberList ------------------------------
(***************************************************************************)
(* The data a proxy keeps about the overlay, and the functions that read   *)
(* and update it: the singly linked membership list (mem_list, a chain of  *)
(* linkstate_node) and the forwarding hash table (socketfds, from MAC      *)
(* address to socket).                                                     *)
(*                                                                         *)
(* A heap is a function from node addresses (positive integers) to nodes;  *)
(* NULL is address 0.  A list is whatever following "next" from its head   *)
(* visits, so it may be cyclic, as the lists of the program may.  A table  *)
(* is a function from entry addresses to entries.  Addresses grow with     *)
(* every malloc: a larger entry address is a more recent HASH_ADD.         *)
(***************************************************************************)
EXTENDS Integers, FiniteSets

CONSTANTS Macs,       \* hardware addresses that occur on the wire
          Ips,        \* IPv4 addresses that occur on the wire
          ZeroMac,    \* 00:00:00:00:00:00
          StrKey,     \* what strlen leaves of a MAC: its bytes before the first 0
          Conns,      \* TCP connections; each is a socket and the thread reading it
          WeightMod   \* linkweight is a uint32_t: arithmetic is modulo 2^32

ASSUME DataAssumption ==
    /\ ZeroMac \in Macs
    /\ DOMAIN StrKey = Macs
    /\ WeightMod \in Nat /\ WeightMod > 2

NULL == 0

\* struct proxy_info; portno takes part in no decision and is left out.
Infos == [ip : Ips, macaddr : Macs]

\* A linkstate_node as it travels: without ID (overwritten on receipt) and next.
Links == [local : Infos, remote : Infos, linkweight : 0 .. WeightMod - 1]

Nodes == [local : Infos, remote : Infos, linkweight : 0 .. WeightMod - 1,
          ID : Nat, next : Nat]

\* struct proxy_socketfd
Entries == [macaddr : Macs, sock_fd : Conns]
-----------------------------------------------------------------------------
(***************************************************************************)
(* Traversals.  Every loop over the list starts at "from", follows next,   *)
(* and leaves at the first node of "stop".  Visited is the set of nodes    *)
(* such a loop sees: the least set that contains from and the successor of *)
(* each of its nodes outside stop.                                         *)
(***************************************************************************)
ClosedUnder(heap, from, stop, S) ==
    /\ from # NULL => from \in S
    /\ \A n \in S \ stop : heap[n].next # NULL => heap[n].next \in S

Visited(heap, from, stop) ==
    LET closed == {S \in SUBSET DOMAIN heap : ClosedUnder(heap, from, stop, S)}
    IN  {n \in DOMAIN heap : \A S \in closed : n \in S}

\* The loop ends: it meets a node of stop or the end of the chain.  It does not
\* on a cyclic chain without a node of stop.
Terminates(heap, from, stop) ==
    \/ from = NULL
    \/ \E n \in Visited(heap, from, stop) : n \in stop \/ heap[n].next = NULL

\* Where a loop that terminates stopped; NULL when it ran off the end.
FirstOf(heap, from, stop) ==
    IF Visited(heap, from, stop) \cap stop = {}
    THEN NULL
    ELSE CHOOSE n \in Visited(heap, from, stop) : n \in stop

\* The nodes of the list that starts at head.
ListNodes(heap, head) == Visited(heap, head, {})

\* in_member_list's test: nodes for the opposite direction of the link, by IP.
Reverse(heap, local, remote) ==
    {n \in DOMAIN heap : /\ heap[n].local.ip = remote.ip
                         /\ heap[n].remote.ip = local.ip}

\* delete_members' test.
SameRemote(heap, mac) == {n \in DOMAIN heap : heap[n].remote.macaddr = mac}

\* get_lowest_saved_distance.  dist starts at (int)-1 and is compared with an
\* unsigned weight, so -1 acts as the largest uint32_t.
LowestSavedDistance(heap, head, mac) ==
    LET weights == {heap[n].linkweight : n \in ListNodes(heap, head) \cap SameRemote(heap, mac)}
    IN  CHOOSE d \in weights \cup {WeightMod - 1} :
            \A w \in weights \cup {WeightMod - 1} : d <= w

(***************************************************************************)
(* Updates of the list.                                                    *)
(***************************************************************************)
\* malloc of a node and its initialisation.
NewNode(heap, n, local, remote, weight, time) ==
    [m \in DOMAIN heap \cup {n} |->
        IF m = n
        THEN [local |-> local, remote |-> remote, linkweight |-> weight,
              ID |-> time, next |-> NULL]
        ELSE heap[m]]

\* Slip: mem_list->head is assigned before ptr->next is read from it.
PushSelf(heap, head, n) == [heap EXCEPT ![n].next = n]

\* Node n becomes the head of the list that head starts.
Push(heap, head, n) == [heap EXCEPT ![n].next = head]

\* Slip: the commented-out free(curr) is put back.
UnlinkFree(heap, head, stop, x) ==
    [m \in DOMAIN heap \ {x} |->
        IF m \in Visited(heap, head, stop) /\ heap[m].next = x
        THEN [heap[m] EXCEPT !.next = heap[x].next]
        ELSE heap[m]]

\* Slip: prev stays NULL, so a node behind the head is not unlinked.
UnlinkNoPrev(heap, head, stop, x) == heap

\* delete_members' unlinking of node x, the first one of stop.
Unlink(heap, head, stop, x) ==
    [m \in DOMAIN heap |->
        IF m \in Visited(heap, head, stop) \ {x} /\ heap[m].next = x
        THEN [heap[m] EXCEPT !.next = heap[x].next]
        ELSE heap[m]]

(***************************************************************************)
(* The forwarding table.  HASH_ADD_STR and HASH_FIND_STR take strlen of    *)
(* the address for the length of the key, so addresses that agree up to    *)
(* their first zero byte are the same key.  HASH_ADD does not look for an  *)
(* equal key; it puts the entry at the front of its bucket, so HASH_FIND   *)
(* meets the most recent one, as FindUnlessRaced of UtHash shows of tables *)
(* whose buckets were never doubled: none here has as many entries.        *)
(***************************************************************************)
Matches(table, mac) == {e \in DOMAIN table : StrKey[table[e].macaddr] = StrKey[mac]}

find_socketfd(table, mac) ==
    IF Matches(table, mac) = {}
    THEN NULL
    ELSE CHOOSE e \in Matches(table, mac) : \A f \in Matches(table, mac) : f <= e

addsockfd(table, e, mac, fd) ==
    [f \in DOMAIN table \cup {e} |->
        IF f = e THEN [macaddr |-> mac, sock_fd |-> fd] ELSE table[f]]

\* Slip: the entry is found and not removed.
deletesockfdKept(table, mac) == table

\* Slip: HASH_CLEAR for HASH_DEL.
deletesockfdClear(table, mac) == [f \in {} |-> NULL]

deletesockfd(table, mac) ==
    [f \in DOMAIN table \ {find_socketfd(table, mac)} |-> table[f]]
=============================================================================
