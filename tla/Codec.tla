-------------------------------- MODULE Codec --------------------------------
(***************************************************************************)
(* The wire format of a link state packet: what sendPackets announces,     *)
(* what htonLinkstate writes and what ntohLinkstate makes of it.           *)
(*                                                                         *)
(* A node takes 36 bytes on the wire, at the same offsets for writer and   *)
(* reader, so a buffer is a row of places for nodes.  The announced length *)
(* counts 40 bytes for each, the size of a linkstate_node in memory, with  *)
(* its padding, minus a pointer.                                           *)
(*                                                                         *)
(* The packet is built without the mutex under which members join and      *)
(* expire: mem_list->head and mem_list->size change one after the other,   *)
(* and are read one after the other.  numNeighbors, which the parser only  *)
(* copies, is left out.                                                    *)
(***************************************************************************)
EXTENDS Integers, Sequences

CONSTANTS BufLen,     \* MAX_PKT_LEN
          MaxJoins    \* bound: members that ever join

Prefix    == 18       \* header, numNeighbors and source
NodeBytes == 36       \* two proxy_infos, linkweight and ID
NodeSize  == 40       \* sizeof(linkstate_node) - sizeof(linkstate_node*)
Word      == 65536    \* of a uint16_t
Junk      == 0        \* what a place held that was not written to: anything
NULL      == 0        \* no node

ASSUME CodecAssumption == /\ BufLen \in Nat /\ BufLen >= Prefix
                          /\ NodeSize * BufLen <= NodeBytes * Word
                          /\ MaxJoins \in Nat

\* head.length of create_link_packet.
Length(size) == (Prefix - 4 + NodeSize * size) % Word

\* What htonLinkstate writes for n nodes.
Written(n) == Prefix + NodeBytes * n

\* Slip: the length of the fixed fields is not subtracted.
NumNodesAll(length) == length \div NodeBytes

\* numNodes of ntohLinkstate; C divides towards zero.
NumNodes(length) == IF length < Prefix - 4 THEN 0 ELSE (length - (Prefix - 4)) \div NodeBytes

\* The places of a buffer.
Places == 1 .. (BufLen - Prefix) \div NodeBytes

VARIABLES
    up,       \* FALSE after a write behind the buffer
    oldest, newest,  \* mem_list: the members newest, newest - 1 ... oldest
    size,     \* mem_list->size
    spc,      \* sendPackets: "sleep", or what it does next: "length", "list" or "send"
    announced, list,  \* lstate: the size its length is computed from, its list
    torn,     \* history: mem_list changed while lstate was in use
    wire      \* the packet sent last, in a sequence

members == <<oldest, newest, size, torn>>
lstate  == <<spc, announced, list>>
vars    == <<up, members, lstate, wire>>

Init ==
    /\ up = TRUE
    /\ oldest = 1 /\ newest = 0 /\ size = 0
    /\ spc = "sleep" /\ announced = 0 /\ list = NULL /\ torn = FALSE
    /\ wire = <<>>
-----------------------------------------------------------------------------
(***************************************************************************)
(* Joins and expiries.  Both hold the mutex from the change of the list to *)
(* that of its size.                                                       *)
(***************************************************************************)
\* The length of mem_list, and its head.
Listed == newest + 1 - oldest
First == IF oldest <= newest THEN newest ELSE NULL

\* mem_list or its size changes, perhaps while lstate is in use.
Changed ==
    /\ up /\ torn' = (spc \in {"list", "send"})
    /\ UNCHANGED <<up, lstate, wire>>

Join ==
    /\ size = Listed /\ newest < MaxJoins
    /\ newest' = newest + 1
    /\ Changed /\ UNCHANGED <<oldest, size>>

\* Bound: members expire in the order in which they joined.
Expire ==
    /\ size = Listed /\ oldest <= newest
    /\ oldest' = oldest + 1
    /\ Changed /\ UNCHANGED <<newest, size>>

\* The size follows.
Count ==
    /\ size # Listed
    /\ size' = Listed
    /\ Changed /\ UNCHANGED <<oldest, newest>>
-----------------------------------------------------------------------------
(***************************************************************************)
(* create_link_packet, htonLinkstate and send.                             *)
(***************************************************************************)
SendCheck ==
    /\ up /\ spc = "sleep" /\ First # NULL
    /\ spc' = "length"
    /\ UNCHANGED <<up, members, announced, list, wire>>

SendLength ==
    /\ up /\ spc = "length"
    /\ announced' = size /\ torn' = (size # Listed)
    /\ spc' = "list"
    /\ UNCHANGED <<up, oldest, newest, size, list, wire>>

SendList ==
    /\ up /\ spc = "list"
    /\ list' = First
    /\ spc' = "send"
    /\ UNCHANGED <<up, members, announced, wire>>

\* The nodes from n on.  A member that has expired is not freed, and its next is
\* what it was: NULL, as the older ones went before it.
ListFrom(n) ==
    [i \in 1 .. IF n = NULL THEN 0 ELSE IF oldest <= n THEN n + 1 - oldest ELSE 1
        |-> n + 1 - i]

\* Slip: the nodes are written one place too far.
FillLate(nodes) ==
    [i \in Places |-> IF i - 1 \in DOMAIN nodes THEN nodes[i - 1] ELSE Junk]

\* htonLinkstate: buf with the nodes of a list, and behind them what was there before.
Fill(nodes) == [i \in Places |-> IF i \in DOMAIN nodes THEN nodes[i] ELSE Junk]

\* htonLinkstate and send, to one neighbour; the next one may follow.
Send ==
    LET nodes == ListFrom(list)
    IN  /\ up /\ spc = "send" /\ Written(Len(nodes)) <= BufLen
        /\ wire' = << [length |-> Length(announced), places |-> Fill(nodes),
                      announced |-> announced, torn |-> torn, members |-> nodes] >>
        /\ UNCHANGED <<up, members, lstate>>

\* ntohLinkstate.  Behind the reader's buffer there is junk.
Parsed(p) ==
    [i \in 1 .. NumNodes(p.length) |-> IF i \in Places THEN p.places[i] ELSE Junk]

\* Bound: by then the packets have been read.
SendDone ==
    /\ up /\ spc = "send"
    /\ spc' = "sleep" /\ announced' = 0 /\ list' = NULL /\ torn' = FALSE
    /\ wire' = <<>>
    /\ UNCHANGED <<up, oldest, newest, size>>

\* htonLinkstate writes behind buf.
SendOverflow ==
    /\ up /\ spc = "send" /\ Written(Len(ListFrom(list))) > BufLen
    /\ up' = FALSE
    /\ UNCHANGED <<members, lstate, wire>>

\* The process is gone, or nobody is left to join.
Quiet == (~up \/ newest = MaxJoins) /\ UNCHANGED vars

Next ==
    \/ Join \/ Expire \/ Count
    \/ SendCheck \/ SendLength \/ SendList \/ Send \/ SendDone \/ SendOverflow
    \/ Quiet

Spec == Init /\ [][Next]_vars
-----------------------------------------------------------------------------
\* Up to eight members the parser finds exactly the list that was sent, whatever the
\* buffer held before: sizes of 36 and of 40 bytes do not yet disagree.  Only a
\* change of mem_list between the reads of its size and of the list is in the way.
SmallListsExact ==
    \A k \in DOMAIN wire :
        wire[k].announced <= 8 /\ ~wire[k].torn => Parsed(wire[k]) = wire[k].members

\* However long the list that was written, and however it changed meanwhile, the
\* parser finds in order each of its members up to the announced size, although it
\* may take what follows them for further nodes.  (A size the buffer has no room for
\* can be announced if members expire before they are written.)
MembersParsed ==
    \A k \in DOMAIN wire : \A i \in DOMAIN wire[k].members :
        i <= wire[k].announced /\ Written(wire[k].announced) <= BufLen =>
            /\ i \in DOMAIN Parsed(wire[k])
            /\ Parsed(wire[k])[i] = wire[k].members[i]
=============================================================================
