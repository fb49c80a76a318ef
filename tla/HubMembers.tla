------------------------------ MODULE HubMembers ------------------------------
(***************************************************************************)
(* How a hub implements Members: a neighbour has a route if the table has  *)
(* an entry under its address, and is a member if a node of the list leads *)
(* to it, whose ID is when it was last heard from.                         *)
(***************************************************************************)
EXTENDS Hub

\* The nodes of a list that stand for the neighbour of c, the neighbours it lists,
\* and when they were last heard from.
NodesOf(h, list, c) == {n \in list : h[n].remote.macaddr = Peer[c].macaddr}
MembersOf(h, list) == {c \in Conns : NodesOf(h, list, c) # {}}
HeardOf(h, list) ==
    [c \in Conns |->
        IF NodesOf(h, list, c) = {} THEN 0 ELSE h[CHOOSE n \in NodesOf(h, list, c) : TRUE].ID]

RouteBar == {c \in Conns : find_socketfd(socketfds, Peer[c].macaddr) # NULL}
MemberBar == MembersOf(heap, ListNodes(heap, head))
HeardBar == HeardOf(heap, ListNodes(heap, head))

Abstract == INSTANCE Members WITH
    Neighbours <- Conns, time <- now,
    route <- RouteBar, member <- MemberBar, heard <- HeardBar

\* Whatever the interleaving of joins, refreshes, answers and expiries, none of
\* which is atomic in the code and some of which take no lock, the proxy forgets a
\* neighbour's route and its membership in one step, and only when that neighbour
\* itself has been silent for longer than the time-out.
ImplementsMembers == Abstract!Spec
=============================================================================
