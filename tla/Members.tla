------------------------------- MODULE Members -------------------------------
(***************************************************************************)
(* What a proxy promises of its neighbours, without lists, addresses,      *)
(* threads or locks: it gets a route to a neighbour, then lists it as a    *)
(* member and notes when it heard from it.  It forgets route and member    *)
(* together, and only once the neighbour has been silent for longer than   *)
(* the time-out.                                                           *)
(*                                                                         *)
(* Cut is no promise that anyone wants: answering one neighbour may drop   *)
(* other members, whose routes stay.                                       *)
(***************************************************************************)
EXTENDS Integers

CONSTANTS Neighbours, LinkTimeout

VARIABLES
    time,    \* the clock
    route,   \* the neighbours that can be sent to
    member,  \* the neighbours on the list
    heard    \* heard[c]: when member c was last heard from; 0 for all others

vars == <<time, route, member, heard>>

Init ==
    /\ time = 0
    /\ route = {} /\ member = {}
    /\ heard = [c \in Neighbours |-> 0]

Route(c) ==
    /\ c \notin route
    /\ route' = route \cup {c}
    /\ UNCHANGED <<time, member, heard>>

\* The time noted may be past: the thread that lists c first waits for the list.
Join(c, t) ==
    /\ c \in route \ member
    /\ member' = member \cup {c}
    /\ heard' = [heard EXCEPT ![c] = t]
    /\ UNCHANGED <<time, route>>

Refresh(c) ==
    /\ c \in member
    /\ heard' = [heard EXCEPT ![c] = time]
    /\ UNCHANGED <<time, route, member>>

Forget(c) ==
    /\ c \in member /\ time - heard[c] > LinkTimeout
    /\ route' = route \ {c} /\ member' = member \ {c}
    /\ heard' = [heard EXCEPT ![c] = 0]
    /\ UNCHANGED time

Cut(kept) ==
    /\ kept \subseteq member
    /\ member' = kept
    /\ heard' = [c \in Neighbours |-> IF c \in kept THEN heard[c] ELSE 0]
    /\ UNCHANGED <<time, route>>

Pass == time' = time + 1 /\ UNCHANGED <<route, member, heard>>

Next ==
    \/ Pass
    \/ \E c \in Neighbours : \/ Route(c) \/ Refresh(c) \/ Forget(c)
                             \/ \E t \in 0 .. time : Join(c, t)
    \/ \E kept \in SUBSET member : Cut(kept)

Spec == Init /\ [][Next]_vars
=============================================================================
