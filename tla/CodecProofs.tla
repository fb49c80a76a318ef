----------------------------- MODULE CodecProofs -----------------------------
(***************************************************************************)
(* What the parser makes of a list of any length, in a buffer of any size. *)
(***************************************************************************)
EXTENDS Codec, TLAPS

\* The nodes that fit into the buffer have places, and a length that a uint16_t
\* holds; the parser finds a node more for every nine written.
LEMMA Sizes ==
    ASSUME NEW n \in Nat, Written(n) <= BufLen
    PROVE  /\ n % Word = n
           /\ \A i \in 1 .. n : i \in Places
           /\ NumNodes(Length(n)) \in Nat
           /\ NumNodes(Length(n)) >= n
           /\ n <= 8 => NumNodes(Length(n)) = n
<1>1. /\ BufLen \in Nat /\ 18 <= BufLen /\ 40 * BufLen <= 36 * 65536 /\ 18 + 36 * n <= BufLen
  BY CodecAssumption DEF Written, Prefix, NodeBytes, NodeSize, Word
<1>2. 14 + 40 * n < 65536 /\ n < 65536
  BY <1>1
<1>3. Length(n) = 14 + 40 * n /\ n % Word = n
  BY <1>2 DEF Length, Prefix, NodeSize, Word
<1>4. NumNodes(Length(n)) = (40 * n) \div 36
  BY <1>3 DEF NumNodes, Prefix, NodeBytes
<1>5. (40 * n) \div 36 \in Nat /\ (40 * n) \div 36 >= n
  OBVIOUS
<1>6. n <= 8 => (40 * n) \div 36 = n
  OBVIOUS
<1>7. n <= (BufLen - 18) \div 36 /\ (BufLen - 18) \div 36 \in Nat
  BY <1>1
<1> QED
  BY <1>3, <1>4, <1>5, <1>6, <1>7 DEF Places, Prefix, NodeBytes

-----------------------------------------------------------------------------
\* A thread in the critical section has not counted yet what it did to the list.
Counters ==
    /\ oldest \in Nat \ {0} /\ newest \in Nat /\ oldest <= newest + 1
    /\ size \in Nat /\ size \in {Listed - 1, Listed, Listed + 1}
    /\ announced \in Nat /\ list \in Nat /\ torn \in BOOLEAN

\* While mem_list stays the same, the announced size is that of the list.
Untorn ==
    ~torn /\ spc \in {"list", "send"} =>
        /\ size = Listed /\ announced = Listed
        /\ spc = "send" => list = First

\* A packet holds its members at the front of its places, and as many as it announces
\* unless mem_list changed.
WireOK(p) == \E n \in Nat :
    /\ Written(n) <= BufLen
    /\ p.members = [i \in 1 .. n |-> p.members[i]]
    /\ \A i \in 1 .. n : p.places[i] = p.members[i]
    /\ p.announced \in Nat /\ p.length = Length(p.announced)
    /\ ~p.torn => p.announced = n

Inv == Counters /\ Untorn /\ \A k \in DOMAIN wire : WireOK(wire[k])

\* It holds at the start.
LEMMA InitInv == Init => Inv
<1> SUFFICES ASSUME Init PROVE Inv
  OBVIOUS
<1>1. /\ oldest = 1 /\ newest = 0 /\ size = 0 /\ spc = "sleep"
      /\ announced = 0 /\ list = 0 /\ torn = FALSE /\ wire = <<>>
  BY DEF Init, NULL
<1>2. Counters
  <2>1. torn \in BOOLEAN
    BY <1>1, Zenon
  <2>2. size \in {Listed - 1, Listed, Listed + 1}
    BY <1>1 DEF Listed
  <2>3. /\ oldest \in Nat \ {0} /\ newest \in Nat /\ oldest <= newest + 1
        /\ size \in Nat /\ announced \in Nat /\ list \in Nat
    BY <1>1
  <2> QED
    BY <2>1, <2>2, <2>3 DEF Counters
<1> QED
  BY <1>1, <1>2 DEF Inv, Untorn

\* The list that starts at n.
LEMMA Chain ==
    ASSUME Counters
    PROVE  /\ \E m \in Nat : ListFrom(list) = [i \in 1 .. m |-> ListFrom(list)[i]]
                              /\ Len(ListFrom(list)) = m
           /\ Len(ListFrom(First)) = Listed
<1> DEFINE m(n) == IF n = NULL THEN 0 ELSE IF oldest <= n THEN n + 1 - oldest ELSE 1
<1>1. \A n \in Nat : m(n) \in Nat
  BY DEF Counters, NULL
<1>2. \A n : ListFrom(n) = [i \in 1 .. m(n) |-> n + 1 - i]
  BY DEF ListFrom
<1>3. First \in Nat /\ m(First) = Listed
  BY DEF Counters, First, Listed, NULL
<1> HIDE DEF m
<1>4. \A n \in Nat : /\ ListFrom(n) = [i \in 1 .. m(n) |-> ListFrom(n)[i]]
                     /\ Len(ListFrom(n)) = m(n)
  BY <1>1, <1>2
<1>5. list \in Nat
  BY DEF Counters
<1> QED
  BY <1>1, <1>3, <1>4, <1>5

\* What htonLinkstate wrote is at the front of the buffer.
LEMMA SendWire ==
    ASSUME Counters, Untorn, Send
    PROVE  \A k \in DOMAIN wire' : WireOK(wire'[k])
<1> DEFINE nodes == ListFrom(list)
           p == [length |-> Length(announced), places |-> Fill(nodes),
                 announced |-> announced, torn |-> torn, members |-> nodes]
<1>1. spc = "send" /\ Written(Len(nodes)) <= BufLen /\ wire' = <<p>>
  BY DEF Send
<1>2. PICK n \in Nat : nodes = [i \in 1 .. n |-> nodes[i]] /\ Len(nodes) = n
  BY Chain
<1>3. announced \in Nat /\ (~torn => announced = n)
  BY <1>1, <1>2, Chain DEF Counters, Untorn
<1>4. /\ p.length = Length(announced) /\ p.places = Fill(nodes)
      /\ p.announced = announced /\ p.torn = torn /\ p.members = nodes
  OBVIOUS
<1> HIDE DEF nodes, p
<1>5. Written(n) <= BufLen /\ \A i \in 1 .. n : i \in Places /\ i \in DOMAIN nodes
  BY <1>1, <1>2, Sizes
<1>6. \A i \in 1 .. n : p.places[i] = p.members[i]
  BY <1>4, <1>5 DEF Fill
<1>7. p.members = [i \in 1 .. n |-> p.members[i]]
  BY <1>2, <1>4
<1>8. WireOK(p)
  BY <1>3, <1>4, <1>5, <1>6, <1>7 DEF WireOK
<1>9. \A k \in DOMAIN wire' : wire'[k] = p
  BY <1>1
<1> QED
  BY <1>8, <1>9

\* What the parser finds.
LEMMA ParsedList ==
    ASSUME NEW p, WireOK(p)
    PROVE  /\ p.announced <= 8 /\ ~p.torn => Parsed(p) = p.members
           /\ \A i \in DOMAIN p.members :
                  i <= p.announced /\ Written(p.announced) <= BufLen =>
                      i \in DOMAIN Parsed(p) /\ Parsed(p)[i] = p.members[i]
<1>1. PICK n \in Nat :
         /\ Written(n) <= BufLen
         /\ p.members = [i \in 1 .. n |-> p.members[i]]
         /\ \A i \in 1 .. n : p.places[i] = p.members[i]
         /\ p.announced \in Nat /\ p.length = Length(p.announced)
         /\ ~p.torn => p.announced = n
  BY DEF WireOK
<1> DEFINE a == p.announced
           m == NumNodes(Length(a))
           l == Parsed(p)
<1>2. DOMAIN p.members = 1 .. n /\ \A i \in 1 .. n : i \in Places
  BY <1>1, Sizes
<1>3. Written(a) <= BufLen => m \in Nat /\ m >= a /\ (a <= 8 => m = a)
  BY <1>1, Sizes
<1>4. l = [i \in 1 .. m |-> IF i \in Places THEN p.places[i] ELSE Junk]
  BY <1>1 DEF Parsed
<1> HIDE DEF a, m, l
<1>5. ASSUME NEW i \in 1 .. n, i <= a, Written(a) <= BufLen
      PROVE  i \in DOMAIN l /\ l[i] = p.members[i]
  <2>1. i \in 1 .. m
    BY <1>1, <1>3, <1>5 DEF a
  <2> QED
    BY <1>1, <1>2, <1>4, <2>1
<1>6. ASSUME a <= 8, ~p.torn PROVE l = p.members
  <2>1. a = n /\ Written(a) <= BufLen
    BY <1>1, <1>6 DEF a
  <2>2. m = n
    BY <1>3, <1>6, <2>1
  <2>3. l = [i \in 1 .. n |-> l[i]]
    BY <1>4, <2>2
  <2>4. \A i \in 1 .. n : l[i] = p.members[i]
    BY <1>5, <2>1
  <2> QED
    BY <1>1, <2>3, <2>4
<1> QED
  BY <1>2, <1>5, <1>6 DEF a, l

\* The invariant is inductive.
LEMMA NextInv == Inv /\ [Next]_vars => Inv'
<1> SUFFICES ASSUME Inv, [Next]_vars PROVE Inv'
  OBVIOUS
<1>1. Counters /\ Untorn /\ \A k \in DOMAIN wire : WireOK(wire[k])
  BY DEF Inv
<1>2. CASE Join \/ Expire \/ Count
  <2>1. Counters'
    <3>1. torn' \in BOOLEAN /\ UNCHANGED <<announced, list>>
      <4>1. Changed
        BY <1>2 DEF Join, Expire, Count
      <4>2. torn' = (spc \in {"list", "send"}) /\ UNCHANGED <<announced, list>>
        BY <4>1 DEF Changed, lstate
      <4>3. (spc \in {"list", "send"}) \in BOOLEAN
        OBVIOUS
      <4> QED
        BY <4>2, <4>3, Zenon
    <3>2. \/ newest' = newest + 1 /\ UNCHANGED <<oldest, size>> /\ size = Listed
          \/ oldest' = oldest + 1 /\ UNCHANGED <<newest, size>> /\ size = Listed /\ oldest <= newest
          \/ size' = Listed /\ UNCHANGED <<oldest, newest>>
      BY <1>2 DEF Join, Expire, Count
    <3>3. /\ oldest' \in Nat \ {0} /\ newest' \in Nat /\ oldest' <= newest' + 1
          /\ size' \in Nat /\ size' \in {Listed' - 1, Listed', Listed' + 1}
      BY <1>1, <3>2 DEF Counters, Listed
    <3> QED
      BY <1>1, <3>1, <3>3 DEF Counters
  <2>2. Untorn' /\ UNCHANGED wire
    BY <1>2 DEF Join, Expire, Count, Changed, Untorn, lstate
  <2> QED
    BY <1>1, <2>1, <2>2 DEF Inv
<1>3. CASE Send
  <2>1. Counters' /\ Untorn'
    BY <1>1, <1>3 DEF Send, Counters, Untorn, Listed, First, members, lstate
  <2> QED
    BY <1>1, <1>3, <2>1, SendWire DEF Inv
<1>4. CASE SendCheck \/ SendLength \/ SendList \/ SendDone
  <2>1. Counters'
    <3>1. UNCHANGED <<oldest, newest, size>> /\ torn' \in BOOLEAN
      BY <1>1, <1>4 DEF SendCheck, SendLength, SendList, SendDone, Counters, members
    <3>2. announced' \in Nat /\ list' \in Nat
      BY <1>1, <1>4 DEF SendCheck, SendLength, SendList, SendDone, Counters, First, NULL, members
    <3> QED
      BY <1>1, <3>1, <3>2 DEF Counters, Listed
  <2>2. Untorn'
    BY <1>1, <1>4 DEF SendCheck, SendLength, SendList, SendDone, Counters, Untorn, Listed,
       First, members, lstate
  <2>3. \A k \in DOMAIN wire' : WireOK(wire'[k])
    BY <1>1, <1>4 DEF SendCheck, SendLength, SendList, SendDone
  <2> QED
    BY <2>1, <2>2, <2>3 DEF Inv
<1>5. CASE SendOverflow \/ Quiet \/ UNCHANGED vars
  BY <1>1, <1>5 DEF SendOverflow, Quiet, vars, members, lstate, Inv, Counters, Untorn,
     Listed, First
<1> QED
  BY <1>2, <1>3, <1>4, <1>5 DEF Next

\* The sizes of 36 and 40 bytes agree for up to eight members (packets.c:86): unless
\* members join or expire while the packet is in use, the receiver gets exactly the
\* sender's list.
THEOREM SmallListsCorrect == Spec => []SmallListsExact
<1>1. Inv => SmallListsExact
  BY ParsedList DEF Inv, SmallListsExact
<1> QED
  BY <1>1, InitInv, NextInv, PTL DEF Spec

\* No list that fits into the sender's buffer loses a member that its length counts,
\* whatever the list's length and whatever joins and expires meanwhile.
THEOREM MembersArrive == Spec => []MembersParsed
<1>1. Inv => MembersParsed
  BY ParsedList DEF Inv, MembersParsed
<1> QED
  BY <1>1, InitInv, NextInv, PTL DEF Spec
=============================================================================
