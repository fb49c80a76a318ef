-------------------------------- MODULE MCMesh --------------------------------
(***************************************************************************)
(* Instances of Proxy in a larger overlay.  On c1 this proxy is a client   *)
(* of q.  While it is q's only neighbour, q floods one link; once r (and   *)
(* then s) have connected to q too, q floods those links in front of it.   *)
(* On c2 this proxy is the server of r, which may also be connected to q;  *)
(* q may have learnt that link from this proxy, before it was restarted.   *)
(***************************************************************************)
EXTENDS Proxy

CONSTANT Reported   \* q's other neighbours, in the order q floods them

MCMacs == {"zero", "me", "q", "r", "s"}
MCIps == {"ipme", "ipq", "ipr", "ips"}
MCStrKey == [m \in MCMacs |-> m]
IpOf == [m \in MCMacs |-> CASE m = "q" -> "ipq" [] m = "r" -> "ipr" [] m = "s" -> "ips"
                            [] OTHER -> "ipme"]
Info(m) == [ip |-> IpOf[m], macaddr |-> m]
MCMyInfo == Info("me")

Link(m, n) == [local |-> Info(m), remote |-> Info(n), linkweight |-> 1]
LinkPacket(m, list) == [source |-> Info(m), numNeighbors |-> Len(list), list |-> list]

\* q's list after its i last neighbours connected; this proxy was first.
Known(i) == SubSeq(Reported, Len(Reported) - i + 1, Len(Reported))
QPacket(i) == LinkPacket("q", [j \in 1 .. i |-> Link("q", Known(i)[j])] \o <<Link("q", "me")>>)

\* What q lists after it expired this proxy, which had reported its link to r.
Stale == LinkPacket("q", <<Link("me", "r")>>)

MCFlood == [c \in Conns |->
    IF c = "c1" THEN {QPacket(i) : i \in 0 .. Len(Reported)}
                         \cup (IF "c2" \in Conns THEN {Stale} ELSE {})
                ELSE {LinkPacket("r", <<Link("r", "q"), Link("r", "me")>>)}]
MCHello == [c \in Conns |-> IF c = "c1" THEN MCFlood[c]
                                        ELSE {LinkPacket("r", <<Link("r", "zero")>>)}]

ASSUME MeshAssumption == HonestNetwork

RS == <<"s", "r">>
R == <<"r">>
=============================================================================
