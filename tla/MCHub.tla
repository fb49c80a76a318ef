-------------------------------- MODULE MCHub --------------------------------
(***************************************************************************)
(* Instances of Hub.  MCConns has one connection (two proxies) or two.  On *)
(* c1 this proxy is the server: the first packet is a client's, with a     *)
(* zero or an arbitrary remote MAC.  On c2 it is the client.               *)
(***************************************************************************)
EXTENDS HubMembers

MCMacs == {"zero", "me", "m1", "m2", "junk"}
MCIps == {"ipme", "ip1", "ip2"}
MCStrKey == [m \in MCMacs |-> m]
MCMyInfo == [ip |-> "ipme", macaddr |-> "me"]
MCPeer == [c \in Conns |-> IF c = "c1" THEN [ip |-> "ip1", macaddr |-> "m1"]
                                       ELSE [ip |-> "ip2", macaddr |-> "m2"]]

Packet(c, mac) ==
    [source |-> MCPeer[c], numNeighbors |-> 1,
     list |-> <<[local |-> MCPeer[c], linkweight |-> 1,
                 remote |-> [ip |-> "ipme", macaddr |-> mac]]>>]

MCFlood == [c \in Conns |-> {Packet(c, "me")}]
\* A neighbour may also have flooded just when it had expired this proxy.
MCFloodEmpty == [c \in Conns |->
    MCFlood[c] \cup {[source |-> MCPeer[c], numNeighbors |-> 0, list |-> <<>>]}]
MCHello == [c \in Conns |-> IF c = "c1" THEN {Packet(c, "zero"), Packet(c, "junk")}
                                        ELSE MCFlood[c]]
=============================================================================
