--------------------------------- MODULE Hub ---------------------------------
(***************************************************************************)
(* A proxy whose neighbours know nobody but this proxy: a server and the   *)
(* clients that connected to it, or a client and the servers it connected  *)
(* to.  Every packet then carries a single link, from the neighbour to     *)
(* this proxy, or none if the neighbour expired this proxy while it built  *)
(* the packet.  Only the first packet of a connection may have a remote    *)
(* MAC address other than this proxy's: connecttohost does not know it and *)
(* sends what malloc left there.                                           *)
(***************************************************************************)
EXTENDS Proxy

CONSTANT Peer   \* Peer[c]: the proxy_info of the neighbour behind connection c

Key(c) == StrKey[Peer[c].macaddr]

ASSUME HubAssumption ==
    /\ Peer \in [Conns -> Infos]
    /\ \A c, d \in Conns : c # d => Key(c) # Key(d)
    /\ \A c \in Conns : Key(c) \notin {StrKey[ZeroMac], StrKey[MyInfo.macaddr]}
    /\ \A c \in Conns : \A p \in Hello[c] \cup Flood[c] :
           /\ p.source = Peer[c]
           /\ p.list # <<>> => Len(p.list) = 1 /\ p.list[1].local = Peer[c]
    /\ \A c \in Conns : \A p \in Flood[c] :
           p.list # <<>> => p.list[1].remote.macaddr = MyInfo.macaddr

(***************************************************************************)
(* Properties.                                                             *)
(***************************************************************************)
\* A route leads to the connection of the neighbour itself.
RouteIsDirect ==
    \A e \in DOMAIN socketfds :
        socketfds[e].macaddr = Peer[socketfds[e].sock_fd].macaddr
=============================================================================
