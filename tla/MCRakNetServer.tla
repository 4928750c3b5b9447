--------------------------- MODULE MCRakNetServer ---------------------------
(***************************************************************************)
(* Instances of RakNetServer for TLC.                                       *)
(***************************************************************************)
EXTENDS RakNetServer, TLC

CONSTANTS c1, c2, c3, i1, i2, i3, g1, g2

(* Two peers behind one ip, and one elsewhere that shares c1's clientID.    *)
NatClients == {c1, c2, c3}
NatIpOf    == (c1 :> i1) @@ (c2 :> i1) @@ (c3 :> i2)
NatGuidOf  == (c1 :> g1) @@ (c2 :> g2) @@ (c3 :> g1)

(* Every peer on its own ip.                                                *)
OwnIpOf    == (c1 :> i1) @@ (c2 :> i2) @@ (c3 :> i3)
OwnGuidOf  == (c1 :> g1) @@ (c2 :> g2) @@ (c3 :> g2)

Plain(c, pid)        == [from |-> c, pid |-> pid, magicOk |-> TRUE, protocol |-> 0,
                         mtuSize |-> 0, complete |-> TRUE]
Request1(c, version) == [Plain(c, "OpenConnectionRequest1") EXCEPT !.protocol = version]
Request2From(c, mtu) == [Plain(c, "OpenConnectionRequest2") EXCEPT !.mtuSize = mtu]
CutShort(d)          == [d EXCEPT !.complete = FALSE]
BadMagic(c)          == [Plain(c, "UnconnectedPing") EXCEPT !.magicOk = FALSE]

(* One datagram per branch of the handlers; both sides of each MTU bound.   *)
EveryDatagram ==
  {Plain(c1, pid) : pid \in {"UnconnectedPing", "Connected", "Unpooled"}}
  \cup {BadMagic(c1), Plain(c2, "UnconnectedPingOpenConnections")}
  \cup {Request1(c2, 9), Request1(c3, 10)}
  \cup {Request2From(c1, 399), Request2From(c1, 400), Request2From(c2, 1500), Request2From(c3, 1429)}
  \cup {CutShort(Request2From(c2, Undefined))}

(* Connecting and talking on the connection, as few messages as possible.   *)
Connecting ==
  {Request2From(c, 400) : c \in NatClients}
  \cup {Plain(c1, "Connected"), Plain(c2, "UnconnectedPing"),
        Plain(c3, "UnconnectedPingOpenConnections")}

(* The same over a network that may cut a datagram short.                   *)
ConnectingOrCut == Connecting \cup {CutShort(Request2From(c2, 400)), CutShort(Plain(c1, "UnconnectedPing"))}

(* The commands differ in nothing the loop looks at: one of them will do.   *)
OneCommand == {"CLOSE_SESSION"}
=============================================================================
