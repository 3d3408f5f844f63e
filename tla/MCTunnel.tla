------------------------------ MODULE MCTunnel ------------------------------
(***************************************************************************)
(* Instances of Tunnel for TLC: the two paths a tunnel can take.           *)
(***************************************************************************)
EXTENDS Tunnel

Direct == <<"bridge", "bridge">>
Relayed == <<"bridge", "relay", "bridge">>

BothPaths == {Direct, Relayed}
ThreeAndOne == [request |-> 3, reply |-> 1]
=============================================================================
