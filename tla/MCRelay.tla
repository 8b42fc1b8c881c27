--------------------------------- MODULE MCRelay ---------------------------------
(* An instance of Relay for TLC: three processes in a chain, one of them a relay. *)
EXTENDS Relay

MCProcs == {1, 2, 3}
MCRelays == {2}
MCViews == {<<1, 1, 1>>, <<2, 2, NoLeader>>, <<1, 3, 1>>}
===============================================================================
