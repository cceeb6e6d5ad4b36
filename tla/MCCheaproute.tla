---------------------------- MODULE MCCheaproute ----------------------------
(***************************************************************************)
(* Small instances of the program: TunInterface has made crIN and crOUT,   *)
(* and nothing else, before the monitor starts.                            *)
(***************************************************************************)
EXTENDS Cheaproute, TLC

CONSTANTS crIN, crOUT

MCName == {crIN, crOUT}
Ip4In  == [address |-> "192.168.5.1", prefix_len |-> 24]
Ip4Out == [address |-> "192.168.6.1", prefix_len |-> 24]
MCIp4Info == {Ip4In, Ip4Out}
MCAddressFor == crIN :> Ip4In @@ crOUT :> Ip4Out

MCInitDev ==
  {[i \in Index |-> [Unborn EXCEPT !.state = "present",
                                   !.name = IF i = In THEN crIN ELSE crOUT]]}
=============================================================================
