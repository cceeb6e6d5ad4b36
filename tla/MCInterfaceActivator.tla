------------------------ MODULE MCInterfaceActivator ------------------------
(***************************************************************************)
(* Small instances of InterfaceActivator.                                  *)
(***************************************************************************)
EXTENDS InterfaceActivator, TLC

CONSTANTS crIN, crOUT, eth0

MCName == {crIN, crOUT, eth0}
MCConfigured == {crIN, crOUT}
In  == [address |-> "192.168.5.1", prefix_len |-> 24]
Out == [address |-> "192.168.6.1", prefix_len |-> 24]
MCIp4Info == {In, Out}
MCAddressFor == crIN :> In @@ crOUT :> Out

\* TunInterface has made crIN, or crIN and crOUT, before the monitor starts;
\* eth0 may have come with an address.
Present(n, s) == [state |-> "present", name |-> n, up |-> FALSE,
                  ip4 |-> s, ip6 |-> {}, renamed |-> FALSE, clashed |-> FALSE]
MCInitDev ==
  {d \in [Index -> {Unborn, Present(crIN, {}), Present(crOUT, {}),
                    Present(eth0, {Out})}] :
     /\ d[1].name = crIN
     /\ d[2].name # crIN}
=============================================================================
