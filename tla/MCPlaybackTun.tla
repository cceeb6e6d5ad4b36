--------------------------- MODULE MCPlaybackTun ----------------------------
(***************************************************************************)
(* A small instance of playbacktun: TunInterface has made the device.      *)
(***************************************************************************)
EXTENDS PlaybackTun, TLC

CONSTANTS tun0, p1, p2

MCPacket == {p1, p2}
Ip4Tun == [address |-> "192.168.6.1", prefix_len |-> 24]
MCAddressFor == tun0 :> Ip4Tun
MCIp4Info == {Ip4Tun}

MCInitDev ==
  {[i \in Index |-> [Unborn EXCEPT !.state = "present", !.name = tun0]]}

\* A whole log, one with a syntax error in it, one that a packet is wrong
\* in, and packets that are not in an array.
MCLogs == { <<"[", p1, p2, p1, "]">>, <<"[", p2, "broken", p1, "]">>,
            <<"[", p1, "invalid", "]">>, <<p1, p2>>, <<>> }
=============================================================================
