-------------------------- MODULE MCNetlinkMonitor --------------------------
(***************************************************************************)
(* Small instances of NetlinkMonitor.                                      *)
(***************************************************************************)
EXTENDS NetlinkMonitor, TLC

\* Two addresses that differ in the prefix only.
MCIp4Info == {[address |-> "10.0.0.1", prefix_len |-> 24],
              [address |-> "10.0.0.1", prefix_len |-> 25]}

\* Every device is absent, or there already with any flags and addresses.
MCInitDev ==
  {d \in [Index -> {Unborn} \cup
                   [state : {"present"}, name : {CHOOSE n \in Name : TRUE},
                    up : BOOLEAN, ip4 : {{}} \cup {{a} : a \in Ip4Info},
                    ip6 : SUBSET Ip6Address, renamed : {FALSE}, clashed : {FALSE}]] :
     \A i, j \in Index : d[i].name = d[j].name => i = j \/ d[i] = Unborn}
=============================================================================
