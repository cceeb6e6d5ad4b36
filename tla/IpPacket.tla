------------------------------ MODULE IpPacket ------------------------------
(***************************************************************************)
(* What src/net/json_packet.cc knows of the layout of IPv4, TCP, UDP and   *)
(* ICMP packets.  A packet is the sequence of its bytes; offsets count     *)
(* from 0, as in the code.                                                 *)
(***************************************************************************)
EXTENDS Integers, Sequences, SequencesExt

Byte == 0 .. 255

At(q, i) == q[i + 1]
Part(q, i, n) == SubSeq(q, i + 1, i + n)
From(q, i) == SubSeq(q, i + 1, Len(q))
Patched(q, i, s) == Part(q, 0, i) \o s \o From(q, i + Len(s))

DerefU16BE(q, i) == 256 * At(q, i) + At(q, i + 1)

\* Thirty-two bits are kept as two halves: TLC's integers are too narrow.
DerefU32BE(q, i) == <<DerefU16BE(q, i), DerefU16BE(q, i + 2)>>

Bit(x, n) == (x \div 2^n) % 2 = 1

\* The two bytes of a number in network order; only sixteen bits are kept.
htons(n) == <<(n \div 256) % 256, n % 256>>

kProtocolIcmp == 1
kProtocolTcp == 6
kProtocolUdp == 17

\* The indices at which the name tables hold a name; an entry of a table is
\* identified by the table and its index.
kProtocolNames == (0 .. 140) \ {61, 63, 68, 99, 114, 124, 134, 135, 136, 137}
kTcpOptions == {0, 1, 2, 3, 4, 5, 8}
kTcpFlags == 0 .. 8
kIcmpTypeNames == {0, 2, 3, 4, 30} \cup 8 .. 18
kIcmpDestinationUnreachableCodeNames == 0 .. 12
kIcmpRedirectMessageCodeNames == 0 .. 3
kIcmpBadIpHeaderCodeNames == 0 .. 2
IpFlags == {13, 14}  \* IP_MF and IP_DF, as numbers of bits

ICMP_DEST_UNREACH == 3
ICMP_REDIRECT == 5
ICMP_PARAMETERPROB == 12
IcmpEchoLike == {0, 8, 13, 14, 17, 18}  \* those with an identifier

ihl(q) == At(q, 0) % 16
protocol(q) == At(q, 9)

\* The size of the header that follows the IP header of a known protocol.
Header2Size(proto) ==
  CASE proto = kProtocolTcp -> 20
    [] proto \in {kProtocolUdp, kProtocolIcmp} -> 8
    [] OTHER -> 0

(***************************************************************************)
(* Checksums.                                                              *)
(***************************************************************************)
\* Faulty variant: a last odd byte is the lower half of a word.
AddLow(s) ==
  LET sum[i \in 0 .. Len(s) \div 2] ==
        IF i = 0 THEN 0 ELSE sum[i - 1] + 256 * s[2 * i - 1] + s[2 * i]
  IN  sum[Len(s) \div 2] + (IF Len(s) % 2 = 1 THEN s[Len(s)] ELSE 0)

\* Add: the sum of the sixteen-bit words, a last odd byte being the upper
\* half of one.
Add(s) ==
  LET sum[i \in 0 .. Len(s) \div 2] ==
        IF i = 0 THEN 0 ELSE sum[i - 1] + 256 * s[2 * i - 1] + s[2 * i]
  IN  sum[Len(s) \div 2] + (IF Len(s) % 2 = 1 THEN 256 * s[Len(s)] ELSE 0)

\* The carries out of the sum are added to it once.
Fold(sum) == (sum % 65536) + (sum \div 65536)

ComputeIpChecksum(pseudo, s) == htons(65535 - (Fold(Add(pseudo) + Add(s)) % 65536))

\* The pseudo header that the checksums of TCP and UDP cover.
pseudo_header(q) ==
  Part(q, 12, 8) \o <<0, protocol(q)>> \o htons(Len(q) - 4 * ihl(q))
=============================================================================
