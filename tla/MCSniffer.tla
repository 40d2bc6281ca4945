----------------------------- MODULE MCSniffer -----------------------------
(***************************************************************************)
(* Instance of Sniffer for TLC: cells 0 to 3, one cell of Ethernet header  *)
(* (0 is ARP), headers of one or two words of two cells, up to three cells *)
(* of payload, short frames with one or two cells of padding, and a frame  *)
(* cut short everywhere.                                                   *)
(***************************************************************************)
EXTENDS Sniffer

Header(words, first) ==
  [n \in 1..(2 * words) |-> CASE n = 1 -> first[1] [] n = 2 -> first[2] [] OTHER -> 0]

Payloads == {SubSeq(<<1, 2, 3>>, 1, n) : n \in 0..3}

\* IP packets: TCP with its offset, or another protocol.
Packets ==
  UNION {{Header(ihl, <<ihl, TCP>>) \o Header(off, <<0, off>>) \o data :
            ihl \in 1..2, off \in 1..2, data \in Payloads},
         {Header(ihl, <<ihl, p>>) \o data :
            ihl \in 1..2, p \in {0, ICMP, UDP}, data \in Payloads}}

Framed(packet, padding) ==
  [cells |-> <<1>> \o packet \o padding, total |-> Len(packet)]

\* The whole frames, the ones that Ethernet pads, one that is cut, and others.
MCFrames ==
  {Framed(p, <<>>) : p \in Packets}
    \union {Framed(p, padding) : p \in {q \in Packets : Len(q) <= 5},
                                 padding \in {<<0>>, <<3, 0>>}}
    \union {[cells |-> SubSeq(<<1, 2, TCP, 0, 0, 0, 2, 0, 0, 1>>, 1, n), total |-> 9] :
              n \in 1..9}
    \union {[cells |-> <<0, 0, p, off>>, total |-> 0] : p \in {ICMP, TCP}, off \in {0, 3}}

=============================================================================
