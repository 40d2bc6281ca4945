------------------------------ MODULE Sniffer ------------------------------
(***************************************************************************)
(* The two sniffers: Sniffer/linux_raw/main.c reads frames from a packet   *)
(* socket into one buffer, Sniffer/pcap_clase.c gets them from libpcap.    *)
(* Both print the fields of the headers by adding up their lengths, without*)
(* comparing them with the length of the frame, and dump what is left.     *)
(*                                                                         *)
(* The cells of a frame are numbers from 0 to MaxNibble: the only fields   *)
(* the programs depend on are two nibbles and the protocol.  The total     *)
(* length of the IP header is kept beside the cells, as neither program    *)
(* reads it: Ethernet fills a frame shorter than 60 bytes with padding,    *)
(* which comes after what that length covers.  A cell of the buffer is     *)
(* fresh if it belongs to the frame captured last.                         *)
(***************************************************************************)
EXTENDS Integers, Sequences

CONSTANTS
  Frames,     \* the frames on the wire, none longer than the buffer: their
              \* cells, and the total length their IP header gives them
  MaxNibble,  \* greatest value of ihl and of the TCP offset, 15
  EthLen,     \* cells of the Ethernet header, 14 bytes
  WordLen,    \* cells of the words that ihl and offset count, 4 bytes
  IcmpLen,    \* cells of the ICMP header, 8 bytes
  ProtoAt,    \* where the protocol is in the IP header, byte 9
  OffsetAt,   \* where the offset is in the TCP header, byte 12
  BufferSize, \* 65536
  Snap,       \* the length libpcap is told to capture, 4096
  Row,        \* cells in a line of dump(), 16
  UIntMod     \* values of an unsigned int, 2^32

ASSUME FramesAssumption ==
  \A f \in Frames : /\ f.cells \in Seq(0..MaxNibble)
                    /\ Len(f.cells) <= BufferSize
                    /\ f.total \in Nat
ASSUME SizesAssumption ==
  /\ MaxNibble \in Nat /\ EthLen \in Nat /\ WordLen \in Nat /\ IcmpLen \in Nat \ {0}
  /\ ProtoAt \in Nat /\ OffsetAt \in Nat /\ Row \in Nat \ {0}
  /\ BufferSize \in Nat /\ Snap \in Nat /\ UIntMod \in Nat
ASSUME BufferAssumption ==
  /\ Snap <= BufferSize /\ BufferSize < UIntMod
  /\ EthLen + 2 * MaxNibble * WordLen + OffsetAt < BufferSize

VARIABLES
  program,   \* which sniffer runs, "linux_raw" or "pcap"
  tcpOnly,   \* whether pcap has a filter that lets only TCP pass
  pc,        \* what it does next
  buffer,    \* the cells that the program reads the frame from
  frame,     \* history: the cells of the frame that was captured last
  total,     \* history: the total length in its IP header
  pos,       \* where in the buffer the next header starts
  protocol,  \* what decode_ip found, of linux_raw
  i,         \* how many cells dump() has printed
  hex,       \* the left half of what dump() printed
  text,      \* the right half of it
  stale      \* history: a cell that is not fresh was used for this frame

vars == <<program, tcpOnly, pc, buffer, frame, total, pos, protocol, i, hex,
          text, stale>>

PStates == {"setup", "wait", "ip", "layer4", "dump", "ended", "crashed"}
ICMP == 1
TCP == 2
UDP == 3

Cells == 0..(BufferSize - 1)
Val(n) == buffer[n].val
Stale(n) == ~buffer[n].fresh

\* What reaches the program of a frame.
Captured(f) ==
  IF program = "pcap" /\ Len(f) > Snap THEN SubSeq(f, 1, Snap) ELSE f

Init ==
  /\ program \in {"linux_raw", "pcap"}
  /\ tcpOnly = FALSE
  /\ pc = "setup"
  /\ buffer = [n \in Cells |-> [val |-> 0, fresh |-> FALSE]]
  /\ frame = <<>> /\ total = 0 /\ pos = 0 /\ protocol = 0
  /\ i = 0 /\ hex = <<>> /\ text = <<>> /\ stale = FALSE

-----------------------------------------------------------------------------

\* The socket or the device is opened, and the filter of pcap compiled if
\* there is one.
Setup ==
  /\ pc = "setup"
  /\ tcpOnly' \in {FALSE, program = "pcap"}
  /\ pc' = "wait"
  /\ UNCHANGED <<program, buffer, frame, total, pos, protocol, i, hex, text,
                 stale>>

\* Any of that fails, or a later recvfrom(): the program ends.  linux_raw
\* crashes when no interface is given to it.
CaptureFails ==
  /\ pc \in {"setup", "wait"}
  /\ \/ pc' = "ended"
     \/ program = "linux_raw" /\ pc = "setup" /\ pc' = "crashed"
  /\ UNCHANGED <<program, tcpOnly, buffer, frame, total, pos, protocol, i, hex,
                 text, stale>>

IsTCP(f) == Len(f) > EthLen + ProtoAt /\ f[1] # 0 /\ f[EthLen + ProtoAt + 1] = TCP

\* A frame arrives; the cells after it stay as they were.  decode_ethernet
\* prints its header, whatever it announces.
Capture(f) ==
  /\ pc = "wait"
  /\ tcpOnly => IsTCP(f.cells)
  /\ frame' = f.cells /\ total' = f.total
  /\ LET n == Len(Captured(f.cells)) IN
     /\ buffer' = [m \in Cells |->
          IF m < n THEN [val |-> f.cells[m + 1], fresh |-> TRUE]
          ELSE [buffer[m] EXCEPT !.fresh = FALSE]]
     /\ stale' = (n < EthLen)
  /\ pos' = EthLen /\ protocol' = 0 /\ i' = 0 /\ hex' = <<>> /\ text' = <<>>
  /\ pc' = "ip"
  /\ UNCHANGED <<program, tcpOnly>>

\* Mutant: ihl counts bytes.
IpLengthInBytes == Val(pos)

\* decode_ip returns ip->ihl*4.
IpLength == Val(pos) * WordLen

DecodeIp ==
  /\ pc = "ip"
  /\ protocol' = Val(pos + ProtoAt)
  /\ stale' = (stale \/ Stale(pos) \/ Stale(pos + ProtoAt))
  /\ pos' = pos + IpLength
  /\ pc' = "layer4"
  /\ UNCHANGED <<program, tcpOnly, buffer, frame, total, i, hex, text>>

\* decode_tcp returns tcp->offset*4.
TcpLength == Val(pos + OffsetAt) * WordLen

\* Mutant: linux_raw decodes TCP whatever the protocol is, as pcap does.
DecodesTCPAlways == TRUE

\* processPacket looks at the protocol, got_packet does not.
DecodesTCP == program = "pcap" \/ protocol = TCP

DecodeLayer4 ==
  /\ pc = "layer4"
  /\ IF DecodesTCP
     THEN /\ pos' = pos + TcpLength
          /\ stale' = (stale \/ Stale(pos + OffsetAt))
     ELSE IF protocol = ICMP
     THEN pos' = pos + IcmpLen /\ stale' = (stale \/ Stale(pos))
     ELSE UNCHANGED <<pos, stale>>
  /\ pc' = "dump"
  /\ UNCHANGED <<program, tcpOnly, buffer, frame, total, protocol, i, hex,
                 text>>

\* The unsigned length dump() is given, size-pos or hdr->len-pos.
DumpLength == (Len(frame) - pos) % UIntMod

\* One turn of the loop of dump(): a cell on the left, and at the end of a
\* line, or of all, the cells of the line again on the right.  Past the end
\* of the buffer the program crashes.
DumpCell ==
  /\ pc = "dump"
  /\ i < DumpLength
  /\ IF pos + i \notin Cells
     THEN pc' = "crashed" /\ UNCHANGED <<i, hex, text, stale>>
     ELSE /\ hex' = Append(hex, Val(pos + i))
          /\ text' = IF i % Row = Row - 1 \/ i = (DumpLength - 1) % UIntMod
                     THEN text \o SubSeq(hex', i - (i % Row) + 1, i + 1) ELSE text
          /\ stale' = (stale \/ Stale(pos + i))
          /\ i' = i + 1
          /\ UNCHANGED pc
  /\ UNCHANGED <<program, tcpOnly, buffer, frame, total, pos, protocol>>

DumpEnds ==
  /\ pc = "dump"
  /\ i >= DumpLength
  /\ pc' = "wait"
  /\ UNCHANGED <<program, tcpOnly, buffer, frame, total, pos, protocol, i, hex,
                 text, stale>>

Next ==
  \/ Setup
  \/ CaptureFails
  \/ \E f \in Frames : Capture(f)
  \/ DecodeIp
  \/ DecodeLayer4
  \/ DumpCell
  \/ DumpEnds

Spec == Init /\ [][Next]_vars

-----------------------------------------------------------------------------
(***************************************************************************)
(* Correctness.  What the headers of a frame say is defined here by the    *)
(* protocols, not by the programs; the first cell says whether it is IP.   *)
(***************************************************************************)

IsIP(f) == f[1] # 0
Ihl(f) == f[EthLen + 1]
Proto(f) == f[EthLen + ProtoAt + 1]
Layer4At(f) == EthLen + Ihl(f) * WordLen
Offset(f) == f[Layer4At(f) + OffsetAt + 1]

\* The frame has all the cells its headers take.
HeadersComplete(f) ==
  /\ Len(f) > EthLen + ProtoAt /\ IsIP(f)
  /\ Ihl(f) * WordLen > ProtoAt /\ Layer4At(f) <= Len(f)
  /\ Proto(f) = TCP => /\ Layer4At(f) + OffsetAt < Len(f)
                       /\ Offset(f) * WordLen > OffsetAt
                       /\ Layer4At(f) + Offset(f) * WordLen <= Len(f)
  /\ Proto(f) = ICMP => Layer4At(f) + IcmpLen <= Len(f)

\* What follows the headers: linux_raw leaves the one of UDP to the dump.
PayloadAt(f) ==
  Layer4At(f) + CASE Proto(f) = TCP  -> Offset(f) * WordLen
                  [] Proto(f) = ICMP -> IcmpLen
                  [] OTHER           -> 0

\* Where the IP packet ends, and padding begins if there is any.
PacketEnd == EthLen + total

\* The frames a sniffer is made for: IP with complete headers, for pcap TCP,
\* and no longer than what it captures.
MadeFor(f) ==
  /\ f # <<>> /\ HeadersComplete(f)
  /\ program = "pcap" => Proto(f) = TCP /\ Len(f) <= Snap

\* Of such a frame dump() prints the payload of the IP packet, every byte once
\* in each half of its lines, whatever frames came before it, and nothing else
\* but the padding of a short frame: size and hdr->len count that too, and no
\* program asks ip->length where the packet ends (main.c:115-138, 220-243,
\* pcap_clase.c:110-119).
PayloadPrinted ==
  pc = "wait" /\ MadeFor(frame) /\ PacketEnd \in PayloadAt(frame)..Len(frame) =>
    LET payload == SubSeq(frame, PayloadAt(frame) + 1, PacketEnd)
        padding == SubSeq(frame, PacketEnd + 1, Len(frame)) IN
    hex = payload \o padding /\ text = payload \o padding

\* Nothing of an earlier frame, which the buffer still holds, is taken for a
\* part of this one, and the program survives it.  That takes a frame that is
\* shorter than its headers say or no IP, or for pcap one that is not TCP and
\* no filter against it, or one longer than the 4096 bytes captured, of which
\* hdr->len tells more (main.c:101-107, 138, pcap_clase.c:87, 119).
OnlyThisFrame == MadeFor(frame) => ~stale /\ pc # "crashed"

=============================================================================
