------------------------------ MODULE RawPing ------------------------------
(***************************************************************************)
(* raw/main.c builds an IP packet with an ICMP echo request in a buffer,   *)
(* fills in the two checksums with csum(), sends it through a raw socket   *)
(* and prints the first ICMP packet that comes.                            *)
(*                                                                         *)
(* Bytes are numbers below Byte and words, as on the little-endian hosts   *)
(* the program was written on, two bytes with the low one first.  What the *)
(* headers say apart from the checksums plays no part: they hold any bytes.*)
(***************************************************************************)
EXTENDS Integers, Sequences

CONSTANTS
  Byte,        \* values of a byte, 256
  IpLen,       \* bytes of struct ip_hd, 20
  IpCheck,     \* offset of its field check, 10
  IcmpLen,     \* bytes of struct icmp_hd, 8
  IcmpCheck,   \* offset of its field checksum, 2
  MaxPayload,  \* bound on the bytes after the headers, 64 in main
  MaxReply     \* bound on the length of a reply, 4096

\* The values of a u_short.
Word == Byte * Byte

\* csum() adds the carries back twice.  That is enough for Word + 1 words,
\* twice the length an IP packet can have.
ASSUME LengthAssumption ==
  /\ Byte \in Nat /\ 2 <= Byte /\ MaxPayload \in Nat /\ MaxReply \in Nat
  /\ IcmpLen + MaxPayload <= 2 * (Word + 1) /\ IpLen <= 2 * (Word + 1)
ASSUME LayoutAssumption ==
  /\ {IpLen, IpCheck, IcmpLen, IcmpCheck} \subseteq Nat
  /\ IpLen % 2 = 0 /\ IpCheck % 2 = 0 /\ IpCheck + 2 <= IpLen
  /\ IcmpLen % 2 = 0 /\ IcmpCheck % 2 = 0 /\ IcmpCheck + 2 <= IcmpLen

VARIABLES
  pc,      \* what main does next, and which part csum() adds up for it
  packet,  \* the bytes to be sent
  buf,     \* offset of the byte csum() adds next
  bytes,   \* how many it has still to add
  sum,     \* its sum so far, an unsigned long
  status   \* what recvfrom() returned

vars == <<pc, packet, buf, bytes, sum, status>>

\* The two checksum fields, by their offset in the packet.
Fields == {IpCheck, IcmpCheck + IpLen}

PacketsOf(n) ==
  {p \in [1..n -> 0..(Byte - 1)] : \A f \in Fields : p[f + 1] = 0 /\ p[f + 2] = 0}

Init ==
  /\ pc = "ip"
  /\ \E n \in 0..MaxPayload : packet \in PacketsOf(IpLen + IcmpLen + n)
  /\ buf = 0 /\ bytes = IpLen /\ sum = 0
  /\ status = 0

-----------------------------------------------------------------------------
(***************************************************************************)
(* csum().                                                                 *)
(***************************************************************************)

ByteAt(i) == packet[i + 1]

AddWord ==
  /\ pc \in {"ip", "icmp"}
  /\ bytes > 1
  /\ sum' = sum + ByteAt(buf) + Byte * ByteAt(buf + 1)
  /\ buf' = buf + 2 /\ bytes' = bytes - 2
  /\ UNCHANGED <<pc, packet, status>>

\* The byte left over is the first, low, byte of a word.
AddOddByte ==
  /\ pc \in {"ip", "icmp"}
  /\ bytes = 1
  /\ sum' = sum + ByteAt(buf)
  /\ bytes' = 0
  /\ UNCHANGED <<pc, packet, buf, status>>

\* Mutant: the carry of the first addition is not added back.
AnswerFoldedOnce == Word - 1 - (((sum \div Word) + (sum % Word)) % Word)

\* The upper half is added to the lower one, then once more the carry of
\* that; a u_short takes the lower half of the complement.
Answer ==
  LET folded == (sum \div Word) + (sum % Word) IN
  Word - 1 - ((folded + folded \div Word) % Word)

Stored(field) ==
  [packet EXCEPT ![field + 1] = Answer % Byte, ![field + 2] = Answer \div Byte]

\* csum() returns; main stores the answer and goes on to the next part.
Return ==
  /\ pc \in {"ip", "icmp"}
  /\ bytes = 0
  /\ sum' = 0
  /\ IF pc = "ip"
     THEN /\ packet' = Stored(IpCheck)
          /\ buf' = IpLen /\ bytes' = Len(packet) - IpLen
          /\ pc' = "icmp"
     ELSE /\ packet' = Stored(IpLen + IcmpCheck)
          /\ pc' = "send"
          /\ UNCHANGED <<buf, bytes>>
  /\ UNCHANGED status

-----------------------------------------------------------------------------
(***************************************************************************)
(* The rest of main.                                                       *)
(***************************************************************************)

\* socket(), setsockopt() or sendto() may fail, and main returns.
Send ==
  /\ pc = "send"
  /\ pc' \in {"recv", "ended"}
  /\ UNCHANGED <<packet, buf, bytes, sum, status>>

\* Any ICMP packet for the host is taken for the answer.  recvfrom() fails
\* too: the addrlen it is given was never assigned.
Receive ==
  /\ pc = "recv"
  /\ status' \in (IpLen + IcmpLen)..MaxReply \union {-1}
  /\ pc' = "show"
  /\ UNCHANGED <<packet, buf, bytes, sum>>

\* dump() takes its length as an unsigned: -1 is far more than the buffer.
Show ==
  /\ pc = "show"
  /\ pc' = IF status < 0 THEN "crashed" ELSE "ended"
  /\ UNCHANGED <<packet, buf, bytes, sum, status>>

Next == AddWord \/ AddOddByte \/ Return \/ Send \/ Receive \/ Show

Spec == Init /\ [][Next]_vars

-----------------------------------------------------------------------------
(***************************************************************************)
(* Correctness.                                                            *)
(***************************************************************************)

\* What the bytes from an offset on count in their words, low byte first.
Weighted(from) ==
  [i \in Nat |-> ByteAt(from + i) * (IF i % 2 = 0 THEN 1 ELSE Byte)]

\* The sums of the first k values of g, for every k.
Sums(g) ==
  LET s[k \in Nat] == IF k = 0 THEN 0 ELSE s[k - 1] + g[k - 1] IN s

\* The sum of n bytes from an offset, as words.
SumOf(from, n) == Sums(Weighted(from))[n]

\* The one's complement sum of the words is all ones: what whoever receives
\* the packet checks (RFC 1071).
Verifies(from, n) == LET s == SumOf(from, n) IN s > 0 /\ s % (Word - 1) = 0

\* What is sent passes the receiver's check of both parts, for any contents,
\* even or odd lengths and any number of carries: the checksum is computed
\* over its own field, which is 0 then, and stored where it completes the sum
\* (main.c:104-105, 144-167).
ChecksumsHold ==
  pc \in {"send", "recv", "show"} =>
    Verifies(0, IpLen) /\ Verifies(IpLen, Len(packet) - IpLen)

=============================================================================
