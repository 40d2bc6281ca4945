---------------------------- MODULE SnifferProofs ----------------------------
(***************************************************************************)
(* Proofs about Sniffer, for any frames, lengths of the headers, buffer    *)
(* and lines of the dump: of a frame a sniffer is made for the payload is  *)
(* printed, with the padding after it, and no cell of an earlier frame is  *)
(* used.                                                                   *)
(***************************************************************************)
EXTENDS Sniffer, SequenceTheorems, TLAPS

Values == 0..MaxNibble
OnWire == {f.cells : f \in Frames}

LEMMA Sizes ==
  /\ MaxNibble \in Nat /\ EthLen \in Nat /\ WordLen \in Nat /\ IcmpLen \in Nat
  /\ 0 < IcmpLen /\ ProtoAt \in Nat /\ OffsetAt \in Nat /\ Row \in Nat \ {0}
  /\ BufferSize \in Nat /\ Snap \in Nat /\ UIntMod \in Nat /\ BufferSize < UIntMod
  BY SizesAssumption, BufferAssumption

(***************************************************************************)
(* Arithmetic of the unsigned length and of the lines.                     *)
(***************************************************************************)

\* A length that the buffer holds is no different as an unsigned int.
LEMMA FitsUInt ==
  ASSUME NEW n \in 0..BufferSize
  PROVE  n % UIntMod = n
<1>1. UIntMod \in Nat /\ UIntMod > 0 /\ n \in 0..(UIntMod - 1)
  BY Sizes
<1>2. ASSUME NEW m \in Nat, m > 0, NEW k \in 0..(m - 1) PROVE k % m = k
  BY <1>2
<1> QED
  BY <1>1, <1>2

\* The place in the line after the next cell.
LEMMA NextInLine ==
  ASSUME NEW k \in Nat
  PROVE  /\ k % Row \in 0..(Row - 1) /\ k % Row <= k
         /\ (k + 1) % Row = IF k % Row = Row - 1 THEN 0 ELSE (k % Row) + 1
<1> DEFINE r == k % Row
           q == k \div Row
<1>1. Row \in Nat \ {0} /\ Row \in Int /\ Row > 0 /\ k \in Int
  BY Sizes
<1>2. q \in Int /\ r \in 0..(Row - 1) /\ r <= k
  BY <1>1
<1>3. r = k - Row * q
  <2>1. ASSUME NEW m \in Nat \ {0}, NEW n \in Int
        PROVE  n % m = n - m * (n \div m)
    BY <2>1, SMTT(30)
  <2> QED
    BY <1>1, <2>1
<1>4. ASSUME NEW p \in Int, NEW s \in 0..(Row - 1)
      PROVE  (Row * p + s) % Row = s
  BY <1>1, <1>4
<1> HIDE DEF r, q
<1>5. /\ Row * q \in Int /\ Row * (q + 1) \in Int
      /\ Row * (q + 1) = Row * q + Row
  BY <1>1, <1>2
<1>6. CASE r = Row - 1
  <2>1. k + 1 = Row * (q + 1) + 0 /\ 0 \in 0..(Row - 1) /\ q + 1 \in Int
    BY <1>1, <1>2, <1>3, <1>5, <1>6
  <2> QED
    BY <1>2, <1>4, <1>6, <2>1 DEF r
<1>7. CASE r # Row - 1
  <2>1. k + 1 = Row * q + (r + 1) /\ r + 1 \in 0..(Row - 1)
    BY <1>1, <1>2, <1>3, <1>5, <1>7
  <2> QED
    BY <1>2, <1>4, <1>7, <2>1 DEF r
<1> QED
  BY <1>6, <1>7

(***************************************************************************)
(* Parts of a sequence: k places after the first a.                        *)
(***************************************************************************)

LEMMA PartFacts ==
  ASSUME NEW S, NEW f \in Seq(S), NEW a \in Nat, NEW k \in Nat, a + k <= Len(f)
  PROVE  /\ SubSeq(f, a + 1, a + k) \in Seq(S)
         /\ Len(SubSeq(f, a + 1, a + k)) = k
<1>1. Len(f) \in Nat
  BY LenProperties
<1>2. \A n \in (a + 1)..(a + k) : f[n] \in S
  BY <1>1, ElementOfSeq
<1> QED
  BY <1>2, SubSeqProperties, SMTT(30)

LEMMA PartGrows ==
  ASSUME NEW S, NEW f \in Seq(S), NEW a \in Nat, NEW k \in Nat, a + k < Len(f)
  PROVE  Append(SubSeq(f, a + 1, a + k), f[a + k + 1]) = SubSeq(f, a + 1, a + k + 1)
<1>1. Len(f) \in Nat
  BY LenProperties
<1>2. /\ a + 1 \in 1..Len(f) /\ a + k + 1 \in (a + 1)..Len(f)
      /\ a + k + 1 \in 1..Len(f) /\ (a + k + 1) - 1 = a + k /\ a + k <= Len(f)
  BY <1>1
<1>3. SubSeq(f, a + 1, a + k + 1) = SubSeq(f, a + 1, a + k) \o <<f[a + k + 1]>>
  BY <1>2, SubSeqRecursiveSecond
<1>4. SubSeq(f, a + 1, a + k) \in Seq(S) /\ f[a + k + 1] \in S
  BY <1>1, <1>2, PartFacts, ElementOfSeq
<1> QED
  BY <1>3, <1>4, AppendIsConcat

\* The first b of k places, and then the rest of them.
LEMMA PartCompleted ==
  ASSUME NEW S, NEW f \in Seq(S), NEW a \in Nat, NEW k \in Nat, a + k <= Len(f),
         NEW b \in Nat, b < k
  PROVE  SubSeq(f, a + 1, a + b) \o SubSeq(SubSeq(f, a + 1, a + k), b + 1, k)
           = SubSeq(f, a + 1, a + k)
<1>1. Len(f) \in Nat
  BY LenProperties
<1>2. /\ a + 1 \in 1..Len(f) /\ a + k \in 1..Len(f)
      /\ b + 1 \in 1..((a + k) - (a + 1) + 1) /\ k \in 1..((a + k) - (a + 1) + 1)
      /\ (a + 1) + (b + 1) - 1 = a + b + 1 /\ (a + 1) + k - 1 = a + k
  BY <1>1
<1>3. SubSeq(SubSeq(f, a + 1, a + k), b + 1, k) = SubSeq(f, a + b + 1, a + k)
  <2>1. SubSeq(SubSeq(f, a + 1, a + k), b + 1, k)
          = SubSeq(f, (a + 1) + (b + 1) - 1, (a + 1) + k - 1)
    BY <1>2, SubSeqOfSubSeq
  <2> QED
    BY <1>2, <2>1
<1>4. /\ a + 1 \in 1..(Len(f) + 1) /\ a + b \in ((a + 1) - 1)..Len(f)
      /\ a + k \in (a + b)..Len(f)
  BY <1>1
<1>5. SubSeq(f, a + 1, a + b) \o SubSeq(f, (a + b) + 1, a + k) = SubSeq(f, a + 1, a + k)
  BY <1>4, ConcatAdjacentSubSeq
<1> QED
  BY <1>3, <1>5

(***************************************************************************)
(* The invariant.                                                          *)
(***************************************************************************)

\* The cells of the frame are in the buffer, and known to be its own.
Filled ==
  \A n \in 0..(Len(frame) - 1) : buffer[n] = [val |-> frame[n + 1], fresh |-> TRUE]

\* Where the headers put the next one.
Decoded ==
  /\ pc = "ip" => pos = EthLen
  /\ pc = "layer4" => pos = Layer4At(frame) /\ protocol = Proto(frame)
  /\ pc \in {"dump", "wait"} => pos = PayloadAt(frame)

\* The first k cells of what the headers leave of a frame, and how many there
\* are of them.
FirstCells(f, k) == SubSeq(f, PayloadAt(f) + 1, PayloadAt(f) + k)
PayloadLen(f) == Len(f) - PayloadAt(f)

\* What the right half has after k cells of n: the lines that are complete.
Shown(k, n) == IF k = n THEN n ELSE k - (k % Row)

Printed ==
  /\ pc \in {"ip", "layer4"} => i = 0 /\ hex = <<>> /\ text = <<>>
  /\ pc = "wait" => i = PayloadLen(frame)
  /\ pc \in {"dump", "wait"} =>
       /\ i \in 0..PayloadLen(frame)
       /\ hex = FirstCells(frame, i)
       /\ text = FirstCells(frame, Shown(i, PayloadLen(frame)))

FrameInv ==
  /\ program \in {"linux_raw", "pcap"}
  /\ frame \in OnWire \union {<<>>} /\ total \in Nat
  /\ pc = "setup" => frame = <<>>
  /\ MadeFor(frame) => Filled /\ ~stale /\ pc # "crashed" /\ Decoded /\ Printed

\* A frame the sniffers are made for: its headers and its payload are in it.
LEMMA HeaderFacts ==
  ASSUME NEW f \in OnWire \union {<<>>}, MadeFor(f)
  PROVE  /\ f \in OnWire /\ f \in Seq(Values)
         /\ Len(f) \in Nat /\ Len(f) <= BufferSize /\ EthLen + ProtoAt < Len(f)
         /\ Ihl(f) * WordLen \in Nat /\ ProtoAt < Ihl(f) * WordLen
         /\ Layer4At(f) \in Nat /\ Layer4At(f) = EthLen + Ihl(f) * WordLen
         /\ Layer4At(f) <= PayloadAt(f)
         /\ PayloadAt(f) \in Nat /\ PayloadAt(f) <= Len(f) /\ PayloadLen(f) \in Nat
         /\ Proto(f) = TCP => /\ Layer4At(f) + OffsetAt < Len(f)
                              /\ PayloadAt(f) = Layer4At(f) + Offset(f) * WordLen
         /\ Proto(f) = ICMP => /\ Layer4At(f) < Len(f)
                               /\ PayloadAt(f) = Layer4At(f) + IcmpLen
         /\ Proto(f) \notin {TCP, ICMP} => PayloadAt(f) = Layer4At(f)
<1>1. f \in OnWire /\ f \in Seq(Values) /\ Len(f) \in Nat /\ Len(f) <= BufferSize
  BY FramesAssumption, LenProperties DEF MadeFor, Values, OnWire
<1>2. /\ Len(f) > EthLen + ProtoAt /\ Ihl(f) * WordLen > ProtoAt /\ Layer4At(f) <= Len(f)
      /\ Proto(f) = TCP => /\ Layer4At(f) + OffsetAt < Len(f)
                           /\ Offset(f) * WordLen > OffsetAt
                           /\ Layer4At(f) + Offset(f) * WordLen <= Len(f)
      /\ Proto(f) = ICMP => Layer4At(f) + IcmpLen <= Len(f)
  BY DEF MadeFor, HeadersComplete
<1>3. ASSUME NEW m \in Nat PROVE m * WordLen \in Nat
  BY <1>3, Sizes
<1>4. Ihl(f) \in Nat
  <2>1. EthLen + 1 \in 1..Len(f)
    BY <1>1, <1>2, Sizes
  <2> QED
    BY <1>1, <2>1, ElementOfSeq, Sizes DEF Ihl, Values
<1> DEFINE ip == Ihl(f) * WordLen
           tcp == Offset(f) * WordLen
<1>5. ip \in Nat
  BY <1>3, <1>4
<1>6. Layer4At(f) = EthLen + ip /\ Layer4At(f) \in Nat
  BY <1>5, Sizes DEF Layer4At
<1>7. Proto(f) = TCP => tcp \in Nat
  <2>1. ASSUME Proto(f) = TCP PROVE Offset(f) \in Nat
    <3>1. Layer4At(f) + OffsetAt + 1 \in 1..Len(f)
      BY <1>1, <1>2, <1>6, <2>1, Sizes
    <3> QED
      BY <1>1, <3>1, ElementOfSeq, Sizes DEF Offset, Values
  <2> QED
    BY <1>3, <2>1
<1>8. /\ Proto(f) = TCP => PayloadAt(f) = Layer4At(f) + tcp
      /\ Proto(f) = ICMP => PayloadAt(f) = Layer4At(f) + IcmpLen
      /\ Proto(f) \notin {TCP, ICMP} => PayloadAt(f) = Layer4At(f)
  BY <1>6 DEF PayloadAt, TCP, ICMP
<1> HIDE DEF ip, tcp
<1>9. /\ Layer4At(f) <= PayloadAt(f) /\ PayloadAt(f) \in Nat
      /\ PayloadAt(f) <= Len(f) /\ Len(f) - PayloadAt(f) \in Nat
      /\ Proto(f) = ICMP => Layer4At(f) < Len(f)
  BY <1>1, <1>2, <1>6, <1>7, <1>8, Sizes DEF tcp
<1> QED
  BY <1>1, <1>2, <1>5, <1>6, <1>8, <1>9 DEF ip, tcp, PayloadLen

LEMMA CapturedWhole ==
  ASSUME NEW f, MadeFor(f)
  PROVE  Captured(f) = f /\ (program = "pcap" => Proto(f) = TCP)
<1>1. program = "pcap" => Proto(f) = TCP /\ Len(f) <= Snap
  BY DEF MadeFor
<1> QED
  BY <1>1, Sizes DEF Captured

\* What the programs read of the buffer is the frame.
LEMMA Seen ==
  ASSUME FrameInv, MadeFor(frame), NEW n \in Nat, n < Len(frame)
  PROVE  n \in Cells /\ Val(n) = frame[n + 1] /\ ~Stale(n)
<1>1. Filled /\ Len(frame) \in Nat /\ Len(frame) <= BufferSize
  BY HeaderFacts DEF FrameInv
<1>2. n \in 0..(Len(frame) - 1) /\ n \in 0..(BufferSize - 1)
  BY <1>1, Sizes
<1>3. buffer[n] = [val |-> frame[n + 1], fresh |-> TRUE]
  BY <1>1, <1>2 DEF Filled
<1> QED
  BY <1>2, <1>3 DEF Cells, Val, Stale

\* Steps that keep the frame: what is left to show of them.
LEMMA SameFrame ==
  ASSUME FrameInv, UNCHANGED <<program, frame, total, buffer>>, pc' # "setup",
         MadeFor(frame) => ~stale' /\ pc' # "crashed" /\ Decoded' /\ Printed'
  PROVE  FrameInv'
<1>1. MadeFor(frame)' <=> MadeFor(frame)
  BY DEF MadeFor
<1>2. Filled => Filled'
  BY DEF Filled
<1> QED
  BY <1>1, <1>2 DEF FrameInv

LEMMA CaptureStep ==
  ASSUME FrameInv, NEW p \in Frames, Capture(p)
  PROVE  FrameInv'
<1> DEFINE f == p.cells
<1>1. /\ program' = program /\ frame' = f /\ pc' = "ip" /\ pos' = EthLen
      /\ i' = 0 /\ hex' = <<>> /\ text' = <<>>
      /\ stale' = (Len(Captured(f)) < EthLen)
      /\ f \in OnWire /\ total' \in Nat
  BY FramesAssumption DEF Capture, OnWire
<1>2. ASSUME MadeFor(f)
      PROVE  Filled' /\ ~stale' /\ Decoded' /\ Printed'
  <2>1. /\ Captured(f) = f /\ Len(f) \in Nat /\ Len(f) <= BufferSize
        /\ EthLen + ProtoAt < Len(f)
    BY <1>1, <1>2, CapturedWhole, HeaderFacts
  <2>2. ASSUME NEW n \in 0..(Len(f) - 1)
        PROVE  buffer'[n] = [val |-> f[n + 1], fresh |-> TRUE]
    <3>1. n \in 0..(BufferSize - 1) /\ n < Len(f)
      BY <2>1, Sizes
    <3> QED
      BY <2>1, <3>1 DEF Capture, Cells
  <2>3. ~(Len(f) < EthLen)
    BY <2>1, Sizes
  <2> QED
    BY <1>1, <2>1, <2>2, <2>3 DEF Filled, Decoded, Printed
<1>3. MadeFor(frame)' <=> MadeFor(f)
  BY <1>1 DEF MadeFor
<1> HIDE DEF f
<1> QED
  BY <1>1, <1>2, <1>3 DEF FrameInv

LEMMA DecodeIpStep ==
  ASSUME FrameInv, DecodeIp
  PROVE  FrameInv'
<1>1. /\ pc = "ip" /\ pc' = "layer4"
      /\ UNCHANGED <<program, frame, total, buffer, i, hex, text>>
      /\ protocol' = Val(pos + ProtoAt) /\ pos' = pos + Val(pos) * WordLen
      /\ stale' = (stale \/ Stale(pos) \/ Stale(pos + ProtoAt))
  BY DEF DecodeIp, IpLength
<1>2. ASSUME MadeFor(frame)
      PROVE  ~stale' /\ Decoded' /\ Printed'
  <2>1. /\ pos = EthLen /\ ~stale /\ Printed
    BY <1>1, <1>2 DEF FrameInv, Decoded
  <2>2. /\ EthLen \in Nat /\ EthLen + ProtoAt \in Nat
        /\ EthLen < Len(frame) /\ EthLen + ProtoAt < Len(frame)
    BY <1>2, HeaderFacts, Sizes DEF FrameInv
  <2>3. /\ Val(EthLen) = Ihl(frame) /\ ~Stale(EthLen)
        /\ Val(EthLen + ProtoAt) = Proto(frame) /\ ~Stale(EthLen + ProtoAt)
    BY <1>2, <2>2, Seen DEF Ihl, Proto
  <2>4. pos' = Layer4At(frame) /\ protocol' = Proto(frame)
    BY <1>1, <2>1, <2>3 DEF Layer4At
  <2>5. Layer4At(frame)' = Layer4At(frame) /\ Proto(frame)' = Proto(frame)
    BY <1>1 DEF Layer4At, Ihl, Proto
  <2> QED
    BY <1>1, <2>1, <2>3, <2>4, <2>5 DEF Decoded, Printed
<1> QED
  BY <1>1, <1>2, SameFrame

LEMMA DecodeLayer4Step ==
  ASSUME FrameInv, DecodeLayer4
  PROVE  FrameInv'
<1>1. /\ pc = "layer4" /\ pc' = "dump"
      /\ UNCHANGED <<program, frame, total, buffer, protocol, i, hex, text>>
  BY DEF DecodeLayer4
<1>2. ASSUME MadeFor(frame)
      PROVE  ~stale' /\ Decoded' /\ Printed'
  <2>1. /\ pos = Layer4At(frame) /\ protocol = Proto(frame) /\ ~stale
        /\ i = 0 /\ hex = <<>> /\ text = <<>>
    BY <1>1, <1>2 DEF FrameInv, Decoded, Printed
  <2>2. DecodesTCP <=> Proto(frame) = TCP
    BY <1>2, <2>1, CapturedWhole DEF DecodesTCP
  <2>3. pos' = PayloadAt(frame) /\ ~stale'
    <3>1. CASE Proto(frame) = TCP
      <4>1. /\ pos' = pos + Val(pos + OffsetAt) * WordLen
            /\ stale' = (stale \/ Stale(pos + OffsetAt))
        BY <2>2, <3>1 DEF DecodeLayer4, TcpLength
      <4>2. /\ Layer4At(frame) + OffsetAt \in Nat
            /\ Layer4At(frame) + OffsetAt < Len(frame)
            /\ PayloadAt(frame) = Layer4At(frame) + Offset(frame) * WordLen
        BY <1>2, <3>1, HeaderFacts, Sizes DEF FrameInv
      <4>3. /\ Val(Layer4At(frame) + OffsetAt) = Offset(frame)
            /\ ~Stale(Layer4At(frame) + OffsetAt)
        BY <1>2, <4>2, Seen DEF Offset
      <4> QED
        BY <2>1, <4>1, <4>2, <4>3
    <3>2. CASE Proto(frame) = ICMP
      <4>1. pos' = pos + IcmpLen /\ stale' = (stale \/ Stale(pos))
        BY <2>1, <2>2, <3>2 DEF DecodeLayer4, TCP, ICMP
      <4>2. /\ Layer4At(frame) \in Nat /\ Layer4At(frame) < Len(frame)
            /\ PayloadAt(frame) = Layer4At(frame) + IcmpLen
        BY <1>2, <3>2, HeaderFacts DEF FrameInv
      <4>3. ~Stale(Layer4At(frame))
        BY <1>2, <4>2, Seen
      <4> QED
        BY <2>1, <4>1, <4>2, <4>3
    <3>3. CASE Proto(frame) \notin {TCP, ICMP}
      <4>1. pos' = pos /\ stale' = stale
        BY <2>1, <2>2, <3>3 DEF DecodeLayer4
      <4>2. PayloadAt(frame) = Layer4At(frame)
        BY <1>2, <3>3, HeaderFacts DEF FrameInv
      <4> QED
        BY <2>1, <4>1, <4>2
    <3> QED
      BY <3>1, <3>2, <3>3
  <2>4. /\ PayloadAt(frame)' = PayloadAt(frame) /\ PayloadLen(frame)' = PayloadLen(frame)
        /\ \A k \in Nat : FirstCells(frame, k)' = FirstCells(frame, k)
    BY <1>1 DEF PayloadAt, PayloadLen, FirstCells, Layer4At, Proto, Offset, Ihl
  <2>5. /\ PayloadLen(frame) \in Nat /\ 0 \in 0..PayloadLen(frame)
        /\ PayloadAt(frame) \in Nat /\ PayloadAt(frame) <= Len(frame)
        /\ frame \in Seq(Values)
    BY <1>2, HeaderFacts DEF FrameInv
  <2>6. FirstCells(frame, 0) = <<>>
    BY <2>5, SubSeqEmpty DEF FirstCells
  <2>7. Shown(0, PayloadLen(frame)) = 0
    <3>1. 0 % Row = 0
      BY Sizes
    <3> QED
      BY <3>1 DEF Shown
  <2> QED
    BY <1>1, <2>1, <2>3, <2>4, <2>5, <2>6, <2>7 DEF Decoded, Printed
<1> QED
  BY <1>1, <1>2, SameFrame

\* One more cell of n: what is shown then.
LEMMA ShownNext ==
  ASSUME NEW n \in Nat, NEW k \in Nat, k < n
  PROVE  /\ Shown(k, n) = k - (k % Row) /\ Shown(k, n) \in Nat /\ Shown(k, n) <= k
         /\ Shown(k + 1, n) = IF k % Row = Row - 1 \/ k = n - 1 THEN k + 1
                              ELSE Shown(k, n)
<1> DEFINE r == k % Row
           s == (k + 1) % Row
<1>1. /\ r \in 0..(Row - 1) /\ r <= k
      /\ s = IF r = Row - 1 THEN 0 ELSE r + 1
  BY NextInLine
<1>2. Shown(k, n) = k - r /\ Shown(k + 1, n) = IF k + 1 = n THEN n ELSE (k + 1) - s
  BY DEF Shown
<1> HIDE DEF r, s
<1> SUFFICES /\ Shown(k, n) = k - r /\ Shown(k, n) \in Nat /\ Shown(k, n) <= k
             /\ Shown(k + 1, n) = IF r = Row - 1 \/ k = n - 1 THEN k + 1
                                  ELSE Shown(k, n)
  BY DEF r
<1> QED
  BY <1>1, <1>2, Sizes

LEMMA DumpCellStep ==
  ASSUME FrameInv, DumpCell
  PROVE  FrameInv'
<1>1. /\ pc = "dump" /\ i < DumpLength
      /\ UNCHANGED <<program, tcpOnly, buffer, frame, total, pos, protocol>>
      /\ pc' \in {"dump", "crashed"}
  BY DEF DumpCell
<1>2. ASSUME MadeFor(frame)
      PROVE  ~stale' /\ pc' # "crashed" /\ Decoded' /\ Printed'
  <2> DEFINE at == PayloadAt(frame)
             n  == PayloadLen(frame)
             b  == Shown(i, n)
  <2>1. /\ pos = at /\ i \in 0..n /\ ~stale
        /\ hex = FirstCells(frame, i) /\ text = FirstCells(frame, b)
    BY <1>1, <1>2 DEF FrameInv, Decoded, Printed
  <2>2. /\ frame \in Seq(Values) /\ Len(frame) \in Nat /\ Len(frame) <= BufferSize
        /\ at \in Nat /\ n \in Nat /\ n = Len(frame) - at
    BY <1>2, HeaderFacts DEF FrameInv, PayloadLen
  <2>3. DumpLength = n
    <3>1. n \in 0..BufferSize
      BY <2>2, Sizes
    <3> QED
      BY <2>1, <2>2, <3>1, FitsUInt DEF DumpLength
  <2> HIDE DEF n, at
  <2>4. /\ i \in Nat /\ i < n /\ at + i \in Nat /\ at + i < Len(frame)
        /\ i + 1 \in 0..n /\ n - 1 \in 0..BufferSize
    BY <1>1, <2>1, <2>2, <2>3, Sizes
  <2>5. (DumpLength - 1) % UIntMod = n - 1
    BY <2>3, <2>4, FitsUInt
  <2>6. /\ at + i \in Cells /\ Val(at + i) = frame[at + i + 1] /\ ~Stale(at + i)
    BY <1>2, <2>4, Seen
  <2>7. /\ hex' = Append(hex, frame[at + i + 1]) /\ i' = i + 1 /\ pc' = "dump"
        /\ text' = IF i % Row = Row - 1 \/ i = n - 1
                   THEN text \o SubSeq(hex', i - (i % Row) + 1, i + 1) ELSE text
        /\ ~stale'
    BY <1>1, <2>1, <2>5, <2>6 DEF DumpCell
  <2>8. hex' = SubSeq(frame, at + 1, at + i + 1)
    <3>1. hex = SubSeq(frame, at + 1, at + i)
      BY <2>1 DEF FirstCells, at
    <3> QED
      BY <2>2, <2>4, <2>7, <3>1, PartGrows
  <2>9. /\ b = i - (i % Row) /\ b \in Nat /\ b <= i
        /\ Shown(i + 1, n) = IF i % Row = Row - 1 \/ i = n - 1 THEN i + 1 ELSE b
    BY <2>2, <2>4, ShownNext
  <2> HIDE DEF b
  <2>10. text \o SubSeq(hex', b + 1, i + 1) = SubSeq(frame, at + 1, at + (i + 1))
    <3>1. text = SubSeq(frame, at + 1, at + b)
      BY <2>1 DEF FirstCells, at
    <3> DEFINE k == i + 1
    <3>2. k \in Nat /\ b < k /\ at + k <= Len(frame) /\ at + k = at + i + 1
      BY <2>2, <2>4, <2>9
    <3> HIDE DEF k
    <3>3. SubSeq(frame, at + 1, at + b) \o SubSeq(SubSeq(frame, at + 1, at + k), b + 1, k)
            = SubSeq(frame, at + 1, at + k)
      <4>1. frame \in Seq(Values) /\ at \in Nat /\ b \in Nat
        BY <2>2, <2>9
      <4> QED
        BY <3>2, <4>1, PartCompleted
    <3> QED
      BY <2>8, <3>1, <3>2, <3>3 DEF k
  <2>11. text' = SubSeq(frame, at + 1, at + Shown(i + 1, n))
    <3>1. text = SubSeq(frame, at + 1, at + b)
      BY <2>1 DEF FirstCells, at
    <3> QED
      BY <2>7, <2>9, <2>10, <3>1
  <2>12. at' = at /\ n' = n /\ frame' = frame /\ pos' = pos
    BY <1>1 DEF at, n, PayloadAt, PayloadLen, Layer4At, Proto, Offset, Ihl
  <2>13. Decoded'
    BY <2>1, <2>7, <2>12 DEF Decoded, at
  <2>14. Printed'
    <3>1. at + (i + 1) = at + i + 1
      BY <2>2, <2>4
    <3> QED
      BY <2>4, <2>7, <2>8, <2>11, <2>12, <3>1 DEF Printed, FirstCells, at, n
  <2> QED
    BY <2>7, <2>13, <2>14
<1> QED
  BY <1>1, <1>2, SameFrame

LEMMA DumpEndsStep ==
  ASSUME FrameInv, DumpEnds
  PROVE  FrameInv'
<1>1. /\ pc = "dump" /\ pc' = "wait" /\ i >= DumpLength
      /\ UNCHANGED <<program, tcpOnly, buffer, frame, total, pos, protocol, i, hex, text, stale>>
  BY DEF DumpEnds
<1>2. ASSUME MadeFor(frame)
      PROVE  ~stale' /\ Decoded' /\ Printed'
  <2>1. /\ pos = PayloadAt(frame) /\ i \in 0..PayloadLen(frame) /\ ~stale /\ Printed
    BY <1>1, <1>2 DEF FrameInv, Decoded, Printed
  <2>2. /\ Len(frame) \in Nat /\ Len(frame) <= BufferSize /\ PayloadAt(frame) \in Nat
        /\ PayloadLen(frame) \in Nat /\ PayloadLen(frame) = Len(frame) - PayloadAt(frame)
    BY <1>2, HeaderFacts DEF FrameInv, PayloadLen
  <2>3. DumpLength = PayloadLen(frame)
    <3>1. PayloadLen(frame) \in 0..BufferSize
      BY <2>2, Sizes
    <3> QED
      BY <2>1, <2>2, <3>1, FitsUInt DEF DumpLength
  <2>4. i = PayloadLen(frame)
    BY <1>1, <2>1, <2>2, <2>3
  <2>5. /\ PayloadAt(frame)' = PayloadAt(frame) /\ PayloadLen(frame)' = PayloadLen(frame)
        /\ \A k : FirstCells(frame, k)' = FirstCells(frame, k)
    BY <1>1 DEF PayloadAt, PayloadLen, FirstCells, Layer4At, Proto, Offset, Ihl
  <2> QED
    BY <1>1, <2>1, <2>4, <2>5 DEF Decoded, Printed
<1> QED
  BY <1>1, <1>2, SameFrame

LEMMA InitFrame == Init => FrameInv
  BY DEF Init, FrameInv, MadeFor

LEMMA FrameStep == FrameInv /\ [Next]_vars => FrameInv'
<1> SUFFICES ASSUME FrameInv, [Next]_vars PROVE FrameInv'
  OBVIOUS
<1>1. CASE Setup
  <2>1. /\ frame = <<>> /\ UNCHANGED <<program, frame, total, buffer>> /\ pc' = "wait"
    BY <1>1 DEF Setup, FrameInv
  <2> QED
    BY <2>1, SameFrame DEF MadeFor
<1>2. CASE CaptureFails
  <2>1. /\ UNCHANGED <<program, tcpOnly, buffer, frame, total, pos, protocol, i, hex, text, stale>>
        /\ pc' = "ended" \/ (pc' = "crashed" /\ frame = <<>>)
    BY <1>2 DEF CaptureFails, FrameInv
  <2>2. MadeFor(frame) => ~stale' /\ pc' # "crashed" /\ Decoded' /\ Printed'
    BY <2>1 DEF FrameInv, Decoded, Printed, MadeFor
  <2> QED
    BY <2>1, <2>2, SameFrame
<1>3. CASE UNCHANGED vars
  <2>1. MadeFor(frame)' <=> MadeFor(frame)
    BY <1>3 DEF MadeFor, vars
  <2>2. MadeFor(frame) => Filled' /\ Decoded' /\ Printed'
    BY <1>3 DEF FrameInv, Filled, Decoded, Printed, vars, PayloadAt, PayloadLen,
                FirstCells, Layer4At, Proto, Offset, Ihl
  <2> QED
    BY <1>3, <2>1, <2>2 DEF FrameInv, vars
<1> QED
  BY <1>1, <1>2, <1>3, CaptureStep, DecodeIpStep, DecodeLayer4Step, DumpCellStep,
     DumpEndsStep DEF Next

LEMMA FrameAlways == Spec => []FrameInv
  BY InitFrame, FrameStep, PTL DEF Spec

\* A frame whose headers are complete is decoded without a cell of an earlier
\* frame, which the one buffer of linux_raw still holds, and the unsigned
\* length that dump() is given does not wrap (main.c:101-107, 138,
\* pcap_clase.c:87, 119).
THEOREM NothingStaleUsed == Spec => []OnlyThisFrame
<1>1. FrameInv => OnlyThisFrame
  BY DEF FrameInv, OnlyThisFrame
<1> QED
  BY <1>1, FrameAlways, PTL

\* The two halves of what dump() printed of such a frame are the payload of the
\* IP packet and the padding after it, for every length of them and of the
\* lines (main.c:115-138, 220-243, pcap_clase.c:110-119).
THEOREM PayloadIsPrinted == Spec => []PayloadPrinted
<1>1. FrameInv => PayloadPrinted
  <2> SUFFICES ASSUME FrameInv, pc = "wait", MadeFor(frame),
                      PacketEnd \in PayloadAt(frame)..Len(frame)
               PROVE  LET payload == SubSeq(frame, PayloadAt(frame) + 1, PacketEnd)
                          padding == SubSeq(frame, PacketEnd + 1, Len(frame)) IN
                      hex = payload \o padding /\ text = payload \o padding
    BY DEF PayloadPrinted
  <2> DEFINE at == PayloadAt(frame)
             n  == Len(frame)
             e  == PacketEnd
  <2>1. /\ hex = FirstCells(frame, PayloadLen(frame))
        /\ text = FirstCells(frame, PayloadLen(frame))
    BY DEF FrameInv, Printed, Shown
  <2>2. frame \in Seq(Values) /\ at \in Nat /\ n \in Nat /\ e \in at..n
    BY HeaderFacts DEF FrameInv
  <2>3. FirstCells(frame, PayloadLen(frame)) = SubSeq(frame, at + 1, n)
    <3>1. at + (n - at) = n
      BY <2>2
    <3> QED
      BY <3>1 DEF FirstCells, PayloadLen
  <2> HIDE DEF at, n, e
  <2>4. SubSeq(frame, at + 1, e) \o SubSeq(frame, e + 1, n) = SubSeq(frame, at + 1, n)
    <3>1. at + 1 \in 1..(n + 1) /\ e \in ((at + 1) - 1)..n /\ n \in e..n
      BY <2>2
    <3>2. n = Len(frame)
      BY DEF n
    <3> QED
      BY <2>2, <3>1, <3>2, ConcatAdjacentSubSeq
  <2> QED
    BY <2>1, <2>3, <2>4 DEF at, n, e
<1> QED
  BY <1>1, FrameAlways, PTL

=============================================================================
