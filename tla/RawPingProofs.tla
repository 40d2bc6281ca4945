--------------------------- MODULE RawPingProofs ---------------------------
(***************************************************************************)
(* Proofs about RawPing, for any width of a byte and packets of any length *)
(* that LengthAssumption allows: csum() loses no carry, its answer         *)
(* completes the sum of what it was computed over, and the packet that is  *)
(* sent verifies at the other end.                                         *)
(***************************************************************************)
EXTENDS RawPing, SequenceTheorems, WellFoundedInduction, TLAPS

(***************************************************************************)
(* Arithmetic.                                                             *)
(***************************************************************************)

\* Division with remainder, of any dividend by any divisor.
LEMMA DivMod ==
  ASSUME NEW n \in Nat, NEW w \in Nat, 0 < w
  PROVE  /\ n \div w \in Nat
         /\ n % w \in 0..(w - 1)
         /\ n = w * (n \div w) + (n % w)
  OBVIOUS

\* A quotient below the divisor, for a dividend below its square.
LEMMA DivBelow ==
  ASSUME NEW w \in Nat, 0 < w, NEW n \in Nat, n < w * w
  PROVE  n \div w \in 0..(w - 1)
<1>1. /\ n \div w \in Nat
      /\ n % w \in 0..(w - 1)
      /\ n = w * (n \div w) + (n % w)
  BY DivMod
<1>2. SUFFICES ASSUME n \div w >= w
               PROVE  FALSE
  BY <1>1
<1>3. w * (n \div w) >= w * w
  BY <1>1, <1>2
<1> QED
  BY <1>1, <1>3

\* What csum() makes of a sum s: the upper half added to the lower one, then
\* the carry of that, and the complement in words with w values.
Complement(s, w) ==
  LET folded == (s \div w) + (s % w) IN
  w - 1 - ((folded + folded \div w) % w)

\* Adding the carries back twice is enough for any sum below w * w: the sum
\* and the complement together are all ones, that is 0 modulo w - 1
\* (main.c:162-165).
LEMMA TwoFoldings ==
  ASSUME NEW w \in Nat, 2 <= w, NEW s \in Nat, s < w * w
  PROVE  /\ Complement(s, w) \in 0..(w - 1)
         /\ \E k \in Nat : s + Complement(s, w) = k * (w - 1)
<1> DEFINE q == s \div w
           r == s % w
           folded == q + r
<1>1. q \in 0..(w - 1) /\ r \in 0..(w - 1) /\ s = w * q + r
  BY DivMod, DivBelow
<1>2. Complement(s, w) = w - 1 - ((folded + folded \div w) % w)
  BY DEF Complement
<1> HIDE DEF q, r
<1>3. CASE folded < w
  <2>1. folded \div w = 0 /\ (folded + 0) % w = folded
    BY <1>1, <1>3
  <2>2. Complement(s, w) = w - 1 - folded
    BY <1>1, <1>2, <2>1
  <2>3. s + (w - 1 - folded) = (q + 1) * (w - 1)
    BY <1>1
  <2>4. Complement(s, w) \in 0..(w - 1)
    BY <1>1, <1>3, <2>2
  <2>5. q + 1 \in Nat /\ s + Complement(s, w) = (q + 1) * (w - 1)
    BY <1>1, <2>2, <2>3
  <2> QED
    BY <2>4, <2>5, Zenon
<1>4. CASE folded >= w
  <2>1. folded - w \in 0..(w - 2)
    BY <1>1, <1>4
  <2>2. folded \div w = 1
    BY <1>1, <2>1
  <2>3. (folded + 1) % w = folded - w + 1
    BY <1>1, <2>1
  <2>4. Complement(s, w) = 2 * w - 2 - folded
    BY <1>1, <1>2, <2>2, <2>3
  <2>5. s + (2 * w - 2 - folded) = (q + 2) * (w - 1)
    BY <1>1
  <2>6. Complement(s, w) \in 0..(w - 1)
    BY <1>1, <2>1, <2>4
  <2>7. q + 2 \in Nat /\ s + Complement(s, w) = (q + 2) * (w - 1)
    BY <1>1, <2>4, <2>5
  <2> QED
    BY <2>6, <2>7, Zenon
<1> QED
  BY <1>1, <1>3, <1>4

LEMMA WordFacts == Byte \in Nat /\ 2 <= Byte /\ Word \in Nat /\ 4 <= Word
<1>1. Byte \in Nat /\ 2 <= Byte
  BY LengthAssumption
<1>2. Byte * Byte \in Nat /\ 2 * Byte <= Byte * Byte
  BY <1>1
<1> QED
  BY <1>1, <1>2 DEF Word

-----------------------------------------------------------------------------
(***************************************************************************)
(* The loop of csum().  The part it adds up is From..To-1, by offset.      *)
(***************************************************************************)

From == IF pc = "ip" THEN 0 ELSE IpLen
To == IF pc = "ip" THEN IpLen ELSE Len(packet)

Adding == pc \in {"ip", "icmp"}

\* The types of what csum() uses.
PacketOK ==
  /\ packet \in Seq(0..(Byte - 1))
  /\ IpLen + IcmpLen <= Len(packet) /\ Len(packet) <= IpLen + IcmpLen + MaxPayload
  /\ buf \in Nat /\ bytes \in Nat /\ sum \in Nat

\* csum() never leaves its part, and its sum is at most what the bytes it has
\* added, taken for halves of words of ones, allow.
SumOK ==
  Adding => /\ From <= buf /\ buf + bytes <= To
            /\ 2 * sum <= (Word - 1) * (To - From - bytes)

CsumInv == PacketOK /\ SumOK

\* No carry is lost: when the loop has ended, the sum with the answer is 0 in
\* one's complement, however many carries the sum has collected in its upper
\* half and although they are added back only twice (main.c:150-166).
AnswerCompletes ==
  pc \in {"ip", "icmp"} /\ bytes = 0 => (sum + Answer) % (Word - 1) = 0

\* The bound of SumOK is below the square of Word at the end of a part.
LEMMA SumBelow ==
  ASSUME CsumInv, Adding, bytes = 0
  PROVE  sum < Word * Word
<1>1. To - From \in Nat /\ To - From <= 2 * (Word + 1)
  <2>1. Len(packet) \in Nat /\ IpLen <= Len(packet)
         /\ Len(packet) <= IpLen + IcmpLen + MaxPayload
    BY LayoutAssumption DEF CsumInv, PacketOK
  <2>2. CASE pc = "ip"
    BY <2>2, LengthAssumption, LayoutAssumption DEF From, To
  <2>3. CASE pc # "ip"
    BY <2>1, <2>3, LengthAssumption, LayoutAssumption, WordFacts DEF From, To
  <2> QED
    BY <2>2, <2>3
<1>2. 2 * sum <= (Word - 1) * (To - From)
  BY <1>1 DEF CsumInv, SumOK
<1>3. (Word - 1) * (To - From) <= (Word - 1) * (2 * (Word + 1))
  BY <1>1, WordFacts
<1>4. (Word - 1) * (2 * (Word + 1)) = 2 * (Word * Word) - 2
  BY WordFacts
<1> QED
  BY <1>1, <1>2, <1>3, <1>4, WordFacts DEF CsumInv, PacketOK

\* A multiple leaves no remainder.
LEMMA Multiples ==
  ASSUME NEW k \in Nat, NEW m \in Nat, 0 < m
  PROVE  (k * m) % m = 0
<1>1. k * m \in Nat
  OBVIOUS
<1> DEFINE q == (k * m) \div m
           r == (k * m) % m
<1>2. q \in Nat /\ r \in 0..(m - 1) /\ k * m = m * q + r
  BY <1>1, DivMod
<1> HIDE DEF q, r
<1>3. r = m * (k - q)
  BY <1>2
<1>4. CASE k - q <= 0
  <2>1. m * (k - q) <= 0
    BY <1>2, <1>4
  <2>2. r = 0
    BY <1>2, <1>3, <2>1
  <2> QED
    BY <2>2 DEF r
<1>5. CASE k - q >= 1
  <2>1. m * (k - q) >= m
    BY <1>2, <1>5
  <2> QED
    BY <1>2, <1>3, <2>1
<1> QED
  BY <1>2, <1>4, <1>5

\* At the end of a part the answer is a word, and completes the sum.
LEMMA AnswerIsComplement ==
  ASSUME CsumInv, Adding, bytes = 0
  PROVE  /\ Answer \in 0..(Word - 1)
         /\ (sum + Answer) % (Word - 1) = 0
<1>1. Answer = Complement(sum, Word)
  BY DEF Answer, Complement
<1>2. sum \in Nat /\ sum < Word * Word
  BY SumBelow DEF CsumInv, PacketOK
<1>3. Word \in Nat /\ 2 <= Word /\ Word - 1 \in Nat /\ 0 < Word - 1
  BY WordFacts
<1>4. /\ Answer \in 0..(Word - 1)
      /\ \E k \in Nat : sum + Answer = k * (Word - 1)
  BY <1>1, <1>2, <1>3, TwoFoldings, Zenon
<1>5. PICK k \in Nat : sum + Answer = k * (Word - 1)
  BY <1>4
<1>6. (k * (Word - 1)) % (Word - 1) = 0
  BY <1>3, Multiples
<1> QED
  BY <1>4, <1>5, <1>6

-----------------------------------------------------------------------------
(***************************************************************************)
(* CsumInv is inductive.                                                   *)
(***************************************************************************)

\* The values of a byte.
Bytes == 0..(Byte - 1)

\* A function on 1..n into S is a sequence of n values of S.
LEMMA SeqOfLength ==
  ASSUME NEW n \in Nat, NEW S, NEW p \in [1..n -> S]
  PROVE  p \in Seq(S) /\ Len(p) = n
<1>1. p \in Seq(S)
  BY SeqDef, Zenon
<1> QED
  BY <1>1, LenProperties

\* Any packet Init starts from, with the IP header to be added up.
LEMMA CsumInvInit == Init => CsumInv
<1> SUFFICES ASSUME Init PROVE CsumInv
  OBVIOUS
<1>1. PICK n \in 0..MaxPayload : packet \in PacketsOf(IpLen + IcmpLen + n)
  BY DEF Init
<1>2. n \in Nat /\ n <= MaxPayload /\ IpLen \in Nat /\ IcmpLen \in Nat
      /\ MaxPayload \in Nat
  BY LengthAssumption, LayoutAssumption
<1>3. packet \in [1..(IpLen + IcmpLen + n) -> Bytes]
  BY <1>1 DEF PacketsOf, Bytes
<1>4. IpLen + IcmpLen + n \in Nat
  BY <1>2
<1>5. packet \in Seq(Bytes) /\ Len(packet) = IpLen + IcmpLen + n
  BY <1>3, <1>4, SeqOfLength
<1>6. pc = "ip" /\ buf = 0 /\ bytes = IpLen /\ sum = 0
  BY DEF Init
<1>7. IpLen + IcmpLen <= Len(packet)
      /\ Len(packet) <= IpLen + IcmpLen + MaxPayload
  BY <1>2, <1>5
<1>8. PacketOK
  BY <1>2, <1>5, <1>6, <1>7 DEF PacketOK, Bytes
<1>9. SumOK
  BY <1>2, <1>6, WordFacts DEF SumOK, From, To
<1> QED
  BY <1>8, <1>9 DEF CsumInv

\* A byte of the part still to be added is there, and a byte.
LEMMA ByteRange ==
  ASSUME CsumInv, Adding, NEW i \in Nat, buf <= i, i < buf + bytes
  PROVE  ByteAt(i) \in Bytes
<1>1. buf \in Nat /\ bytes \in Nat /\ packet \in Seq(Bytes)
  BY DEF CsumInv, PacketOK, Bytes
<1>2. buf + bytes <= To /\ To <= Len(packet) /\ Len(packet) \in Nat /\ To \in Int
  BY <1>1, LayoutAssumption, LenProperties, SMTT(30)
     DEF CsumInv, SumOK, PacketOK, To
<1>3. i + 1 \in 1..Len(packet)
  BY <1>1, <1>2
<1> QED
  BY <1>1, <1>3, ElementOfSeq DEF ByteAt

\* A turn of the loop leaves the bounds of what is added up as they are.
LEMMA PartUnchanged ==
  ASSUME UNCHANGED <<pc, packet>>
  PROVE  From' = From /\ To' = To /\ (Adding' <=> Adding)
  BY DEF From, To, Adding

\* From and To are offsets.
LEMMA PartBounds ==
  ASSUME PacketOK
  PROVE  From \in Int /\ To \in Int /\ Len(packet) \in Nat
<1>1. Len(packet) \in Nat
  BY LenProperties DEF PacketOK
<1> QED
  BY <1>1, LayoutAssumption DEF From, To

\* What grows by at most d stays below a bound that grows by d.
LEMMA BoundMoves ==
  ASSUME NEW a \in Int, NEW b \in Int, NEW c \in Int, NEW d \in Int,
         a <= b, c <= a + d
  PROVE  c <= b + d
  OBVIOUS

\* Two bytes add at most a word of ones, two halves of it.
LEMMA AddWordKeeps == CsumInv /\ AddWord => CsumInv'
<1> SUFFICES ASSUME CsumInv, AddWord PROVE CsumInv'
  OBVIOUS
<1>1. /\ Adding /\ bytes > 1 /\ buf' = buf + 2 /\ bytes' = bytes - 2
      /\ sum' = sum + ByteAt(buf) + Byte * ByteAt(buf + 1)
      /\ UNCHANGED <<pc, packet>>
  BY DEF AddWord, Adding
<1>2. buf \in Nat /\ bytes \in Nat /\ sum \in Nat /\ PacketOK /\ SumOK
  BY DEF CsumInv, PacketOK
<1>3. ByteAt(buf) \in Bytes /\ ByteAt(buf + 1) \in Bytes
  BY <1>1, <1>2, ByteRange
<1> DEFINE low == ByteAt(buf)
           high == ByteAt(buf + 1)
<1>4. low \in Nat /\ low <= Byte - 1 /\ high \in Nat /\ high <= Byte - 1
  BY <1>3, WordFacts DEF Bytes
<1>5. sum' = sum + low + Byte * high
  BY <1>1
<1> HIDE DEF low, high
<1>6. Byte * high \in Nat /\ Byte * high <= Byte * (Byte - 1)
  BY <1>4, WordFacts
<1>7. sum' \in Nat /\ 2 * sum' <= 2 * sum + 2 * (Word - 1)
  BY <1>2, <1>4, <1>5, <1>6, WordFacts DEF Word
<1>8. PacketOK'
  BY <1>1, <1>2, <1>7 DEF PacketOK
<1>9. From \in Int /\ To \in Int /\ From' = From /\ To' = To
  BY <1>1, <1>2, PartBounds, PartUnchanged
<1>10. From <= buf /\ buf + bytes <= To
       /\ 2 * sum <= (Word - 1) * (To - From - bytes)
  BY <1>1, <1>2 DEF SumOK
<1>11. (Word - 1) * (To - From - (bytes - 2))
         = (Word - 1) * (To - From - bytes) + 2 * (Word - 1)
  BY <1>2, <1>9, WordFacts
<1>12. From <= buf + 2 /\ (buf + 2) + (bytes - 2) <= To
  BY <1>2, <1>9, <1>10
<1>13. 2 * sum' <= (Word - 1) * (To - From - (bytes - 2))
  <2> DEFINE before == (Word - 1) * (To - From - bytes)
             after == (Word - 1) * (To - From - (bytes - 2))
  <2>1. before \in Int /\ 2 * sum <= before
    BY <1>2, <1>9, <1>10, WordFacts
  <2>2. after = before + 2 * (Word - 1)
    BY <1>11
  <2> HIDE DEF before, after
  <2>3. 2 * sum' <= after
    <3>1. 2 * sum' \in Int /\ 2 * sum \in Int /\ 2 * (Word - 1) \in Int
      BY <1>2, <1>7, WordFacts
    <3> QED
      BY <1>7, <2>1, <2>2, <3>1, BoundMoves
  <2> QED
    BY <2>3 DEF after
<1>14. SumOK'
  BY <1>1, <1>9, <1>12, <1>13 DEF SumOK
<1> QED
  BY <1>8, <1>14 DEF CsumInv

\* The byte left over adds at most half a word of ones.
LEMMA AddOddByteKeeps == CsumInv /\ AddOddByte => CsumInv'
<1> SUFFICES ASSUME CsumInv, AddOddByte PROVE CsumInv'
  OBVIOUS
<1>1. /\ Adding /\ bytes = 1 /\ buf' = buf /\ bytes' = 0
      /\ sum' = sum + ByteAt(buf)
      /\ UNCHANGED <<pc, packet>>
  BY DEF AddOddByte, Adding
<1>2. buf \in Nat /\ bytes \in Nat /\ sum \in Nat /\ PacketOK /\ SumOK
  BY DEF CsumInv, PacketOK
<1>3. ByteAt(buf) \in Bytes
  BY <1>1, <1>2, ByteRange
<1>4. ByteAt(buf) \in Nat /\ ByteAt(buf) <= Byte - 1
  BY <1>3, WordFacts DEF Bytes
<1>5. 2 * (Byte - 1) <= Word - 1
  <2>1. Byte * Byte >= 2 * Byte
    BY WordFacts
  <2> QED
    BY <2>1, WordFacts DEF Word
<1>6. sum' \in Nat /\ 2 * sum' <= 2 * sum + (Word - 1)
  BY <1>1, <1>2, <1>4, <1>5, WordFacts
<1>7. PacketOK'
  BY <1>1, <1>2, <1>6 DEF PacketOK
<1>8. From \in Int /\ To \in Int /\ From' = From /\ To' = To
  BY <1>1, <1>2, PartBounds, PartUnchanged
<1>9. From <= buf /\ buf + 1 <= To
      /\ 2 * sum <= (Word - 1) * (To - From - 1)
  BY <1>1, <1>2 DEF SumOK
<1>10. (Word - 1) * (To - From) = (Word - 1) * (To - From - 1) + (Word - 1)
  BY <1>8, WordFacts
<1>11. 2 * sum' <= (Word - 1) * (To - From)
  <2> DEFINE before == (Word - 1) * (To - From - 1)
             after == (Word - 1) * (To - From)
  <2>1. before \in Int /\ 2 * sum <= before
    BY <1>8, <1>9, WordFacts
  <2>2. after = before + (Word - 1)
    BY <1>10
  <2> HIDE DEF before, after
  <2>3. 2 * sum' <= after
    <3>1. 2 * sum' \in Int /\ 2 * sum \in Int /\ Word - 1 \in Int
      BY <1>2, <1>6, WordFacts
    <3> QED
      BY <1>6, <2>1, <2>2, <3>1, BoundMoves
  <2> QED
    BY <2>3 DEF after
<1>12. buf + 0 <= To /\ To - From - 0 = To - From
  BY <1>2, <1>8, <1>9
<1>13. SumOK'
  BY <1>1, <1>8, <1>9, <1>11, <1>12 DEF SumOK
<1> QED
  BY <1>7, <1>13 DEF CsumInv

\* The answer is stored as two bytes, and the sum starts again from 0.
LEMMA ReturnKeeps == CsumInv /\ Return => CsumInv'
<1> SUFFICES ASSUME CsumInv, Return PROVE CsumInv'
  OBVIOUS
<1>1. Adding /\ bytes = 0 /\ sum' = 0
  BY DEF Return, Adding
<1>2. Answer \in 0..(Word - 1)
  BY <1>1, AnswerIsComplement
<1>3. Answer % Byte \in Bytes /\ Answer \div Byte \in Bytes
  <2>1. Answer \in Nat /\ Answer < Byte * Byte
    BY <1>2, WordFacts DEF Word
  <2>2. Answer % Byte \in 0..(Byte - 1)
    BY <2>1, DivMod, WordFacts
  <2>3. Answer \div Byte \in 0..(Byte - 1)
    BY <2>1, DivBelow, WordFacts
  <2> QED
    BY <2>2, <2>3 DEF Bytes
<1>4. packet \in Seq(Bytes) /\ buf \in Nat /\ bytes \in Nat
  BY DEF CsumInv, PacketOK, Bytes
<1>5. \A field : /\ Stored(field) \in Seq(Bytes)
                 /\ Len(Stored(field)) = Len(packet)
  <2> SUFFICES ASSUME NEW field
               PROVE  Stored(field) \in Seq(Bytes) /\ Len(Stored(field)) = Len(packet)
    OBVIOUS
  <2>1. Len(packet) \in Nat /\ packet \in [1..Len(packet) -> Bytes]
    BY <1>4, LenProperties
  <2>2. Stored(field) \in [1..Len(packet) -> Bytes]
    BY <1>3, <2>1 DEF Stored
  <2> QED
    BY <2>1, <2>2, SeqOfLength
<1>6. packet' \in Seq(Bytes) /\ Len(packet') = Len(packet)
  BY <1>5 DEF Return
<1>7. Len(packet) \in Nat /\ IpLen \in Nat /\ IcmpLen \in Nat
      /\ IpLen + IcmpLen <= Len(packet)
      /\ Len(packet) <= IpLen + IcmpLen + MaxPayload
  BY <1>4, LenProperties, LayoutAssumption DEF CsumInv, PacketOK
<1>8. CASE pc = "ip"
  <2>1. buf' = IpLen /\ bytes' = Len(packet) - IpLen /\ pc' = "icmp"
    BY <1>8 DEF Return
  <2>2. PacketOK'
    BY <1>1, <1>6, <1>7, <2>1 DEF PacketOK, Bytes
  <2>3. From' = IpLen /\ To' = Len(packet)
    BY <1>6, <2>1 DEF From, To
  <2>4. SumOK'
    BY <1>1, <1>7, <2>1, <2>3, WordFacts DEF SumOK
  <2> QED
    BY <2>2, <2>4 DEF CsumInv
<1>9. CASE pc # "ip"
  <2>1. buf' = buf /\ bytes' = bytes /\ pc' = "send"
    BY <1>9 DEF Return
  <2>2. PacketOK'
    BY <1>1, <1>4, <1>6, <1>7, <2>1 DEF PacketOK, Bytes
  <2>3. SumOK'
    BY <2>1 DEF SumOK, Adding
  <2> QED
    BY <2>2, <2>3 DEF CsumInv
<1> QED
  BY <1>8, <1>9

\* The rest of main adds nothing up.
LEMMA MainKeeps == CsumInv /\ (Send \/ Receive \/ Show) => CsumInv'
<1> SUFFICES ASSUME CsumInv, Send \/ Receive \/ Show PROVE CsumInv'
  OBVIOUS
<1>1. UNCHANGED <<packet, buf, bytes, sum>> /\ ~Adding'
  BY DEF Send, Receive, Show, Adding
<1>2. PacketOK'
  BY <1>1 DEF CsumInv, PacketOK
<1>3. SumOK'
  BY <1>1 DEF SumOK
<1> QED
  BY <1>2, <1>3 DEF CsumInv

\* csum() loses no carry, for any packet that is not longer than the protocol
\* allows and any width of a byte: its answer always completes the sum of the
\* part it was computed over (main.c:150-166).
THEOREM NoCarryLost == Spec => []AnswerCompletes
<1>1. Init => CsumInv
  BY CsumInvInit
<1>2. CsumInv /\ [Next]_vars => CsumInv'
  <2> SUFFICES ASSUME CsumInv, [Next]_vars PROVE CsumInv'
    OBVIOUS
  <2>1. CASE AddWord
    BY <2>1, AddWordKeeps
  <2>2. CASE AddOddByte
    BY <2>2, AddOddByteKeeps
  <2>3. CASE Return
    BY <2>3, ReturnKeeps
  <2>4. CASE Send \/ Receive \/ Show
    BY <2>4, MainKeeps
  <2>5. CASE UNCHANGED vars
    BY <2>5 DEF vars, CsumInv, PacketOK, SumOK, Adding, From, To
  <2> QED
    BY <2>1, <2>2, <2>3, <2>4, <2>5 DEF Next
<1>3. CsumInv => AnswerCompletes
  BY AnswerIsComplement DEF AnswerCompletes, Adding
<1> QED
  BY <1>1, <1>2, <1>3, PTL DEF Spec

-----------------------------------------------------------------------------
(***************************************************************************)
(* Sums, for every number of values.  The induction is over a set of       *)
(* natural numbers: it has a least element outside it or it is Nat.        *)
(***************************************************************************)

\* A set with 0, and with n + 1 whenever with n, has every natural number.
LEMMA SetInduction ==
  ASSUME NEW T, 0 \in T, \A n \in Nat : n \in T => n + 1 \in T
  PROVE  Nat \subseteq T
<1> DEFINE R == {p \in Nat \X Nat : p[1] < p[2]}
           U == Nat \ T
<1>1. IsWellFoundedOn(R, Nat)
  BY NatLessThanWellFounded DEF OpToRel
<1>2. \A m, n \in Nat : m < n => <<m, n>> \in R
  OBVIOUS
<1> HIDE DEF R
<1>3. SUFFICES ASSUME U # {} PROVE FALSE
  OBVIOUS
<1>4. PICK n \in U : \A m \in U : ~(<<m, n>> \in R)
  <2>1. U \subseteq Nat
    OBVIOUS
  <2> HIDE DEF U
  <2> QED
    BY <1>1, <1>3, <2>1, WFMin, Zenon
<1>5. n \in Nat /\ n # 0 /\ n \notin T
  BY <1>4
<1>6. n - 1 \in Nat /\ n - 1 < n /\ (n - 1) + 1 = n
  BY <1>5
<1>7. n - 1 \in U
  BY <1>5, <1>6
<1> QED
  BY <1>2, <1>4, <1>5, <1>6, <1>7

\* s has the sums of the values of g, up to that of the first n.
AreSums(s, g, n) ==
  \A k \in 0..n : s[k] = IF k = 0 THEN 0 ELSE s[k - 1] + g[k - 1]

LEMMA SumsUpTo ==
  ASSUME NEW g, NEW n \in Nat
  PROVE  /\ \E s : AreSums(s, g, n)
         /\ \A s, t : AreSums(s, g, n) /\ AreSums(t, g, n) => s[n] = t[n]
<1> DEFINE T == {m \in Nat : /\ \E s : AreSums(s, g, m)
                             /\ \A s, t : AreSums(s, g, m) /\ AreSums(t, g, m)
                                            => s[m] = t[m]}
<1>1. 0 \in T
  <2>1. AreSums([k \in Nat |-> 0], g, 0)
    BY DEF AreSums
  <2>2. ASSUME NEW s, AreSums(s, g, 0) PROVE s[0] = 0
    BY <2>2 DEF AreSums
  <2>3. \A s, t : AreSums(s, g, 0) /\ AreSums(t, g, 0) => s[0] = t[0]
    BY <2>2
  <2> QED
    BY <2>1, <2>3
<1>2. ASSUME NEW m \in Nat, m \in T
      PROVE  m + 1 \in T
  <2>1. PICK s : AreSums(s, g, m)
    BY <1>2
  <2> DEFINE u == [k \in Nat |-> IF k <= m THEN s[k] ELSE s[m] + g[m]]
  <2>2. AreSums(u, g, m + 1)
    <3> SUFFICES ASSUME NEW k \in 0..(m + 1)
                 PROVE  u[k] = IF k = 0 THEN 0 ELSE u[k - 1] + g[k - 1]
      BY DEF AreSums
    <3>1. CASE k <= m
      BY <2>1, <3>1 DEF AreSums
    <3>2. CASE k = m + 1
      BY <3>2
    <3> QED
      BY <3>1, <3>2
  <2>3. ASSUME NEW f, NEW h, AreSums(f, g, m + 1), AreSums(h, g, m + 1)
        PROVE  f[m + 1] = h[m + 1]
    <3>1. AreSums(f, g, m) /\ AreSums(h, g, m)
      BY <2>3 DEF AreSums
    <3>2. f[m] = h[m]
      BY <1>2, <3>1
    <3>3. f[m + 1] = f[m] + g[m] /\ h[m + 1] = h[m] + g[m]
      BY <2>3 DEF AreSums
    <3> QED
      BY <3>2, <3>3
  <2> HIDE DEF u
  <2> QED
    BY <2>2, <2>3
<1>3. Nat \subseteq T
  <2> HIDE DEF T
  <2> QED
    BY <1>1, <1>2, SetInduction
<1> QED
  BY <1>3

\* The recursion of Sums has a solution, which Sums therefore is.
LEMMA SumsStep ==
  ASSUME NEW g
  PROVE  Sums(g)[0] = 0 /\ \A k \in Nat : Sums(g)[k + 1] = Sums(g)[k] + g[k]
<1> DEFINE Upto(n) == CHOOSE s : AreSums(s, g, n)
           all == [n \in Nat |-> Upto(n)[n]]
           Solves(s) == s = [k \in Nat |-> IF k = 0 THEN 0 ELSE s[k - 1] + g[k - 1]]
<1>1. \A n \in Nat : AreSums(Upto(n), g, n)
  BY SumsUpTo
<1> HIDE DEF Upto
<1>2. ASSUME NEW k \in Nat
      PROVE  all[k] = IF k = 0 THEN 0 ELSE all[k - 1] + g[k - 1]
  <2>1. CASE k = 0
    BY <1>1, <2>1 DEF AreSums
  <2>2. CASE k # 0
    <3>1. k - 1 \in Nat /\ k \in 0..k /\ 0..(k - 1) \subseteq 0..k
      BY <2>2
    <3>2. AreSums(Upto(k), g, k)
      BY <1>1
    <3>3. Upto(k)[k] = Upto(k)[k - 1] + g[k - 1]
      BY <2>2, <3>1, <3>2 DEF AreSums
    <3>4. AreSums(Upto(k), g, k - 1)
      BY <3>1, <3>2 DEF AreSums
    <3>5. AreSums(Upto(k - 1), g, k - 1)
      BY <1>1, <3>1
    <3>6. Upto(k)[k - 1] = Upto(k - 1)[k - 1]
      BY <3>1, <3>4, <3>5, SumsUpTo
    <3> QED
      BY <2>2, <3>1, <3>3, <3>6
  <2> QED
    BY <2>1, <2>2
<1>3. Solves(all)
  BY <1>2
<1>4. Sums(g) = CHOOSE s : Solves(s)
  BY DEF Sums
<1> HIDE DEF all
<1>5. Solves(Sums(g))
  <2> HIDE DEF Solves
  <2> QED
    BY <1>3, <1>4
<1> QED
  BY <1>5

\* Sums of numbers are numbers.
LEMMA SumsType ==
  ASSUME NEW g, NEW n \in Nat, \A i \in 0..(n - 1) : g[i] \in Nat
  PROVE  \A k \in 0..n : Sums(g)[k] \in Nat
<1> DEFINE T == {k \in Nat : k <= n => Sums(g)[k] \in Nat}
<1>1. 0 \in T
  BY SumsStep
<1>2. ASSUME NEW k \in Nat, k \in T
      PROVE  k + 1 \in T
  <2> SUFFICES ASSUME k + 1 <= n PROVE Sums(g)[k + 1] \in Nat
    OBVIOUS
  <2>1. Sums(g)[k] \in Nat /\ g[k] \in Nat
    BY <1>2
  <2> QED
    BY <2>1, SumsStep
<1>3. Nat \subseteq T
  <2> HIDE DEF T
  <2> QED
    BY <1>1, <1>2, SetInduction
<1> QED
  BY <1>3

\* Sums of the same values are the same.
LEMMA SumsAgree ==
  ASSUME NEW g, NEW h, NEW n \in Nat, \A i \in 0..(n - 1) : g[i] = h[i]
  PROVE  Sums(g)[n] = Sums(h)[n]
<1> DEFINE T == {k \in Nat : k <= n => Sums(g)[k] = Sums(h)[k]}
<1>1. 0 \in T
  BY SumsStep
<1>2. ASSUME NEW k \in Nat, k \in T
      PROVE  k + 1 \in T
  <2> SUFFICES ASSUME k + 1 <= n PROVE Sums(g)[k + 1] = Sums(h)[k + 1]
    OBVIOUS
  <2>1. Sums(g)[k] = Sums(h)[k] /\ g[k] = h[k]
    BY <1>2
  <2> QED
    BY <2>1, SumsStep
<1>3. Nat \subseteq T
  <2> HIDE DEF T
  <2> QED
    BY <1>1, <1>2, SetInduction
<1> QED
  BY <1>3

\* h is g with the values at a and a + 1, which were 0, filled in.
Filled(g, h, a, n) ==
  /\ g[a] = 0 /\ g[a + 1] = 0
  /\ \A i \in 0..(n - 1) : g[i] \in Nat /\ h[i] \in Nat
  /\ \A i \in 0..(n - 1) : i # a /\ i # a + 1 => h[i] = g[i]

AddsUp(g, h, a, n) == Sums(h)[n] = Sums(g)[n] + h[a] + h[a + 1]

LEMMA SumsFilled ==
  ASSUME NEW g, NEW h, NEW a \in Nat, NEW n \in Nat, a + 1 < n, Filled(g, h, a, n)
  PROVE  AddsUp(g, h, a, n)
<1>0. /\ g[a] = 0 /\ g[a + 1] = 0
      /\ \A i \in 0..(n - 1) : g[i] \in Nat /\ h[i] \in Nat
      /\ \A i \in 0..(n - 1) : i # a /\ i # a + 1 => h[i] = g[i]
  BY DEF Filled
<1> DEFINE Low(k) == IF k > a THEN h[a] ELSE 0
           High(k) == IF k > a + 1 THEN h[a + 1] ELSE 0
           T == {k \in Nat : k <= n => Sums(h)[k] = Sums(g)[k] + Low(k) + High(k)}
<1>1. 0 \in T
  BY SumsStep
<1>2. ASSUME NEW k \in Nat, k \in T
      PROVE  k + 1 \in T
  <2> SUFFICES ASSUME k + 1 <= n
               PROVE  Sums(h)[k + 1] = Sums(g)[k + 1] + Low(k + 1) + High(k + 1)
    OBVIOUS
  <2>1. /\ k \in 0..(n - 1) /\ k \in 0..n
        /\ Sums(h)[k] = Sums(g)[k] + Low(k) + High(k)
    BY <1>2
  <2>2. Sums(h)[k + 1] = Sums(h)[k] + h[k] /\ Sums(g)[k + 1] = Sums(g)[k] + g[k]
    BY SumsStep
  <2>3. /\ Sums(g)[k] \in Nat /\ g[k] \in Nat /\ h[k] \in Nat
        /\ h[a] \in Nat /\ h[a + 1] \in Nat
    BY <1>0, <2>1, SumsType
  <2>4. CASE k = a
    BY <1>0, <2>1, <2>2, <2>3, <2>4
  <2>5. CASE k = a + 1
    BY <1>0, <2>1, <2>2, <2>3, <2>5
  <2>6. CASE k # a /\ k # a + 1
    <3>1. h[k] = g[k]
      BY <1>0, <2>1, <2>6
    <3>2. Low(k + 1) = Low(k) /\ High(k + 1) = High(k) /\ Low(k) \in Nat /\ High(k) \in Nat
      BY <2>3, <2>6
    <3> HIDE DEF Low, High
    <3> QED
      BY <2>1, <2>2, <2>3, <3>1, <3>2
  <2> QED
    BY <2>4, <2>5, <2>6
<1>3. Nat \subseteq T
  <2> HIDE DEF T
  <2> QED
    BY <1>1, <1>2, SetInduction
<1> QED
  BY <1>3 DEF AddsUp

-----------------------------------------------------------------------------
(***************************************************************************)
(* What the sums say of the packet.                                        *)
(***************************************************************************)

\* The loop has added up, as words, what it has left behind of its part, and
\* has come a whole number of words to do so.
SummedOK ==
  Adding => /\ buf % 2 = 0
            /\ bytes > 0 => buf + bytes = To
            /\ sum = SumOf(From, To - From - bytes)

Empty(field) == ByteAt(field) = 0 /\ ByteAt(field + 1) = 0

\* A checksum field is empty until its part has been added up.
FieldsOK ==
  /\ pc = "ip" => Empty(IpCheck)
  /\ Adding => Empty(IpLen + IcmpCheck)

\* From then on the part verifies.
VerifiedOK ==
  /\ pc # "ip" => Verifies(0, IpLen)
  /\ ~Adding => Verifies(IpLen, Len(packet) - IpLen)

ChecksumInv == CsumInv /\ SummedOK /\ FieldsOK /\ VerifiedOK

\* The bytes of the packet, by their weight.
LEMMA WeightedBytes ==
  ASSUME PacketOK, NEW from \in Nat, NEW i \in Nat, from + i < Len(packet)
  PROVE  /\ ByteAt(from + i) \in Bytes
         /\ Weighted(from)[i] = ByteAt(from + i) * (IF i % 2 = 0 THEN 1 ELSE Byte)
         /\ Weighted(from)[i] \in Nat
<1>1. packet \in Seq(Bytes) /\ Len(packet) \in Nat
  BY LenProperties DEF PacketOK, Bytes
<1>2. from + i + 1 \in 1..Len(packet)
  BY <1>1
<1>3. ByteAt(from + i) \in Bytes
  BY <1>1, <1>2, ElementOfSeq DEF ByteAt
<1>4. Weighted(from)[i] = ByteAt(from + i) * (IF i % 2 = 0 THEN 1 ELSE Byte)
  BY DEF Weighted
<1>5. ByteAt(from + i) \in Nat /\ Byte \in Nat
  BY <1>3, WordFacts DEF Bytes
<1>6. ByteAt(from + i) * 1 \in Nat /\ ByteAt(from + i) * Byte \in Nat
  BY <1>5
<1> QED
  BY <1>3, <1>4, <1>6

LEMMA Layout ==
  /\ IpLen \in Nat /\ IpCheck \in Nat /\ IcmpLen \in Nat /\ IcmpCheck \in Nat
  /\ IpLen % 2 = 0 /\ IpCheck % 2 = 0 /\ IcmpCheck % 2 = 0 /\ IpCheck + 1 < IpLen
  /\ IcmpCheck + 1 < IcmpLen
  BY LayoutAssumption

\* The sum of a part of the packet is a number, and depends only on the part.
LEMMA SumOfPart ==
  ASSUME PacketOK, NEW from \in Nat, NEW n \in Nat, from + n <= Len(packet)
  PROVE  SumOf(from, n) \in Nat
<1>1. Len(packet) \in Nat
  BY LenProperties DEF PacketOK
<1>2. ASSUME NEW i \in 0..(n - 1) PROVE Weighted(from)[i] \in Nat
  <2>1. i \in Nat /\ from + i < Len(packet)
    BY <1>1
  <2> QED
    BY <2>1, WeightedBytes
<1>3. \A k \in 0..n : Sums(Weighted(from))[k] \in Nat
  BY <1>2, SumsType
<1> QED
  BY <1>3 DEF SumOf

LEMMA PartSumsAgree ==
  ASSUME NEW from \in Nat, NEW n \in Nat,
         \A i \in from..(from + n - 1) : packet'[i + 1] = packet[i + 1]
  PROVE  SumOf(from, n)' = SumOf(from, n)
<1>1. ASSUME NEW i \in 0..(n - 1)
      PROVE  Weighted(from)'[i] = Weighted(from)[i]
  <2>1. i \in Nat /\ from + i \in from..(from + n - 1)
    OBVIOUS
  <2>2. packet'[from + i + 1] = packet[from + i + 1]
    BY <2>1
  <2> QED
    BY <2>1, <2>2 DEF Weighted, ByteAt
<1>2. Sums(Weighted(from)')[n] = Sums(Weighted(from))[n]
  BY <1>1, SumsAgree
<1> QED
  BY <1>2 DEF SumOf, Sums

\* Storing a checksum leaves the length of the packet alone.
LEMMA StoredLength ==
  ASSUME PacketOK, PacketOK', NEW field, packet' = Stored(field)
  PROVE  Len(packet') = Len(packet)
<1>1. Len(packet) \in Nat /\ DOMAIN packet = 1..Len(packet)
  BY LenProperties DEF PacketOK
<1>2. DOMAIN packet' = DOMAIN packet
  BY DEF Stored
<1>3. packet' \in Seq(0..(Byte - 1))
  BY DEF PacketOK
<1>4. Len(packet') \in Nat /\ DOMAIN packet' = 1..Len(packet')
  BY <1>3, LenProperties
<1>5. \A m, p \in Nat : 1..m = 1..p => m = p
  BY SMT
<1> QED
  BY <1>1, <1>2, <1>4, <1>5

\* The answer stored in an empty field of a part adds itself to its sum.
LEMMA StoredAdds ==
  ASSUME PacketOK, PacketOK', Answer \in 0..(Word - 1),
         NEW from \in Nat, NEW a \in Nat, NEW n \in Nat, a % 2 = 0, a + 1 < n,
         from + n <= Len(packet), packet' = Stored(from + a), Empty(from + a)
  PROVE  SumOf(from, n)' = SumOf(from, n) + Answer
<1> DEFINE g == Weighted(from)
           h == Weighted(from)'
           field == from + a
<1>1. packet \in Seq(Bytes) /\ Len(packet) \in Nat /\ DOMAIN packet = 1..Len(packet)
  BY LenProperties DEF PacketOK, Bytes
<1>2. /\ packet' = [packet EXCEPT ![field + 1] = Answer % Byte,
                                  ![field + 2] = Answer \div Byte]
      /\ field \in Nat /\ field + 1 \in 1..Len(packet) /\ field + 2 \in 1..Len(packet)
  BY <1>1 DEF Stored
<1>3. /\ packet'[field + 1] = Answer % Byte /\ packet'[field + 2] = Answer \div Byte
      /\ \A p \in 1..Len(packet) : p # field + 1 /\ p # field + 2 => packet'[p] = packet[p]
  BY <1>1, <1>2
<1>4. Len(packet') = Len(packet)
  BY StoredLength
<1>5. ASSUME NEW i \in 0..(n - 1)
      PROVE  g[i] \in Nat /\ h[i] \in Nat /\ (i # a /\ i # a + 1 => h[i] = g[i])
  <2>1. i \in Nat /\ from + i < Len(packet) /\ from + i + 1 \in 1..Len(packet)
    BY <1>1
  <2>2. g[i] \in Nat
    BY <2>1, WeightedBytes
  <2>3. h[i] = packet'[from + i + 1] * (IF i % 2 = 0 THEN 1 ELSE Byte)
    BY <2>1 DEF Weighted, ByteAt
  <2>4. g[i] = packet[from + i + 1] * (IF i % 2 = 0 THEN 1 ELSE Byte)
    BY <2>1 DEF Weighted, ByteAt
  <2>5. packet'[from + i + 1] \in Bytes
    <3>1. packet' \in Seq(Bytes)
      BY DEF PacketOK, Bytes
    <3> QED
      BY <1>4, <2>1, <3>1, ElementOfSeq
  <2>6. h[i] \in Nat
    <3>1. packet'[from + i + 1] \in Nat /\ Byte \in Nat
      BY <2>5, WordFacts DEF Bytes
    <3>2. packet'[from + i + 1] * 1 \in Nat /\ packet'[from + i + 1] * Byte \in Nat
      BY <3>1
    <3> QED
      BY <2>3, <3>2
  <2>7. ASSUME i # a, i # a + 1 PROVE h[i] = g[i]
    <3>1. from + i + 1 # field + 1 /\ from + i + 1 # field + 2
      BY <2>1, <2>7
    <3> QED
      BY <1>3, <2>1, <2>3, <2>4, <3>1
  <2> QED
    BY <2>2, <2>6, <2>7
<1>6. (a + 1) % 2 = 1
  OBVIOUS
<1>7. g[a] = 0 /\ g[a + 1] = 0
  <2>1. ByteAt(from + a) = 0 /\ ByteAt(from + (a + 1)) = 0
    <3>1. from + (a + 1) = from + a + 1
      OBVIOUS
    <3> QED
      BY <3>1 DEF Empty
  <2>2. g[a] = ByteAt(from + a) * 1 /\ g[a + 1] = ByteAt(from + (a + 1)) * Byte
    BY <1>6 DEF Weighted
  <2> QED
    BY <2>1, <2>2, WordFacts
<1>8. h[a] = Answer % Byte /\ h[a + 1] = (Answer \div Byte) * Byte
  <2>1. from + a + 1 = field + 1 /\ from + (a + 1) + 1 = field + 2
    OBVIOUS
  <2>2. h[a] = packet'[field + 1] * 1 /\ h[a + 1] = packet'[field + 2] * Byte
    <3>1. a + 1 \in Nat /\ (a + 1) % 2 # 0
      BY <1>6
    <3> QED
      BY <2>1, <3>1, SMTT(30) DEF Weighted, ByteAt
  <2>3. Answer % Byte \in Int
    BY WordFacts
  <2> QED
    BY <1>3, <2>2, <2>3
<1> HIDE DEF g, h, field
<1>9. AddsUp(g, h, a, n)
  <2>1. \A i \in 0..(n - 1) : g[i] \in Nat /\ h[i] \in Nat
    BY <1>5
  <2>2. \A i \in 0..(n - 1) : i # a /\ i # a + 1 => h[i] = g[i]
    BY <1>5
  <2>3. Filled(g, h, a, n)
    BY <1>7, <2>1, <2>2 DEF Filled
  <2> QED
    BY <2>3, SumsFilled, Zenon
<1>10. Sums(g)[n] \in Nat
  BY SumOfPart DEF SumOf, g
<1>11. /\ Answer % Byte \in Nat /\ (Answer \div Byte) * Byte \in Nat
       /\ (Answer % Byte) + (Answer \div Byte) * Byte = Answer
  <2>1. /\ Answer \in Nat /\ Answer \div Byte \in Nat /\ Answer % Byte \in 0..(Byte - 1)
        /\ Answer = Byte * (Answer \div Byte) + (Answer % Byte)
    BY DivMod, WordFacts
  <2> DEFINE q == Answer \div Byte
             r == Answer % Byte
  <2> HIDE DEF q, r
  <2>2. q \in Nat /\ r \in Nat /\ Answer = Byte * q + r
    BY <2>1 DEF q, r
  <2>3. q * Byte \in Nat /\ r + q * Byte = Answer
    BY <2>2, WordFacts
  <2> QED
    BY <2>2, <2>3 DEF q, r
<1>12. Sums(h)[n] = Sums(g)[n] + Answer
  BY <1>8, <1>9, <1>10, <1>11 DEF AddsUp
<1>13. SumOf(from, n)' = Sums(h)[n]
  BY DEF SumOf, Sums, h
<1> QED
  BY <1>12, <1>13 DEF SumOf, g

\* The sum with the answer is positive, and 0 in one's complement.
LEMMA AnswerVerifies ==
  ASSUME CsumInv, Adding, bytes = 0
  PROVE  /\ Answer \in 0..(Word - 1)
         /\ sum + Answer > 0 /\ (sum + Answer) % (Word - 1) = 0
<1>1. Answer \in 0..(Word - 1) /\ (sum + Answer) % (Word - 1) = 0
  BY AnswerIsComplement
<1>2. sum \in Nat
  BY DEF CsumInv, PacketOK
<1>3. CASE sum = 0
  <2>1. 0 \div Word = 0 /\ 0 % Word = 0
    BY WordFacts
  <2>2. Answer = Word - 1
    BY <1>3, <2>1, WordFacts DEF Answer
  <2> QED
    BY <1>1, <1>3, <2>2, WordFacts
<1> QED
  BY <1>1, <1>2, <1>3

-----------------------------------------------------------------------------
(***************************************************************************)
(* ChecksumInv is inductive.                                               *)
(***************************************************************************)

LEMMA ChecksumInit == Init => ChecksumInv
<1> SUFFICES ASSUME Init PROVE ChecksumInv
  OBVIOUS
<1>1. CsumInv
  BY CsumInvInit
<1>2. pc = "ip" /\ buf = 0 /\ bytes = IpLen /\ sum = 0 /\ Adding
  BY DEF Init, Adding
<1>3. SummedOK
  <2>1. From = 0 /\ To = IpLen /\ To - From - bytes = 0
    BY <1>2, Layout DEF From, To
  <2>2. SumOf(From, 0) = 0
    BY SumsStep DEF SumOf
  <2> QED
    BY <1>2, <2>1, <2>2, Layout DEF SummedOK
<1>4. FieldsOK
  <2>1. PICK n \in 0..MaxPayload : packet \in PacketsOf(IpLen + IcmpLen + n)
    BY DEF Init
  <2>2. \A f \in Fields : packet[f + 1] = 0 /\ packet[f + 2] = 0
    BY <2>1 DEF PacketsOf
  <2>3. Empty(IpCheck)
    <3>1. packet[IpCheck + 1] = 0 /\ packet[IpCheck + 2] = 0
      BY <2>2 DEF Fields
    <3>2. IpCheck + 1 + 1 = IpCheck + 2
      BY Layout
    <3> QED
      BY <3>1, <3>2 DEF Empty, ByteAt
  <2>4. Empty(IpLen + IcmpCheck)
    <3>1. packet[IcmpCheck + IpLen + 1] = 0 /\ packet[IcmpCheck + IpLen + 2] = 0
      BY <2>2 DEF Fields
    <3>2. /\ IpLen + IcmpCheck + 1 = IcmpCheck + IpLen + 1
          /\ IpLen + IcmpCheck + 1 + 1 = IcmpCheck + IpLen + 2
      BY Layout
    <3> QED
      BY <3>1, <3>2 DEF Empty, ByteAt
  <2> QED
    BY <2>3, <2>4 DEF FieldsOK
<1>5. VerifiedOK
  BY <1>2 DEF VerifiedOK, Adding
<1> QED
  BY <1>1, <1>3, <1>4, <1>5 DEF ChecksumInv

\* While csum() runs the packet stays as it is, and what was said of it.
LEMMA PacketUnchanged ==
  ASSUME ChecksumInv, UNCHANGED <<pc, packet>>
  PROVE  /\ FieldsOK' /\ VerifiedOK'
         /\ \A from, n : SumOf(from, n)' = SumOf(from, n)
<1>1. \A from, n : SumOf(from, n)' = SumOf(from, n)
  BY DEF SumOf, Sums, Weighted, ByteAt
<1>2. FieldsOK'
  BY DEF ChecksumInv, FieldsOK, Empty, ByteAt, Adding
<1>3. VerifiedOK'
  <2>1. /\ (pc # "ip" => Verifies(0, IpLen))
        /\ (~Adding => Verifies(IpLen, Len(packet) - IpLen))
    BY DEF ChecksumInv, VerifiedOK
  <2>2. Verifies(0, IpLen)' <=> Verifies(0, IpLen)
    BY <1>1 DEF Verifies
  <2>3. Verifies(IpLen, Len(packet) - IpLen)' <=> Verifies(IpLen, Len(packet) - IpLen)
    BY DEF Verifies, SumOf, Sums, Weighted, ByteAt
  <2> QED
    BY <2>1, <2>2, <2>3 DEF VerifiedOK, Adding
<1> QED
  BY <1>1, <1>2, <1>3

\* Where csum() is in its part.
LEMMA InPart ==
  ASSUME ChecksumInv, Adding, bytes > 0
  PROVE  /\ From \in Nat /\ From % 2 = 0 /\ To \in Nat /\ bytes \in Nat /\ buf \in Nat
         /\ To - From - bytes \in Nat /\ (To - From - bytes) % 2 = 0
         /\ buf = From + (To - From - bytes) /\ To <= Len(packet)
         /\ sum = SumOf(From, To - From - bytes) /\ sum \in Nat /\ PacketOK
<1>1. /\ buf \in Nat /\ bytes \in Nat /\ sum \in Nat /\ PacketOK /\ Len(packet) \in Nat
      /\ IpLen + IcmpLen <= Len(packet)
  BY LenProperties DEF ChecksumInv, CsumInv, PacketOK
<1>2. From \in Nat /\ To \in Nat /\ From % 2 = 0 /\ To <= Len(packet)
  BY <1>1, Layout DEF From, To
<1>3. /\ buf % 2 = 0 /\ buf + bytes = To /\ From <= buf
      /\ sum = SumOf(From, To - From - bytes)
  BY DEF ChecksumInv, CsumInv, SumOK, SummedOK
<1>4. To - From - bytes = buf - From /\ (buf - From) % 2 = 0 /\ buf - From \in Nat
  BY <1>1, <1>2, <1>3
<1> QED
  BY <1>1, <1>2, <1>3, <1>4

LEMMA SumUnchanged ==
  ASSUME UNCHANGED <<pc, packet>>, NEW n, To' - From' - bytes' = n
  PROVE  SumOf(From, To - From - bytes)' = SumOf(From, n)
<1>1. Weighted(From)' = Weighted(From)
  BY PartUnchanged DEF Weighted, ByteAt
<1> QED
  BY <1>1 DEF SumOf, Sums

LEMMA AddWordSums == ChecksumInv /\ AddWord => ChecksumInv'
<1> SUFFICES ASSUME ChecksumInv, AddWord PROVE ChecksumInv'
  OBVIOUS
<1> DEFINE n == To - From - bytes
<1>1. /\ Adding /\ bytes > 1 /\ buf' = buf + 2 /\ bytes' = bytes - 2
      /\ sum' = sum + ByteAt(buf) + Byte * ByteAt(buf + 1)
      /\ UNCHANGED <<pc, packet>>
  BY DEF AddWord, Adding
<1>2. /\ From \in Nat /\ From % 2 = 0 /\ To \in Nat /\ bytes \in Nat /\ buf \in Nat
      /\ n \in Nat /\ n % 2 = 0 /\ buf = From + n /\ To <= Len(packet)
      /\ sum = SumOf(From, n) /\ sum \in Nat /\ PacketOK
  <2>1. bytes > 0
    BY <1>1 DEF ChecksumInv, CsumInv, PacketOK
  <2> QED
    BY <1>1, <2>1, InPart
<1>3. CsumInv' /\ FieldsOK' /\ VerifiedOK' /\ From' = From /\ To' = To
  BY <1>1, AddWordKeeps, PacketUnchanged, PartUnchanged DEF ChecksumInv
<1>4. n + 2 = To - From - (bytes - 2) /\ From + n + 1 < Len(packet)
      /\ Len(packet) \in Nat
  BY <1>1, <1>2, PartBounds
<1> HIDE DEF n
<1>5. SumOf(From, n + 2) = SumOf(From, n) + Weighted(From)[n] + Weighted(From)[n + 1]
  <2>1. /\ Sums(Weighted(From))[n + 1] = Sums(Weighted(From))[n] + Weighted(From)[n]
        /\ Sums(Weighted(From))[(n + 1) + 1]
             = Sums(Weighted(From))[n + 1] + Weighted(From)[n + 1]
    <3>1. n \in Nat /\ n + 1 \in Nat
      BY <1>2
    <3> QED
      BY <3>1, SumsStep, Zenon
  <2>2. (n + 1) + 1 = n + 2
    BY <1>2
  <2> QED
    BY <2>1, <2>2 DEF SumOf
<1>6. Weighted(From)[n] = ByteAt(buf) /\ Weighted(From)[n + 1] = Byte * ByteAt(buf + 1)
  <2>1. /\ ByteAt(From + n) \in Bytes /\ ByteAt(From + (n + 1)) \in Bytes
        /\ Weighted(From)[n] = ByteAt(From + n) * 1
        /\ Weighted(From)[n + 1] = ByteAt(From + (n + 1)) * Byte
    <3>1. n + 1 \in Nat /\ (n + 1) % 2 = 1 /\ From + n < Len(packet)
          /\ From + (n + 1) < Len(packet)
      BY <1>2, <1>4
    <3>2. ByteAt(From + n) \in Bytes /\ Weighted(From)[n] = ByteAt(From + n) * 1
      BY <1>2, <3>1, WeightedBytes
    <3>3. /\ ByteAt(From + (n + 1)) \in Bytes
          /\ Weighted(From)[n + 1] = ByteAt(From + (n + 1)) * Byte
      <4>1. (n + 1) % 2 # 0
        BY <3>1
      <4>2. /\ ByteAt(From + (n + 1)) \in Bytes
            /\ Weighted(From)[n + 1]
                 = ByteAt(From + (n + 1)) * (IF (n + 1) % 2 = 0 THEN 1 ELSE Byte)
        BY <1>2, <3>1, WeightedBytes, Zenon
      <4> QED
        BY <4>1, <4>2
    <3> QED
      BY <3>2, <3>3
  <2>2. From + n = buf /\ From + (n + 1) = buf + 1
    BY <1>2
  <2>3. ByteAt(buf) \in Int /\ ByteAt(buf + 1) \in Int /\ Byte \in Int
    BY <2>1, <2>2, WordFacts DEF Bytes
  <2> QED
    BY <2>1, <2>2, <2>3
<1>7. sum' = SumOf(From, n + 2)
  BY <1>1, <1>2, <1>5, <1>6
<1>8. SumOf(From, To - From - bytes)' = SumOf(From, n + 2)
  <2>1. To' - From' - bytes' = n + 2
    BY <1>1, <1>3, <1>4
  <2> QED
    BY <1>1, <1>3, <2>1, SumUnchanged
<1>9. SummedOK'
  <2>1. buf' % 2 = 0
    BY <1>1, <1>2
  <2>2. buf' + bytes' = To'
    BY <1>1, <1>2, <1>3 DEF n
  <2>3. sum' = SumOf(From, To - From - bytes)'
    BY <1>7, <1>8
  <2> QED
    BY <2>1, <2>2, <2>3 DEF SummedOK
<1> QED
  BY <1>3, <1>9 DEF ChecksumInv

LEMMA AddOddByteSums == ChecksumInv /\ AddOddByte => ChecksumInv'
<1> SUFFICES ASSUME ChecksumInv, AddOddByte PROVE ChecksumInv'
  OBVIOUS
<1> DEFINE n == To - From - bytes
<1>1. /\ Adding /\ bytes = 1 /\ buf' = buf /\ bytes' = 0
      /\ sum' = sum + ByteAt(buf) /\ UNCHANGED <<pc, packet>>
  BY DEF AddOddByte, Adding
<1>2. /\ From \in Nat /\ To \in Nat /\ bytes \in Nat /\ buf \in Nat
      /\ n \in Nat /\ n % 2 = 0 /\ buf = From + n /\ To <= Len(packet)
      /\ sum = SumOf(From, n) /\ sum \in Nat /\ PacketOK /\ buf % 2 = 0
  BY <1>1, InPart DEF ChecksumInv, SummedOK
<1>3. CsumInv' /\ FieldsOK' /\ VerifiedOK' /\ From' = From /\ To' = To
  BY <1>1, AddOddByteKeeps, PacketUnchanged, PartUnchanged DEF ChecksumInv
<1>4. n + 1 = To - From - 0 /\ From + n < Len(packet)
  BY <1>1, <1>2, PartBounds
<1> HIDE DEF n
<1>5. SumOf(From, n + 1) = SumOf(From, n) + Weighted(From)[n]
  BY <1>2, SumsStep, Zenon DEF SumOf
<1>6. Weighted(From)[n] = ByteAt(buf)
  <2>1. ByteAt(From + n) \in Bytes /\ Weighted(From)[n] = ByteAt(From + n) * 1
    BY <1>2, <1>4, WeightedBytes
  <2> QED
    BY <1>2, <2>1, WordFacts DEF Bytes
<1>7. sum' = SumOf(From, n + 1)
  BY <1>1, <1>2, <1>5, <1>6
<1>8. SumOf(From, To - From - bytes)' = SumOf(From, n + 1)
  <2>1. To' - From' - bytes' = n + 1
    BY <1>1, <1>3, <1>4
  <2> QED
    BY <1>1, <1>3, <2>1, SumUnchanged
<1>9. SummedOK'
  BY <1>1, <1>2, <1>7, <1>8 DEF SummedOK
<1> QED
  BY <1>3, <1>9 DEF ChecksumInv

\* When csum() returns, its sum is that of the whole part.
LEMMA PartSummed ==
  ASSUME ChecksumInv, Adding, bytes = 0
  PROVE  sum = SumOf(From, To - From)
<1>1. sum = SumOf(From, To - From - 0)
  BY DEF ChecksumInv, SummedOK
<1>2. From \in Nat /\ To \in Nat
  BY Layout, LenProperties DEF ChecksumInv, CsumInv, PacketOK, From, To
<1> QED
  BY <1>1, <1>2

\* main stores the answer in the empty field of the part, which verifies then.
LEMMA StoredVerifies ==
  ASSUME CsumInv, PacketOK', Adding, bytes = 0, NEW from \in Nat, NEW a \in Nat,
         NEW n \in Nat, a % 2 = 0, a + 1 < n, from + n <= Len(packet),
         sum = SumOf(from, n), packet' = Stored(from + a), Empty(from + a)
  PROVE  Verifies(from, n)'
<1>1. /\ Answer \in 0..(Word - 1)
      /\ sum + Answer > 0 /\ (sum + Answer) % (Word - 1) = 0
  BY AnswerVerifies
<1>2. SumOf(from, n)' = sum + Answer
  BY <1>1, StoredAdds DEF CsumInv
<1> QED
  BY <1>1, <1>2 DEF Verifies

\* Storing a checksum leaves the other bytes alone.
LEMMA StoredElsewhere ==
  ASSUME PacketOK, NEW field, packet' = Stored(field)
  PROVE  \A p \in 1..Len(packet) :
           p # field + 1 /\ p # field + 2 => packet'[p] = packet[p]
<1>1. DOMAIN packet = 1..Len(packet)
  BY LenProperties DEF PacketOK
<1> QED
  BY <1>1 DEF Stored

LEMMA ReturnSums == ChecksumInv /\ Return => ChecksumInv'
<1> SUFFICES ASSUME ChecksumInv, Return PROVE ChecksumInv'
  OBVIOUS
<1>1. /\ Adding /\ bytes = 0 /\ sum' = 0 /\ CsumInv /\ CsumInv' /\ PacketOK /\ PacketOK'
      /\ sum = SumOf(From, To - From)
  BY ReturnKeeps, PartSummed DEF Return, Adding, ChecksumInv, CsumInv
<1>2. Len(packet) \in Nat /\ IpLen + IcmpLen <= Len(packet)
  BY <1>1, LenProperties DEF PacketOK
<1>3. CASE pc = "ip"
  <2>1. /\ packet' = Stored(IpCheck) /\ buf' = IpLen /\ bytes' = Len(packet) - IpLen
        /\ pc' = "icmp"
    BY <1>3 DEF Return
  <2>2. /\ sum = SumOf(0, IpLen) /\ Empty(IpCheck) /\ Empty(IpLen + IcmpCheck)
    BY <1>1, <1>3, Layout DEF From, To, ChecksumInv, FieldsOK
  <2>3. Verifies(0, IpLen)'
    <3>1. 0 + IpCheck = IpCheck /\ 0 + IpLen <= Len(packet)
      BY <1>2, Layout
    <3> QED
      BY <1>1, <2>1, <2>2, <3>1, Layout, StoredVerifies
  <2>4. Empty(IpLen + IcmpCheck)'
    <3>1. /\ IpLen + IcmpCheck + 1 # IpCheck + 1 /\ IpLen + IcmpCheck + 1 # IpCheck + 2
          /\ IpLen + IcmpCheck + 1 + 1 # IpCheck + 1
          /\ IpLen + IcmpCheck + 1 + 1 # IpCheck + 2
          /\ IpLen + IcmpCheck + 1 \in 1..Len(packet)
          /\ IpLen + IcmpCheck + 1 + 1 \in 1..Len(packet)
      BY <1>2, Layout
    <3> QED
      BY <1>1, <2>1, <2>2, <3>1, StoredElsewhere DEF Empty, ByteAt
  <2>5. SummedOK'
    <3>1. Len(packet') = Len(packet)
      BY <1>1, <2>1, StoredLength
    <3>2. From' = IpLen /\ To' = Len(packet) /\ To' - From' - bytes' = 0
      BY <1>2, <2>1, <3>1, Layout DEF From, To
    <3>3. SumOf(From, To - From - bytes)' = 0
      BY <3>2, SumsStep, SMTT(30) DEF SumOf, Sums
    <3> QED
      BY <1>1, <1>2, <2>1, <3>2, <3>3, Layout DEF SummedOK
  <2>6. FieldsOK' /\ VerifiedOK'
    BY <2>1, <2>3, <2>4 DEF FieldsOK, VerifiedOK, Adding
  <2> QED
    BY <1>1, <2>5, <2>6 DEF ChecksumInv
<1>4. CASE pc = "icmp"
  <2>1. packet' = Stored(IpLen + IcmpCheck) /\ pc' = "send"
    BY <1>4 DEF Return
  <2>2. /\ sum = SumOf(IpLen, Len(packet) - IpLen) /\ Empty(IpLen + IcmpCheck)
        /\ Verifies(0, IpLen)
    BY <1>1, <1>4 DEF From, To, ChecksumInv, FieldsOK, VerifiedOK
  <2>3. Len(packet') = Len(packet)
    BY <1>1, <2>1, StoredLength
  <2>4. Verifies(IpLen, Len(packet) - IpLen)'
    <3>1. PICK n \in Nat : n = Len(packet) - IpLen
      BY <1>2, Layout
    <3>2. n \in Nat /\ IcmpCheck + 1 < n /\ IpLen + n <= Len(packet)
      BY <1>2, <3>1, Layout
    <3>3. sum = SumOf(IpLen, n)
      BY <2>2, <3>1
    <3>4. Verifies(IpLen, n)'
      BY <1>1, <2>1, <2>2, <3>2, <3>3, Layout, StoredVerifies
    <3>5. Len(packet') - IpLen = n
      BY <2>3, <3>1
    <3> QED
      BY <3>4, <3>5 DEF Verifies, SumOf, Sums, Weighted, ByteAt
  <2>5. Verifies(0, IpLen)'
    <3>1. \A i \in 0..(0 + IpLen - 1) : packet'[i + 1] = packet[i + 1]
      <4> SUFFICES ASSUME NEW i \in 0..(0 + IpLen - 1)
                   PROVE  packet'[i + 1] = packet[i + 1]
        OBVIOUS
      <4>1. /\ i + 1 \in 1..Len(packet)
            /\ i + 1 # IpLen + IcmpCheck + 1 /\ i + 1 # IpLen + IcmpCheck + 2
        BY <1>2, Layout
      <4> QED
        BY <1>1, <2>1, <4>1, StoredElsewhere
    <3>2. SumOf(0, IpLen)' = SumOf(0, IpLen)
      BY <3>1, Layout, PartSumsAgree
    <3> QED
      BY <2>2, <3>2 DEF Verifies
  <2> QED
    BY <1>1, <2>1, <2>4, <2>5
    DEF ChecksumInv, SummedOK, FieldsOK, VerifiedOK, Adding
<1> QED
  BY <1>1, <1>3, <1>4 DEF Adding

\* The rest of main leaves the packet as it was filled in.
LEMMA MainSums == ChecksumInv /\ (Send \/ Receive \/ Show) => ChecksumInv'
<1> SUFFICES ASSUME ChecksumInv, Send \/ Receive \/ Show PROVE ChecksumInv'
  OBVIOUS
<1>1. CsumInv'
  BY MainKeeps DEF ChecksumInv
<1>2. ~Adding /\ ~Adding' /\ pc # "ip" /\ pc' # "ip" /\ packet' = packet
  BY DEF Send, Receive, Show, Adding
<1>3. /\ Verifies(0, IpLen)' <=> Verifies(0, IpLen)
      /\ Verifies(IpLen, Len(packet) - IpLen)' <=> Verifies(IpLen, Len(packet) - IpLen)
  BY <1>2 DEF Verifies, SumOf, Sums, Weighted, ByteAt
<1> QED
  BY <1>1, <1>2, <1>3 DEF ChecksumInv, SummedOK, FieldsOK, VerifiedOK

\* The packet main sends passes the receiver's check of both its parts, for
\* any contents, any length even or odd, and any number of carries: what
\* csum() stores is computed over its own empty field and completes the sum
\* (main.c:104-105, 144-167).
THEOREM ChecksumsVerify == Spec => []ChecksumsHold
<1>1. Init => ChecksumInv
  BY ChecksumInit
<1>2. ChecksumInv /\ [Next]_vars => ChecksumInv'
  <2> SUFFICES ASSUME ChecksumInv, [Next]_vars PROVE ChecksumInv'
    OBVIOUS
  <2>1. CASE AddWord
    BY <2>1, AddWordSums
  <2>2. CASE AddOddByte
    BY <2>2, AddOddByteSums
  <2>3. CASE Return
    BY <2>3, ReturnSums
  <2>4. CASE Send \/ Receive \/ Show
    BY <2>4, MainSums
  <2>5. CASE UNCHANGED vars
    <3>1. UNCHANGED <<pc, packet>> /\ CsumInv'
      BY <2>5 DEF vars, ChecksumInv, CsumInv, PacketOK, SumOK, Adding, From, To
    <3>2. SummedOK'
      BY <2>5 DEF vars, ChecksumInv, SummedOK, Adding, From, To, SumOf, Sums,
        Weighted, ByteAt
    <3> QED
      BY <3>1, <3>2, PacketUnchanged DEF ChecksumInv
  <2> QED
    BY <2>1, <2>2, <2>3, <2>4, <2>5 DEF Next
<1>3. ChecksumInv => ChecksumsHold
  BY DEF ChecksumInv, VerifiedOK, ChecksumsHold, Adding
<1> QED
  BY <1>1, <1>2, <1>3, PTL DEF Spec

=============================================================================
