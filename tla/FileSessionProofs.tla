------------------------- MODULE FileSessionProofs -------------------------
(***************************************************************************)
(* Proofs about FileSession, for any lengths of file, buffer and stream,   *)
(* any number of entries and any width of the announced length: that the   *)
(* stream is intact, what a copy that came to its end holds, when the two  *)
(* programs may wait for each other, that QUIT is heard, and that the      *)
(* session implements FileCopy and ServerSession.                          *)
(***************************************************************************)
EXTENDS FileSession, SequenceTheorems, TLAPS

(***************************************************************************)
(* The invariant.                                                          *)
(***************************************************************************)

\* A request is on its way, the only thing that is.
Pending == c2s \in {<<"GET">>, <<"GET_no_name">>, <<"LIST">>}

\* Nothing of a file has been read or written.
NothingRead == offset = 0 /\ readBytes = 0 /\ writeBytes = 0 /\ stray = 0

\* What is under way to the child, and what either program then is up to.
CommandOK ==
  /\ c2s = <<>> \/ Pending \/ c2s = <<"QUIT">>
  /\ c2s = <<"QUIT">> => cpc \in {"close", "closed"}
  /\ spc = "done" => c2s = <<>> /\ cpc \in {"close", "closed"}
  /\ cpc = "start" => c2s = <<>> /\ spc \in {"command", "dead"}
  /\ Pending =>
       /\ spc \in {"command", "dead"}
       /\ spc = "command" => cpc \in {"header", "listing", "closed"}
       /\ (c2s = <<"LIST">>) <=> (prog = "list")

\* A child that is dead while its client is not was killed.
KilledOK ==
  /\ "killed" \in events => spc = "dead"
  /\ spc = "dead" /\ ~ClientGone => "killed" \in events

\* Before the child answers nothing has come of the session.
Before ==
  \/ cpc = "start"
  \/ Pending
  \/ spc \in {"open", "noname", "notfound", "ok", "opendir", "nodir"}

Untouched ==
  /\ NothingRead /\ st_size = 0
  /\ s2c = <<>> /\ answer = {} /\ totalReadBytes = 0 /\ local = <<>>
  /\ events \intersect {"shrank", "grew", "disk_full", "copied"} = {}

UntouchedOK == Before => Untouched

PortionOK ==
  /\ spc \in {"stat", "size", "blank"} => NothingRead
  /\ spc = "stat" => st_size = 0
  /\ spc \in {"stat", "size"} => "size" \notin answer
  /\ spc = "read" => writeBytes = readBytes
  /\ spc = "write" => writeBytes < readBytes
  /\ ~ReadFailed => readBytes <= offset /\ stray = 0
  /\ ReadFailed => spc \in {"write", "dead"} /\ readBytes = SizeMod - 1

ProgOK ==
  /\ spc \in {"open", "noname", "notfound", "ok", "stat", "size", "blank", "read", "write"}
       => prog = "get"
  /\ spc \in {"opendir", "nodir", "list"} => prog = "list"
  /\ prog = "list" => NothingRead /\ st_size = 0

ServerOK == UntouchedOK /\ PortionOK /\ ProgOK

\* The length of the file compared with the announced one.
FileOK ==
  /\ "grew" \notin events =>
       /\ offset <= st_size
       /\ spc \in {"size", "blank", "read", "write"} => flen <= st_size
  /\ "shrank" \notin events /\ spc \in {"size", "blank", "read", "write"} =>
       st_size <= flen

ClientOK ==
  /\ cpc \in {"header", "create", "copy"} => prog = "get"
  /\ cpc = "listing" => prog = "list"
  /\ prog = "list" => totalReadBytes = 0
  /\ cpc \in {"start", "header", "listing", "create"} => totalReadBytes = 0
  /\ "disk_full" \in events => cpc \in {"copy", "quit", "close", "closed"}
  /\ "copied" \in events => cpc \in {"quit", "close", "closed"} /\ "size" \in answer
  /\ cpc \in {"create", "copy"} => "size" \in answer
  /\ "size" \in answer => size = st_size % SizeMod
  /\ ~ReadFailed => totalReadBytes <= offset
  /\ "disk_full" \notin events => Len(local) = totalReadBytes
  /\ ~CopyBroken => local = FirstUnits(totalReadBytes)
  /\ ClientGone => s2c = <<>>

\* What a copy that came to its end has read, the exceptions of ExactCopy apart.
CopiedOK ==
  "copied" \in events /\ "grew" \notin events /\ st_size < SizeMod /\ ~ReadFailed =>
    totalReadBytes = st_size

\* The answer to a GET, item by item: three lines, then the data, of which no
\* more than m units are the file's.
AnswerItem(st, m, j) ==
  IF j = 1 THEN Line("OK")
  ELSE IF j = 2 THEN [kind |-> "size", n |-> st % SizeMod]
  ELSE IF j = 3 THEN Line("blank")
  ELSE IF j - 3 > m THEN Foreign ELSE Data(j - 3)

\* How many units of the file may be on the connection, as far as it is known.
Returned == IF ReadFailed THEN offset ELSE MaxLen

\* A part of that answer: the items after the first c.
InOrder(s, st, m, c) == \A i \in 1..Len(s) : s[i] = AnswerItem(st, m, c + i)

\* How many of its items the client has read, and the child has sent.
HeaderRead ==
  IF "blank" \in answer THEN 3
  ELSE IF "size" \in answer THEN 2
  ELSE IF "OK" \in answer THEN 1 ELSE 0

Consumed == HeaderRead + totalReadBytes
Sent == Consumed + Len(s2c)

Unanswered ==
  /\ s2c = <<>> /\ answer = {} /\ NothingRead /\ totalReadBytes = 0
  /\ spc \in {"command", "open", "noname", "notfound", "ok", "dead"}
  /\ spc = "command" => Pending \/ cpc = "start"
  /\ spc # "dead" => cpc \in {"start", "header"}

Refused ==
  /\ NothingRead /\ totalReadBytes = 0
  /\ spc \in {"command", "dead", "done"} /\ ~Pending
  /\ "size" \notin answer
  /\ \/ cpc = "header" /\ answer = {} /\ s2c \in {<<Line("ERROR")>>, <<Line("NOT_FOUND")>>}
     \/ cpc \in {"quit", "close"} /\ s2c = <<>>

GrantedAnswer ==
  /\ answer \subseteq {"OK", "size", "blank"}
  /\ "size" \in answer => "OK" \in answer
  /\ "blank" \in answer => "size" \in answer
  /\ InOrder(s2c, st_size, Returned, Consumed)

Granted ==
  /\ GrantedAnswer
  /\ (Sent \in 1..2 /\ NothingRead) \/ Sent = 3 + Written
  /\ spc \in {"stat", "size"} => Sent = 1
  /\ spc = "blank" => Sent = 2
  /\ spc \in {"read", "write", "command", "done"} => Sent = 3 + Written
  /\ spc \in {"stat", "size", "blank", "read", "write", "command", "done", "dead"}
  /\ ~Pending /\ cpc # "start"
  /\ cpc = "header" => HeaderRead < 3
  /\ HeaderRead < 3 => totalReadBytes = 0
  /\ cpc \in {"create", "copy"} =>
       HeaderRead = 3 \/ (HeaderRead = 2 /\ spc = "dead" /\ s2c = <<>>)
  /\ spc = "command" =>
       writeBytes = readBytes /\ ("shrank" \in events \/ st_size <= offset)

GetOK == prog = "get" /\ ~ClientGone => Unanswered \/ Refused \/ Granted

\* The answer to a LIST: entries and a blank line, or an error.
ListLines(s) == \A i \in 1..Len(s) : s[i].kind \in {"entry", "blank", "ERROR"}
Entries(s) == \A i \in 1..Len(s) : s[i].kind = "entry"
LastLines(s) ==
  /\ s # <<>>
  /\ \A i \in 1..Len(s) :
       s[i].kind \in IF i < Len(s) THEN {"entry"} ELSE {"blank", "ERROR"}

ListOK ==
  prog = "list" /\ ~ClientGone =>
    /\ ListLines(s2c)
    /\ spc = "list" /\ cpc = "listing" =>
         answer \subseteq {"entry"} /\ Entries(s2c)
    /\ spc = "command" /\ cpc = "listing" /\ ~Pending =>
         \/ answer \subseteq {"entry"} /\ LastLines(s2c)
         \/ s2c = <<>> /\ answer = {"blank"}

\* Once a whole file is copied the child has nothing left to send, and reads
\* the QUIT of its client.
Excused ==
  events \intersect {"killed", "interrupted", "grew", "read_failed"} # {}
    \/ st_size >= SizeMod

HeardOK ==
  "copied" \in events /\ ~Excused =>
    /\ offset = st_size /\ s2c = <<>>
    /\ spc \in {"read", "command", "done"}
    /\ cpc = "quit" => c2s = <<>> /\ spc # "done"
    /\ cpc \in {"close", "closed"} /\ spc # "done" => c2s = <<"QUIT">>

TypeInv == TypeOK /\ CommandOK /\ ServerOK

SessionInv ==
  /\ TypeInv /\ KilledOK /\ FileOK /\ ClientOK /\ CopiedOK
  /\ GetOK /\ ListOK /\ HeardOK

-----------------------------------------------------------------------------
(***************************************************************************)
(* The streams.                                                            *)
(***************************************************************************)

LEMMA SeqOfLength ==
  ASSUME NEW n \in Nat, NEW S, NEW p \in [1..n -> S]
  PROVE  p \in Seq(S) /\ Len(p) = n
  <1>1. p \in Seq(S)
    BY SeqDef, Zenon
  <1> QED
    BY <1>1, LenProperties

LEMMA ItemTypes ==
  /\ \A k \in Kinds : Line(k) \in Items
  /\ \A n \in Nat : Data(n) \in Items /\ [kind |-> "size", n |-> n] \in Items
  /\ Foreign \in Items
  BY DEF Line, Data, Foreign, Items, Kinds

\* A stream with one more item: what was in it, and then the item.
LEMMA Appended ==
  ASSUME NEW S, NEW s \in Seq(S), NEW x \in S
  PROVE  /\ Append(s, x) \in Seq(S) /\ Append(s, x) # <<>>
         /\ Len(Append(s, x)) = Len(s) + 1
         /\ \A i \in 1..Len(s) : Append(s, x)[i] = s[i]
         /\ Append(s, x)[Len(s) + 1] = x
  BY AppendProperties

\* A stream whose first item was read.
LEMMA Read ==
  ASSUME NEW S, NEW s \in Seq(S), s # <<>>
  PROVE  /\ Head(s) \in S /\ Head(s) = s[1] /\ Len(s) >= 1
         /\ Tail(s) \in Seq(S) /\ Len(Tail(s)) = Len(s) - 1
         /\ \A i \in 1..Len(Tail(s)) : Tail(s)[i] = s[i + 1] /\ i + 1 \in 1..Len(s)
  BY HeadTailProperties, EmptySeq

LEMMA InOrderAppend ==
  ASSUME NEW s \in Seq(Items), NEW st, NEW m, NEW c \in Nat, NEW x \in Items,
         InOrder(s, st, m, c), x = AnswerItem(st, m, c + Len(s) + 1)
  PROVE  InOrder(Append(s, x), st, m, c)
  <1>1. ASSUME NEW i \in 1..(Len(s) + 1)
        PROVE  Append(s, x)[i] = AnswerItem(st, m, c + i)
    <2>1. CASE i \in 1..Len(s)
      BY <2>1, Appended DEF InOrder
    <2>2. CASE i = Len(s) + 1
      BY <2>2, Appended, LenProperties
    <2> QED
      BY <2>1, <2>2, LenProperties
  <1>2. Len(Append(s, x)) = Len(s) + 1
    BY Appended
  <1> QED
    BY <1>1, <1>2 DEF InOrder

LEMMA InOrderTail ==
  ASSUME NEW s \in Seq(Items), NEW st, NEW m, NEW c \in Nat, InOrder(s, st, m, c), s # <<>>
  PROVE  /\ Head(s) = AnswerItem(st, m, c + 1)
         /\ InOrder(Tail(s), st, m, c + 1)
  <1>1. Head(s) = AnswerItem(st, m, c + 1)
    BY Read DEF InOrder
  <1>2. ASSUME NEW i \in 1..Len(Tail(s))
        PROVE  Tail(s)[i] = AnswerItem(st, m, c + 1 + i)
    <2>1. Tail(s)[i] = s[i + 1] /\ i + 1 \in 1..Len(s)
      BY Read
    <2>2. c + (i + 1) = c + 1 + i
      OBVIOUS
    <2> QED
      BY <2>1, <2>2 DEF InOrder
  <1> QED
    BY <1>1, <1>2 DEF InOrder

LEMMA InOrderRest ==
  ASSUME NEW s \in Seq(Items), NEW st, NEW m, NEW c \in Nat, InOrder(s, st, m, c),
         NEW k \in 1..Len(s)
  PROVE  /\ SubSeq(s, k + 1, Len(s)) \in Seq(Items)
         /\ Len(SubSeq(s, k + 1, Len(s))) = Len(s) - k
         /\ InOrder(SubSeq(s, k + 1, Len(s)), st, m, c + k)
  <1> DEFINE r == SubSeq(s, k + 1, Len(s))
  <1>1. /\ r \in Seq(Items) /\ Len(r) = Len(s) - k
        /\ \A i \in 1..Len(r) : r[i] = s[i + k] /\ i + k \in 1..Len(s)
    BY LenProperties
  <1>2. ASSUME NEW i \in 1..Len(r)
        PROVE  r[i] = AnswerItem(st, m, c + k + i)
    <2>1. c + (i + k) = c + k + i
      BY <1>1
    <2> QED
      BY <1>1, <2>1 DEF InOrder
  <1> QED
    BY <1>1, <1>2 DEF InOrder

LEMMA InOrderJoin ==
  ASSUME NEW s \in Seq(Items), NEW st, NEW m, NEW c \in Nat, InOrder(s, st, m, c),
         NEW t \in Seq(Items), InOrder(t, st, m, c + Len(s))
  PROVE  InOrder(s \o t, st, m, c)
  <1>1. /\ Len(s \o t) = Len(s) + Len(t)
        /\ \A i \in 1..Len(s \o t) :
             (s \o t)[i] = IF i <= Len(s) THEN s[i] ELSE t[i - Len(s)]
    BY ConcatProperties
  <1>2. ASSUME NEW i \in 1..Len(s \o t)
        PROVE  (s \o t)[i] = AnswerItem(st, m, c + i)
    <2>1. CASE i <= Len(s)
      BY <1>1, <2>1 DEF InOrder
    <2>2. CASE i > Len(s)
      <3>1. i - Len(s) \in 1..Len(t) /\ c + Len(s) + (i - Len(s)) = c + i
        BY <1>1, <2>2
      <3> QED
        BY <1>1, <2>2, <3>1 DEF InOrder
    <2> QED
      BY <2>1, <2>2, <1>1
  <1> QED
    BY <1>2 DEF InOrder

\* What write() takes of the portion in readBuffer.
LEMMA PortionInOrder ==
  ASSUME NEW w \in Nat, NEW k \in Nat, NEW st, NEW m \in Nat, w + k <= m,
         NEW p, p = [i \in 1..k |-> Data(w + i)]
  PROVE  p \in Seq(Items) /\ Len(p) = k /\ InOrder(p, st, m, 3 + w)
  <1>1. p \in [1..k -> Items]
    <2>1. \A i \in 1..k : w + i \in Nat
      OBVIOUS
    <2>2. \A i \in 1..k : Data(w + i) \in Items
      BY <2>1, ItemTypes, Zenon
    <2> QED
      BY <2>2, Zenon
  <1>2. p \in Seq(Items) /\ Len(p) = k
    BY <1>1, SeqOfLength, Zenon
  <1>3. ASSUME NEW i \in 1..k
        PROVE  p[i] = AnswerItem(st, m, 3 + w + i)
    BY DEF AnswerItem
  <1> QED
    BY <1>2, <1>3 DEF InOrder

\* And what it takes of the heap after a read that failed.
LEMMA HeapInOrder ==
  ASSUME NEW w \in Nat, NEW k \in Nat, NEW st, NEW m \in Nat, m <= w,
         NEW p, p = [i \in 1..k |-> Foreign]
  PROVE  p \in Seq(Items) /\ Len(p) = k /\ InOrder(p, st, m, 3 + w)
  <1>1. p \in [1..k -> Items]
    BY ItemTypes
  <1>2. p \in Seq(Items) /\ Len(p) = k
    BY <1>1, SeqOfLength, Zenon
  <1>3. ASSUME NEW i \in 1..k
        PROVE  p[i] = AnswerItem(st, m, 3 + w + i)
    BY DEF AnswerItem
  <1> QED
    BY <1>2, <1>3 DEF InOrder

\* A failing read changes nothing of what is on the connection by then.
LEMMA InOrderUpTo ==
  ASSUME NEW s \in Seq(Items), NEW st, NEW m \in Nat, NEW c \in Nat,
         InOrder(s, st, m, c), NEW n \in Nat, n <= m, c + Len(s) <= 3 + n
  PROVE  InOrder(s, st, n, c)
  <1>1. ASSUME NEW i \in 1..Len(s)
        PROVE  s[i] = AnswerItem(st, n, c + i)
    <2>1. i \in Nat /\ Len(s) \in Nat /\ i <= Len(s)
      BY LenProperties
    <2>2. ~(c + i - 3 > n) /\ ~(c + i - 3 > m)
      BY <2>1
    <2>3. s[i] = AnswerItem(st, m, c + i)
      BY DEF InOrder
    <2>4. AnswerItem(st, m, c + i) = AnswerItem(st, n, c + i)
      BY <2>2 DEF AnswerItem
    <2> QED
      BY <2>3, <2>4
  <1> QED
    BY <1>1 DEF InOrder

LEMMA FirstUnitsType ==
  ASSUME NEW n \in Nat
  PROVE  FirstUnits(n) \in Seq(Nat) /\ Len(FirstUnits(n)) = n
  <1>1. FirstUnits(n) \in [1..n -> Nat]
    BY DEF FirstUnits
  <1> QED
    BY <1>1, SeqOfLength, Zenon

\* The first n units, and then what read() returns of the data behind them.
LEMMA UnitsJoin ==
  ASSUME NEW n \in Nat, NEW s \in Seq(Items), NEW st, NEW m \in Nat,
         InOrder(s, st, m, 3 + n), NEW k \in 1..Len(s), n + k <= m
  PROVE  FirstUnits(n) \o [i \in 1..k |-> s[i].n] = FirstUnits(n + k)
  <1> DEFINE t == [i \in 1..k |-> s[i].n]
  <1>1. k \in Nat /\ k >= 1 /\ Len(s) \in Nat /\ k <= Len(s) /\ n + k \in Nat
    BY LenProperties
  <1>2. ASSUME NEW i \in 1..k
        PROVE  t[i] = n + i
    <2>1. i \in 1..Len(s) /\ n + i <= m
      BY <1>1
    <2>2. s[i] = AnswerItem(st, m, 3 + n + i)
      BY <2>1 DEF InOrder
    <2>3. AnswerItem(st, m, 3 + n + i) = Data(n + i)
      BY <1>1, <2>1 DEF AnswerItem
    <2> QED
      BY <2>2, <2>3 DEF Data
  <1>3. t \in Seq(Nat) /\ Len(t) = k
    <2>1. t \in [1..k -> Nat]
      BY <1>2
    <2> QED
      BY <2>1, <1>1, SeqOfLength, Zenon
  <1>4. /\ FirstUnits(n) \in Seq(Nat) /\ Len(FirstUnits(n)) = n
        /\ FirstUnits(n + k) \in Seq(Nat) /\ Len(FirstUnits(n + k)) = n + k
    BY <1>1, FirstUnitsType, Zenon
  <1> HIDE DEF t
  <1>5. /\ FirstUnits(n) \o t \in Seq(Nat) /\ Len(FirstUnits(n) \o t) = n + k
        /\ \A i \in 1..(n + k) : (FirstUnits(n) \o t)[i] =
             IF i <= n THEN FirstUnits(n)[i] ELSE t[i - n]
    <2> DEFINE u == FirstUnits(n)
    <2>1. u \in Seq(Nat) /\ Len(u) = n
      BY <1>4
    <2> HIDE DEF u
    <2>2. /\ u \o t \in Seq(Nat) /\ Len(u \o t) = n + k
          /\ \A i \in 1..(n + k) : (u \o t)[i] = IF i <= n THEN u[i] ELSE t[i - n]
      BY <1>3, <2>1, ConcatProperties
    <2> QED
      BY <2>2 DEF u
  <1>6. ASSUME NEW i \in 1..(n + k)
        PROVE  (FirstUnits(n) \o t)[i] = FirstUnits(n + k)[i]
    <2>1. FirstUnits(n + k)[i] = i
      BY DEF FirstUnits
    <2>2. CASE i <= n
      BY <1>5, <2>1, <2>2 DEF FirstUnits
    <2>3. CASE i > n
      <3>1. i - n \in 1..k /\ n + (i - n) = i
        BY <1>1, <2>3
      <3> QED
        BY <1>2, <1>5, <2>1, <2>3, <3>1
    <2>4. i <= n \/ i > n
      BY <1>1
    <2> QED
      BY <2>2, <2>3, <2>4, Zenon
  <1>7. FirstUnits(n) \o t = FirstUnits(n + k)
    BY <1>4, <1>5, <1>6, SeqEqual
  <1> QED
    BY <1>7 DEF t

LEMMA ListAppend ==
  ASSUME NEW s \in Seq(Items), NEW x \in Items,
         x.kind \in {"entry", "blank", "ERROR"}
  PROVE  /\ ListLines(s) => ListLines(Append(s, x))
         /\ Entries(s) /\ x.kind = "entry" => Entries(Append(s, x))
         /\ Entries(s) /\ x.kind # "entry" => LastLines(Append(s, x))
  <1>1. /\ Len(s) \in Nat /\ Len(Append(s, x)) = Len(s) + 1
        /\ Append(s, x) # <<>>
        /\ \A i \in 1..(Len(s) + 1) :
             Append(s, x)[i] = IF i <= Len(s) THEN s[i] ELSE x
    BY Appended, LenProperties
  <1>2. \A i \in 1..(Len(s) + 1) : i <= Len(s) => i \in 1..Len(s)
    BY <1>1
  <1> QED
    BY <1>1, <1>2 DEF ListLines, Entries, LastLines

LEMMA ListTail ==
  ASSUME NEW s \in Seq(Items), s # <<>>
  PROVE  /\ ListLines(s) => ListLines(Tail(s)) /\ Head(s).kind \in {"entry", "blank", "ERROR"}
         /\ Entries(s) => Entries(Tail(s)) /\ Head(s).kind = "entry"
         /\ LastLines(s) /\ Head(s).kind = "entry" => LastLines(Tail(s))
         /\ LastLines(s) /\ Head(s).kind # "entry" => Tail(s) = <<>>
  <1>1. /\ Len(s) \in Nat /\ Len(s) >= 1 /\ Len(Tail(s)) = Len(s) - 1
        /\ Head(s) = s[1] /\ 1 \in 1..Len(s)
        /\ \A i \in 1..Len(Tail(s)) : Tail(s)[i] = s[i + 1] /\ i + 1 \in 1..Len(s)
    BY Read, LenProperties
  <1>2. Tail(s) = <<>> \/ Len(s) # 1
    BY <1>1, Read, EmptySeq
  <1>3. LastLines(s) => (Len(s) = 1 <=> Head(s).kind # "entry")
    BY <1>1 DEF LastLines
  <1>4. LastLines(s) /\ Len(s) # 1 => LastLines(Tail(s))
    <2>1. Len(s) # 1 => Tail(s) # <<>>
      BY <1>1, EmptySeq
    <2>2. \A i \in 1..Len(Tail(s)) : i < Len(Tail(s)) <=> i + 1 < Len(s)
      BY <1>1
    <2> QED
      BY <1>1, <2>1, <2>2 DEF LastLines
  <1>5. /\ ListLines(s) => ListLines(Tail(s)) /\ Head(s).kind \in {"entry", "blank", "ERROR"}
        /\ Entries(s) => Entries(Tail(s)) /\ Head(s).kind = "entry"
    BY <1>1 DEF ListLines, Entries
  <1> QED
    BY <1>2, <1>3, <1>4, <1>5

-----------------------------------------------------------------------------
(***************************************************************************)
(* Each part of the invariant is kept by every step.                       *)
(***************************************************************************)

\* A stream of one command.
LEMMA OneCommand ==
  \A cmd : /\ Append(<<>>, cmd) = <<cmd>> /\ Tail(<<cmd>>) = <<>>
           /\ Head(<<cmd>>) = cmd /\ <<cmd>> # <<>>
           /\ \A d : <<cmd>> = <<d>> => cmd = d
  OBVIOUS

\* Where a client goes whose answer ends before its blank line.
LEMMA HeaderEndsTo ==
  ASSUME SessionInv, HeaderEnds
  PROVE  /\ cpc' \in {"create", "quit", "crashed"}
         /\ cpc' = "create" => "size" \in answer
  <1>1. /\ prog = "get" /\ ~ClientGone /\ cpc = "header" /\ s2c = <<>>
        /\ Unanswered \/ Refused \/ Granted
    BY DEF SessionInv, ClientOK, GetOK, HeaderEnds, ClientGone
  <1>2. answer = {} \/ answer = {"OK"} \/ "size" \in answer
    BY <1>1 DEF Unanswered, Refused, Granted, GrantedAnswer, HeaderRead
  <1> QED
    BY <1>2 DEF HeaderEnds

LEMMA CommandKept ==
  ASSUME SessionInv, Next
  PROVE  CommandOK'
  <1> DEFINE Idle == c2s = <<>>
             Quitting == c2s = <<"QUIT">>
  <1>1. CommandOK /\ ServerOK /\ ClientOK
    BY DEF SessionInv, TypeInv
  <1>11. /\ Idle \/ Pending \/ Quitting
         /\ Quitting => cpc \in {"close", "closed"}
         /\ spc = "done" => Idle /\ cpc \in {"close", "closed"}
         /\ cpc = "start" => Idle /\ spc \in {"command", "dead"}
         /\ Pending => spc \in {"command", "dead"}
         /\ Pending /\ spc = "command" => cpc \in {"header", "listing", "closed"}
    BY <1>1 DEF CommandOK
  <1> HIDE DEF Idle, Quitting
  <1>2. CASE ReadCommand
    <2>1. /\ c2s' = Tail(c2s) /\ c2s # <<>> /\ spc = "command"
          /\ cpc' = cpc /\ prog' = prog
      BY <1>2 DEF ReadCommand, clientVars
    <2>2. ~Idle /\ (Pending \/ Quitting) /\ cpc # "start"
      BY <1>11, <2>1 DEF Idle
    <2>3. c2s' = <<>>
      BY <2>1, <2>2, OneCommand DEF Pending, Quitting
    <2>4. ~Pending' /\ c2s' # <<"QUIT">>
      BY <2>3, OneCommand DEF Pending
    <2>5. Pending => spc' # "done"
      <3>1. Pending => Head(c2s) \in {"GET", "GET_no_name", "LIST"}
        BY OneCommand DEF Pending
      <3>2. spc' = CASE Head(c2s) = "GET"         -> "open"
                     [] Head(c2s) = "GET_no_name" -> "noname"
                     [] Head(c2s) = "LIST"        -> "opendir"
                     [] Head(c2s) = "QUIT"        -> "done"
        BY <1>2 DEF ReadCommand
      <3> QED
        BY <3>1, <3>2
    <2>6. spc' = "done" => cpc \in {"close", "closed"}
      BY <1>11, <2>2, <2>5
    <2> QED
      BY <2>1, <2>2, <2>3, <2>4, <2>6 DEF CommandOK
  <1>3. CASE SendRequest
    BY <1>1, <1>3, OneCommand DEF CommandOK, Pending, SendRequest, SendCommand,
       ServerGone, serverVars
  <1>4. CASE SendQuit
    <2>1. /\ cpc' = "close" /\ spc' = spc /\ prog' = prog
          /\ c2s' = IF spc \in {"done", "dead"} THEN c2s ELSE Append(c2s, "QUIT")
      BY <1>4 DEF SendQuit, SendCommand, ServerGone, serverVars
    <2>2. spc # "done" /\ (Idle \/ (Pending /\ spc = "dead"))
      <3>1. cpc = "quit"
        BY <1>4 DEF SendQuit
      <3> QED
        BY <1>11, <3>1
    <2>3. CASE spc = "dead"
      BY <1>1, <2>1, <2>2, <2>3 DEF CommandOK, Pending
    <2>4. CASE spc # "dead"
      <3>1. c2s' = <<"QUIT">>
        BY <2>1, <2>2, <2>4, OneCommand DEF Idle
      <3>2. ~Pending'
        BY <3>1, OneCommand DEF Pending
      <3> QED
        BY <2>1, <2>2, <3>1, <3>2 DEF CommandOK
    <2> QED
      BY <2>3, <2>4
  <1>5. CASE CloseClient \/ Interrupt
    BY <1>1, <1>5, OneCommand DEF CommandOK, Pending, CloseClient, Interrupt,
       CloseConnection, serverVars
  <1>6. CASE \/ ReadEndOfStream \/ OpenFile \/ AnswerLine \/ StatFile \/ SendSize
             \/ SendBlank \/ ReadFile \/ (\E k \in 1..Heap : WriteData(k))
             \/ WriteFaults \/ OpenDirectory \/ SendEntry \/ EndList \/ BrokenPipe
             \/ KillChild \/ ReadFails \/ (\E n \in 0..MaxLen : ChangeFile(n))
    BY <1>1, <1>6 DEF CommandOK, Pending, ReadEndOfStream, OpenFile, AnswerLine,
       StatFile, SendSize, SendBlank, ReadFile, WriteData, WriteFaults, OpenDirectory,
       SendEntry, EndList, BrokenPipe, KillChild, ReadFails, ChangeFile, clientVars,
       serverVars, Serving, Sending, ClientGone
  <1>7. CASE HeaderEnds
    <2>1. cpc' \in {"create", "quit", "crashed"}
      BY <1>7, HeaderEndsTo
    <2> QED
      BY <1>1, <1>7, <2>1 DEF CommandOK, Pending, HeaderEnds, serverVars, ServerGone
  <1>8. CASE ReadHeader \/ ReadList
    BY <1>1, <1>8 DEF CommandOK, Pending, ServerOK, UntouchedOK, Before, Untouched,
       ReadHeader, ReadList, serverVars
  <1>9. CASE CreateFile \/ (\E k \in 1..Chunk : CopyData(k)) \/ CopyEnds
    <2>1. "size" \in answer /\ cpc \in {"create", "copy"}
      BY <1>1, <1>9 DEF ClientOK, CreateFile, CopyData, CopyEnds
    <2>2. ~Pending
      BY <1>1, <2>1 DEF ServerOK, UntouchedOK, Before, Untouched
    <2>3. c2s' = c2s /\ spc' = spc /\ cpc' \in {"copy", "quit"} /\ prog' = prog
      BY <1>9 DEF CreateFile, CopyData, CopyEnds, serverVars
    <2> QED
      BY <1>1, <2>1, <2>2, <2>3, OneCommand DEF CommandOK, Pending
  <1>10. CASE ListEnds
    BY <1>1, <1>10 DEF CommandOK, Pending, ListEnds, serverVars, ServerGone
  <1> QED
    BY <1>2, <1>3, <1>4, <1>5, <1>6, <1>7, <1>8, <1>9, <1>10 DEF Next, ServerStep,
       ClientStep

\* What the steps of one side leave to the other.
LEMMA ServerFrame ==
  ASSUME ServerStep
  PROVE  /\ flen' = flen /\ events' = events
         /\ prog' = prog /\ cpc' = cpc /\ answer' = answer /\ size' = size
         /\ totalReadBytes' = totalReadBytes /\ local' = local
         /\ spc \in Serving /\ (ReadFailed' <=> ReadFailed)
         /\ ReadCommand \/ c2s' = c2s
  BY DEF ServerStep, ReadCommand, ReadEndOfStream, OpenFile, AnswerLine, StatFile,
     SendSize, SendBlank, ReadFile, WriteData, WriteFaults, OpenDirectory, SendEntry, EndList,
     BrokenPipe, clientVars, Serving, Sending, ReadFailed

LEMMA ClientFrame ==
  ASSUME ClientStep \/ Interrupt
  PROVE  /\ flen' = flen /\ spc' = spc /\ st_size' = st_size /\ offset' = offset
         /\ readBytes' = readBytes /\ writeBytes' = writeBytes /\ stray' = stray
         /\ entries' = entries /\ prog' = prog /\ ~ClientGone
         /\ ReadFailed' <=> ReadFailed
  BY DEF ClientStep, SendRequest, ReadHeader, HeaderEnds, CreateFile, CopyData,
     CopyEnds, SendQuit, ReadList, ListEnds, CloseClient, Interrupt,
     CloseConnection, serverVars, transfer, ClientGone, ReadFailed

LEMMA OutsideFrame ==
  ASSUME KillChild \/ (\E n \in 0..MaxLen : ChangeFile(n))
  PROVE  /\ st_size' = st_size /\ offset' = offset
         /\ readBytes' = readBytes /\ writeBytes' = writeBytes /\ stray' = stray
         /\ entries' = entries /\ c2s' = c2s /\ s2c' = s2c
         /\ ReadFailed' <=> ReadFailed
         /\ prog' = prog /\ cpc' = cpc /\ answer' = answer /\ size' = size
         /\ totalReadBytes' = totalReadBytes /\ local' = local
         /\ spc \in Serving
         /\ \/ spc' = "dead" /\ flen' = flen /\ events' = events \union {"killed"}
            \/ /\ spc' = spc /\ spc \in {"size", "blank", "read", "write"}
               /\ flen' \in 0..MaxLen /\ flen' # flen
               /\ events' = events \union {IF flen' < flen THEN "shrank" ELSE "grew"}
  BY DEF KillChild, ChangeFile, clientVars, serverVars, transfer, Serving, Sending,
     ReadFailed

LEMMA FailureFrame ==
  ASSUME SessionInv, ReadFails
  PROVE  /\ flen' = flen /\ st_size' = st_size /\ offset' = offset /\ stray' = stray
         /\ entries' = entries /\ c2s' = c2s /\ s2c' = s2c
         /\ prog' = prog /\ cpc' = cpc /\ answer' = answer /\ size' = size
         /\ totalReadBytes' = totalReadBytes /\ local' = local
         /\ events' = events \union {"read_failed"}
         /\ spc = "read" /\ spc' = "write"
         /\ readBytes' = SizeMod - 1 /\ writeBytes' = 0
         /\ ReadFailed' /\ ~ReadFailed /\ stray = 0 /\ writeBytes = readBytes
  BY DEF ReadFails, clientVars, ReadFailed, SessionInv, TypeInv, ServerOK, PortionOK

\* Where a command takes the child.
LEMMA CommandRead ==
  ASSUME SessionInv, ReadCommand
  PROVE  /\ spc = "command" /\ c2s' = <<>>
         /\ \/ /\ Pending /\ cpc \in {"header", "listing", "closed"}
               /\ spc' \in IF prog = "list" THEN {"opendir"} ELSE {"open", "noname"}
            \/ c2s = <<"QUIT">> /\ cpc \in {"close", "closed"} /\ spc' = "done"
         /\ UNCHANGED <<st_size, offset, readBytes, writeBytes, stray, entries, s2c>>
  BY OneCommand DEF ReadCommand, SessionInv, TypeInv, CommandOK, Pending, transfer

LEMMA UntouchedKept ==
  ASSUME SessionInv, Next, Before'
  PROVE  Before /\ Untouched'
  <1>1. CommandOK /\ UntouchedOK /\ ClientOK
    BY DEF SessionInv, TypeInv, ServerOK
  <1>2. Before
    <2>1. CASE ReadCommand
      BY <2>1, CommandRead, ServerFrame, OneCommand DEF Before, Pending, ServerStep
    <2>2. CASE ServerStep /\ ~ReadCommand
      <3>1. cpc' = cpc /\ c2s' = c2s
        BY <2>2, ServerFrame
      <3>2. spc' \in {"open", "noname", "notfound", "ok", "opendir", "nodir"}
              => spc \in {"open", "opendir"}
        BY <2>2 DEF ServerStep, ReadEndOfStream, OpenFile, AnswerLine, StatFile,
           SendSize, SendBlank, ReadFile, WriteData, WriteFaults, OpenDirectory, SendEntry,
           EndList, BrokenPipe, serverVars
      <3> QED
        BY <3>1, <3>2 DEF Before, Pending
    <2>3. CASE ClientStep \/ Interrupt
      BY <1>1, <2>3, OneCommand, HeaderEndsTo DEF ClientStep, Interrupt,
         CommandOK, Before, Pending, SendRequest, SendQuit, SendCommand,
         ReadHeader, HeaderEnds, CreateFile, CopyData, CopyEnds, ReadList,
         ListEnds, CloseClient, CloseConnection, serverVars
    <2>4. CASE KillChild \/ (\E n \in 0..MaxLen : ChangeFile(n))
      BY <2>4, OutsideFrame DEF Before, Pending
    <2>5. CASE ReadFails
      BY <2>5, FailureFrame DEF Before, Pending
    <2> QED
      BY <2>1, <2>2, <2>3, <2>4, <2>5 DEF Next
  <1>3. Untouched
    BY <1>1, <1>2 DEF UntouchedOK
  <1>4. CASE ServerStep
    <2>1. CASE ReadCommand
      BY <1>2, <1>3, <1>4, <2>1, CommandRead, ServerFrame DEF Untouched, NothingRead
    <2>2. CASE OpenFile \/ OpenDirectory \/ ReadEndOfStream \/ BrokenPipe
      BY <1>2, <1>3, <2>2 DEF Untouched, NothingRead, OpenFile, OpenDirectory,
         ReadEndOfStream, BrokenPipe, clientVars, transfer
    <2>3. CASE AnswerLine
      BY <1>1, <2>3 DEF AnswerLine, Before, CommandOK, Pending, clientVars
    <2>4. spc \notin {"command", "open", "opendir", "noname", "notfound", "ok", "nodir", "dead"} => ~Before
      BY <1>1 DEF Before, CommandOK
    <2>5. \/ ReadCommand \/ OpenFile \/ OpenDirectory \/ ReadEndOfStream \/ BrokenPipe
          \/ AnswerLine
          \/ spc \in {"stat", "size", "blank", "read", "write", "list"}
      BY <1>4 DEF ServerStep, StatFile, SendSize, SendBlank, ReadFile, WriteData, WriteFaults,
         SendEntry, EndList
    <2> QED
      BY <1>2, <2>1, <2>2, <2>3, <2>4, <2>5
  <1>5. CASE ClientStep \/ Interrupt
      BY <1>1, <1>2, <1>3, <1>5 DEF ClientStep, ClientOK, Interrupt, Untouched,
         NothingRead, SendRequest, SendQuit, ReadHeader, HeaderEnds, CreateFile,
         CopyData, CopyEnds, ReadList, ListEnds, CloseClient, CloseConnection,
         serverVars, transfer
  <1>6. CASE KillChild \/ (\E n \in 0..MaxLen : ChangeFile(n))
    BY <1>1, <1>2, <1>3, <1>6, OutsideFrame DEF Before, CommandOK, Untouched,
       NothingRead
  <1>7. ~ReadFails
    BY <1>1, <1>2 DEF ReadFails, Before, CommandOK
  <1> QED
    BY <1>4, <1>5, <1>6, <1>7 DEF Next

LEMMA ProgKept ==
  ASSUME SessionInv, Next
  PROVE  ProgOK'
  <1>1. CommandOK /\ PortionOK /\ ProgOK /\ TypeOK
    BY DEF SessionInv, TypeInv, ServerOK
  <1>2. CASE ReadCommand
    BY <1>1, <1>2, CommandRead, ServerFrame DEF ServerStep, ProgOK, NothingRead,
       TypeOK, ClientTypes
  <1>3. CASE ServerStep /\ ~ReadCommand
      BY <1>1, <1>3 DEF ServerStep, ProgOK, NothingRead, ReadEndOfStream,
         OpenFile, AnswerLine, StatFile, SendSize, SendBlank, ReadFile, WriteData, WriteFaults,
         OpenDirectory, SendEntry, EndList, BrokenPipe, clientVars, serverVars,
         transfer
  <1>4. CASE ClientStep \/ Interrupt
    BY <1>1, <1>4, ClientFrame DEF ProgOK, NothingRead
  <1>5. CASE KillChild \/ (\E n \in 0..MaxLen : ChangeFile(n))
    BY <1>1, <1>5, OutsideFrame DEF ProgOK, NothingRead
  <1>6. CASE ReadFails
    BY <1>1, <1>6, FailureFrame DEF ProgOK
  <1> QED
    BY <1>2, <1>3, <1>4, <1>5, <1>6 DEF Next

LEMMA Constants ==
  /\ MaxLen \in Nat /\ MaxEntries \in Nat
  /\ Chunk \in Nat /\ Chunk >= 1 /\ Capacity \in Nat /\ Capacity >= 1
  /\ Heap \in Nat /\ Chunk <= Heap /\ Heap < SizeMod - 1
  /\ SizeMod \in Nat /\ SizeMod >= 1
  BY BoundsAssumption, BuffersAssumption

LEMMA HeaderReadType == HeaderRead \in 0..3
  BY DEF HeaderRead

\* The client reads the first line of the answer to a GET.
LEMMA HeaderLineRead ==
  ASSUME SessionInv, ReadHeader
  PROVE  /\ prog = "get" /\ ~ClientGone /\ totalReadBytes = 0
         /\ s2c \in Seq(Items) /\ Len(s2c) \in Nat /\ Len(s2c) >= 1
         /\ s2c' \in Seq(Items) /\ Len(s2c') = Len(s2c) - 1
         /\ Head(s2c) \in Items
         /\ \/ /\ Refused /\ ~Granted
               /\ Head(s2c).kind \in {"ERROR", "NOT_FOUND"}
               /\ s2c' = <<>> /\ cpc' = "quit" /\ size' = size
            \/ /\ Granted /\ HeaderRead < 3 /\ HeaderRead + Len(s2c) = Sent
               /\ Head(s2c).kind = CASE HeaderRead = 0 -> "OK"
                                     [] HeaderRead = 1 -> "size"
                                     [] HeaderRead = 2 -> "blank"
               /\ size' = IF HeaderRead = 1 THEN st_size % SizeMod ELSE size
               /\ cpc' \in IF HeaderRead < 2 THEN {"header"} ELSE {"create", "quit"}
               /\ InOrder(s2c', st_size, Returned, HeaderRead + 1)
  <1>1. /\ prog = "get" /\ ~ClientGone /\ totalReadBytes = 0 /\ cpc = "header"
        /\ Unanswered \/ Refused \/ Granted
    BY DEF SessionInv, ClientOK, GetOK, ReadHeader, ClientGone
  <1>2. /\ s2c # <<>> /\ s2c' = Tail(s2c) /\ s2c \in Seq(Items)
    BY DEF ReadHeader, SessionInv, TypeInv, TypeOK, StreamTypes
  <1>3. /\ Len(s2c) \in Nat /\ Len(s2c) >= 1 /\ s2c' \in Seq(Items)
        /\ Len(s2c') = Len(s2c) - 1 /\ Head(s2c) \in Items
    BY <1>2, Read, LenProperties
  <1>4. CASE Refused
    <2>1. \E item \in {Line("ERROR"), Line("NOT_FOUND")} : s2c = <<item>>
      BY <1>1, <1>4, <1>2 DEF Refused
    <2>2. \E item \in {Line("ERROR"), Line("NOT_FOUND")} : Head(s2c) = item /\ s2c' = <<>>
      BY <2>1, <1>2, OneCommand
    <2>3. Head(s2c).kind \in {"ERROR", "NOT_FOUND"} /\ s2c' = <<>>
      BY <2>2 DEF Line
    <2>4. cpc' = "quit" /\ size' = size
      BY <1>1, <1>4, <2>3 DEF ReadHeader, EndsAnswer, Refused
    <2>5. ~Granted
      <3>1. SUFFICES ASSUME Granted PROVE FALSE
        OBVIOUS
      <3>2. Consumed = 0
        BY <1>1, <1>4 DEF Refused, Consumed, HeaderRead
      <3>3. Head(s2c) = AnswerItem(st_size, Returned, 1)
        BY <1>2, <3>1, <3>2, InOrderTail DEF Granted, GrantedAnswer
      <3> QED
        BY <2>3, <3>3 DEF AnswerItem, Line
    <2> QED
      BY <1>1, <1>2, <1>3, <1>4, <2>3, <2>4, <2>5
  <1>5. CASE Granted
    <2>1. /\ HeaderRead \in 0..2 /\ Consumed = HeaderRead /\ HeaderRead + Len(s2c) = Sent
      BY <1>1, <1>3, <1>5, HeaderReadType DEF Granted, Consumed, Sent
    <2>2. /\ Head(s2c) = AnswerItem(st_size, Returned, HeaderRead + 1)
          /\ InOrder(s2c', st_size, Returned, HeaderRead + 1)
      BY <1>2, <1>5, <2>1, InOrderTail DEF Granted, GrantedAnswer
    <2>3. /\ HeaderRead = 0 => Head(s2c).kind = "OK"
          /\ HeaderRead = 1 => Head(s2c).kind = "size" /\ Head(s2c).n = st_size % SizeMod
          /\ HeaderRead = 2 => Head(s2c).kind = "blank"
      BY <2>1, <2>2 DEF AnswerItem, Line
    <2>4. size' = IF HeaderRead = 1 THEN st_size % SizeMod ELSE size
      BY <2>1, <2>3 DEF ReadHeader
    <2>5. cpc' \in IF HeaderRead < 2 THEN {"header"} ELSE {"create", "quit"}
      <3>1. HeaderRead = 2 => "OK" \in answer
        BY <1>5 DEF Granted, GrantedAnswer, HeaderRead
      <3> QED
        BY <2>1, <2>3, <3>1 DEF ReadHeader, EndsAnswer
    <2> QED
      BY <1>1, <1>2, <1>3, <1>5, <2>1, <2>2, <2>3, <2>4, <2>5
  <1>6. ~Unanswered
    BY <1>2 DEF Unanswered
  <1> QED
    BY <1>1, <1>4, <1>5, <1>6

\* The client reads some of the data.
LEMMA DataRead ==
  ASSUME SessionInv, NEW k \in 1..Chunk, CopyData(k)
  PROVE  /\ prog = "get" /\ ~ClientGone /\ cpc = "copy" /\ Granted /\ HeaderRead = 3
         /\ totalReadBytes \in Nat /\ k \in 1..Len(s2c) /\ k \in Nat /\ k >= 1
         /\ s2c \in Seq(Items) /\ s2c' \in Seq(Items)
         /\ Len(s2c) \in Nat /\ Len(s2c') = Len(s2c) - k
         /\ InOrder(s2c, st_size, Returned, 3 + totalReadBytes)
         /\ InOrder(s2c', st_size, Returned, 3 + totalReadBytes')
         /\ totalReadBytes' = totalReadBytes + k
  <1>1. /\ prog = "get" /\ ~ClientGone /\ cpc = "copy"
        /\ Unanswered \/ Refused \/ Granted
        /\ totalReadBytes \in Nat /\ s2c \in Seq(Items)
    BY DEF SessionInv, ClientOK, GetOK, CopyData, ClientGone, TypeInv, TypeOK,
       StreamTypes, ClientTypes
  <1>2. Len(s2c) \in Nat /\ k \in 1..Len(s2c) /\ k \in Nat /\ k >= 1
    <2>1. k <= Len(s2c)
      BY DEF CopyData
    <2>2. Len(s2c) \in Nat
      BY <1>1, LenProperties
    <2> QED
      BY <2>1, <2>2, Constants
  <1>3. s2c # <<>>
    BY <1>1, <1>2, EmptySeq
  <1>4. Granted /\ HeaderRead = 3
    BY <1>1, <1>3 DEF Unanswered, Refused, Granted
  <1>5. InOrder(s2c, st_size, Returned, 3 + totalReadBytes)
    BY <1>4 DEF Granted, GrantedAnswer, Consumed
  <1>6. s2c' = SubSeq(s2c, k + 1, Len(s2c)) /\ totalReadBytes' = totalReadBytes + k
    BY DEF CopyData
  <1>7. /\ s2c' \in Seq(Items) /\ Len(s2c') = Len(s2c) - k
        /\ InOrder(s2c', st_size, Returned, 3 + totalReadBytes + k)
    BY <1>1, <1>2, <1>5, <1>6, InOrderRest
  <1>8. 3 + totalReadBytes + k = 3 + totalReadBytes'
    BY <1>1, <1>2, <1>6
  <1> QED
    BY <1>1, <1>2, <1>4, <1>5, <1>6, <1>7, <1>8

\* The child reads the next portion, or sees the end of the file.
LEMMA FileRead ==
  ASSUME ServerTypes, ReadFile
  PROVE  /\ spc = "read" /\ writeBytes' = 0
         /\ readBytes' \in 0..Chunk /\ offset' = offset + readBytes'
         /\ offset' \in 0..MaxLen /\ offset <= offset' /\ readBytes' <= offset'
         /\ \/ readBytes' = 0 /\ flen <= offset /\ spc' = "command"
            \/ readBytes' > 0 /\ offset < flen /\ offset' <= flen /\ spc' = "write"
         /\ flen' = flen /\ st_size' = st_size /\ entries' = entries
         /\ c2s' = c2s /\ s2c' = s2c /\ events' = events /\ stray' = stray
  <1>1. /\ offset \in 0..MaxLen /\ flen \in 0..MaxLen
        /\ MaxLen \in Nat /\ Chunk \in Nat /\ Chunk >= 1
    BY Constants DEF ServerTypes
  <1>2. readBytes' = IF offset < flen THEN Smaller(Chunk, flen - offset) ELSE 0
    BY DEF ReadFile
  <1>3. \/ readBytes' = 0 /\ flen <= offset
        \/ readBytes' > 0 /\ offset < flen /\ readBytes' <= flen - offset /\ readBytes' <= Chunk
    BY <1>1, <1>2 DEF Smaller
  <1>4. readBytes' \in 0..Chunk
    BY <1>1, <1>2 DEF Smaller
  <1>5. /\ spc = "read" /\ writeBytes' = 0 /\ offset' = offset + readBytes'
        /\ spc' = IF readBytes' > 0 THEN "write" ELSE "command"
        /\ flen' = flen /\ st_size' = st_size /\ entries' = entries
        /\ c2s' = c2s /\ s2c' = s2c /\ events' = events /\ stray' = stray
    BY DEF ReadFile
  <1>6. /\ offset' \in 0..MaxLen /\ offset <= offset' /\ readBytes' <= offset'
        /\ \/ readBytes' = 0 /\ flen <= offset /\ spc' = "command"
           \/ readBytes' > 0 /\ offset < flen /\ offset' <= flen /\ spc' = "write"
    <2> DEFINE r == readBytes'
    <2>1. r \in Int /\ r >= 0 /\ offset' = offset + r /\ spc' = IF r > 0 THEN "write" ELSE "command"
      BY <1>1, <1>4, <1>5
    <2>2. (r = 0 /\ flen <= offset) \/ (r > 0 /\ offset < flen /\ r <= flen - offset)
      BY <1>3
    <2> HIDE DEF r
    <2>3. /\ offset' \in 0..MaxLen /\ offset <= offset' /\ r <= offset'
          /\ \/ r = 0 /\ flen <= offset /\ spc' = "command"
             \/ r > 0 /\ offset < flen /\ offset' <= flen /\ spc' = "write"
      BY <1>1, <2>1, <2>2
    <2> QED
      BY <2>3 DEF r
  <1> QED
    BY <1>4, <1>5, <1>6

\* What is written is counted once, and none of the file beyond what read()
\* has returned.
LEMMA WrittenType ==
  ASSUME TypeInv
  PROVE  /\ Written \in Nat /\ Returned \in Nat /\ offset \in Nat /\ offset <= MaxLen
         /\ readBytes \in Nat /\ writeBytes \in Nat /\ stray \in Nat
         /\ writeBytes <= readBytes /\ writeBytes <= Heap
         /\ ~ReadFailed => /\ Written = offset - readBytes + writeBytes /\ Written <= offset
                           /\ readBytes <= offset /\ Returned = MaxLen /\ stray = 0
         /\ ReadFailed => /\ Written = offset + stray /\ Returned = offset
                          /\ readBytes = SizeMod - 1 /\ spc \in {"write", "dead"}
         /\ NothingRead => Written = 0 /\ ~ReadFailed
  <1>1. /\ offset \in Nat /\ offset <= MaxLen /\ readBytes \in Nat /\ writeBytes \in Nat
        /\ stray \in Nat /\ writeBytes <= readBytes /\ writeBytes <= Heap
    BY Constants DEF TypeInv, TypeOK, ServerTypes, Smaller
  <1>2. CASE ReadFailed
    <2>1. readBytes = SizeMod - 1 /\ spc \in {"write", "dead"}
      BY <1>2 DEF TypeInv, ServerOK, PortionOK
    <2> QED
      BY <1>1, <1>2, <2>1, Constants DEF Written, Returned, NothingRead
  <1>3. CASE ~ReadFailed
    <2>1. readBytes <= offset /\ stray = 0
      BY <1>3 DEF TypeInv, ServerOK, PortionOK
    <2> QED
      BY <1>1, <1>3, <2>1, Constants DEF Written, Returned, NothingRead
  <1> QED
    BY <1>2, <1>3

LEMMA PortionKept ==
  ASSUME SessionInv, Next
  PROVE  PortionOK'
  <1>1. /\ CommandOK /\ UntouchedOK /\ PortionOK /\ ServerTypes
        /\ spc \in {"open", "noname", "notfound", "ok", "stat", "read"} => ~ReadFailed
    BY DEF PortionOK, SessionInv, TypeInv, TypeOK, ServerOK
  <1>2. CASE ReadCommand
    BY <1>1, <1>2, CommandRead, ServerFrame DEF PortionOK, ServerStep
  <1>3. CASE AnswerLine
    BY <1>1, <1>3 DEF ReadFailed, AnswerLine, PortionOK, UntouchedOK, Before, Untouched,
       NothingRead, transfer, clientVars
  <1>4. CASE ReadFile
    <2>1. ~ReadFailed' /\ stray' = 0 /\ stray = 0
      BY <1>1, <1>4, FileRead, ServerFrame DEF ServerStep, PortionOK
    <2>2. readBytes' \in Nat /\ offset \in Nat /\ offset' = offset + readBytes'
      BY <1>1, <1>4, FileRead, Constants DEF ServerTypes
    <2>3. /\ writeBytes' = 0 /\ readBytes' <= offset'
          /\ spc' \in {"write", "command"}
          /\ spc' = "write" => readBytes' > 0
      BY <1>1, <1>4, FileRead
    <2>4. spc' = "write" => writeBytes' < readBytes'
      BY <2>2, <2>3
    <2> QED
      BY <2>1, <2>3, <2>4 DEF PortionOK
  <1>11. CASE OpenFile
    BY <1>1, <1>11 DEF ReadFailed, OpenFile, PortionOK, NothingRead, UntouchedOK, Before,
       Untouched
  <1>5. CASE (\E k \in 1..Heap : WriteData(k)) \/ WriteFaults
    <2>1. /\ spc = "write" /\ UNCHANGED <<offset, readBytes>>
          /\ spc' = (IF writeBytes' < readBytes THEN "write" ELSE "read")
               \/ (WriteFaults /\ spc' = spc)
          /\ ~ReadFailed => stray' = stray
          /\ (ReadFailed' <=> ReadFailed)
      BY <1>5, ServerFrame DEF WriteData, WriteFaults, ServerStep
    <2>2. /\ writeBytes' <= readBytes /\ writeBytes' \in Nat
          /\ ReadFailed \/ WriteFaults => writeBytes' < readBytes
      BY <1>1, <1>5, Constants DEF WriteData, WriteFaults, PortionOK, ServerTypes, Smaller
    <2>3. spc' = "read" => writeBytes' = readBytes' /\ ~ReadFailed
      BY <2>1, <2>2, WrittenType, Constants DEF SessionInv
    <2>4. spc' = "write" => writeBytes' < readBytes'
      BY <2>1, <2>2
    <2> QED
      BY <1>1, <2>1, <2>3, <2>4 DEF PortionOK
  <1>6. CASE \/ ReadEndOfStream \/ StatFile \/ SendSize \/ SendBlank \/ OpenDirectory
             \/ SendEntry \/ EndList \/ BrokenPipe
    BY <1>1, <1>6, ServerFrame DEF ServerStep, PortionOK, NothingRead, ReadEndOfStream, StatFile, SendSize,
       SendBlank, OpenDirectory, SendEntry, EndList, BrokenPipe, transfer, clientVars
  <1>7. CASE ReadHeader
    <2>1. spc \in {"stat", "size"} => Head(s2c).kind # "size"
      BY <1>7, HeaderLineRead, HeaderReadType DEF Granted, Refused
    <2> QED
      BY <1>1, <1>7, <2>1, ClientFrame DEF PortionOK, NothingRead, ReadHeader,
         ClientStep
  <1>8. CASE ReadList
    BY <1>1, <1>8, ClientFrame DEF PortionOK, ReadList, ClientStep, NothingRead,
       SessionInv, TypeInv, ServerOK, ProgOK, ClientOK
  <1>9. CASE (ClientStep /\ ~ReadHeader /\ ~ReadList) \/ Interrupt
    <2>1. answer' = answer
      BY <1>9 DEF ClientStep, SendRequest, HeaderEnds, CreateFile, CopyData,
         CopyEnds, SendQuit, ListEnds, CloseClient, Interrupt, CloseConnection
    <2> QED
      BY <1>1, <1>9, <2>1, ClientFrame DEF PortionOK, NothingRead
  <1>10. CASE KillChild \/ (\E n \in 0..MaxLen : ChangeFile(n))
    BY <1>1, <1>10, OutsideFrame DEF PortionOK, NothingRead
  <1>12. CASE ReadFails
    BY <1>1, <1>12, FailureFrame, Constants DEF PortionOK
  <1> QED
    BY <1>2, <1>3, <1>4, <1>5, <1>6, <1>7, <1>8, <1>9, <1>10, <1>11, <1>12
    DEF Next, ServerStep

LEMMA ServerTypesKept ==
  ASSUME SessionInv, Next
  PROVE  ServerTypes'
  <1>1. CommandOK /\ PortionOK /\ ServerTypes /\ Constants
    BY Constants DEF SessionInv, TypeInv, TypeOK, ServerOK
  <1>2. CASE ReadCommand
    BY <1>1, <1>2, CommandRead, ServerFrame DEF ServerStep, ServerTypes, SStates,
       Serving, Sending
  <1>3. CASE ReadFile
    <2>1. 0 \in 0..Smaller(readBytes', Heap)
      BY <1>1, <1>3, FileRead, Constants DEF Smaller
    <2> QED
      BY <1>1, <1>3, <2>1, FileRead DEF ServerTypes, SStates, Serving, Sending
  <1>8. CASE OpenFile
    BY <1>1, <1>8, Constants, ServerFrame DEF ServerStep, OpenFile, ServerTypes, SStates, Serving, Sending
  <1>4. CASE (\E k \in 1..Heap : WriteData(k)) \/ WriteFaults
    <2>1. /\ spc' \in {"write", "read"} /\ UNCHANGED <<flen, st_size, offset, readBytes, entries>>
          /\ (ReadFailed' <=> ReadFailed)
      BY <1>4, ServerFrame DEF WriteData, WriteFaults, ServerStep
    <2>2. /\ writeBytes' \in 0..Smaller(readBytes, Heap)
          /\ stray' \in Nat
      <3>1. CASE WriteFaults
        BY <1>1, <3>1, WrittenType, Constants DEF SessionInv, WriteFaults,
           ServerTypes, Smaller
      <3>2. ASSUME NEW k \in 1..Heap, WriteData(k)
            PROVE  writeBytes' \in 0..Smaller(readBytes, Heap) /\ stray' \in Nat
        <4>1. k \in Nat /\ k <= Smaller(readBytes, Heap) - writeBytes
              /\ writeBytes' = writeBytes + k
              /\ (stray' = stray \/ stray' = stray + k)
          BY <3>2, Constants DEF WriteData
        <4> QED
          BY <4>1, WrittenType, Constants DEF SessionInv, Smaller
      <3> QED
        BY <1>4, <3>1, <3>2
    <2>3. spc' \in SStates
      BY <2>1 DEF SStates, Serving, Sending
    <2>4. writeBytes' \in 0..Smaller(readBytes', Heap)
      BY <2>1, <2>2
    <2>5. readBytes' \in 0..Chunk \/ (ReadFailed' /\ readBytes' = SizeMod - 1)
      BY <1>1, <2>1 DEF ServerTypes
    <2> QED
      BY <1>1, <2>1, <2>2, <2>3, <2>4, <2>5 DEF ServerTypes
  <1>5. CASE \/ ReadEndOfStream \/ AnswerLine \/ StatFile \/ SendSize \/ SendBlank
             \/ OpenDirectory \/ SendEntry \/ EndList \/ BrokenPipe
    BY <1>1, <1>5, ServerFrame DEF ServerStep, ServerTypes, ReadEndOfStream, AnswerLine, StatFile, SendSize,
       SendBlank, OpenDirectory, SendEntry, EndList, BrokenPipe, transfer,
       SStates, Serving, Sending
  <1>6. CASE ClientStep \/ Interrupt
    BY <1>1, <1>6, ClientFrame DEF ServerTypes
  <1>7. CASE KillChild \/ (\E n \in 0..MaxLen : ChangeFile(n))
    BY <1>1, <1>7, OutsideFrame DEF ServerTypes, SStates
  <1>9. CASE ReadFails
    BY <1>1, <1>9, FailureFrame, Constants DEF ServerTypes, SStates, Serving,
       Sending, Smaller
  <1> QED
    BY <1>2, <1>3, <1>4, <1>5, <1>6, <1>7, <1>8, <1>9 DEF Next, ServerStep

LEMMA KilledKept ==
  ASSUME SessionInv, Next
  PROVE  KilledOK'
  <1>1. KilledOK /\ CommandOK
    BY DEF SessionInv, TypeInv
  <1>2. CASE ServerStep
    <2>1. events' = events /\ cpc' = cpc /\ spc # "dead"
      BY <1>2, ServerFrame DEF Serving, Sending
    <2>2. spc' = "dead" => ClientGone
      BY <1>2, CommandRead DEF ServerStep, ReadEndOfStream, OpenFile, AnswerLine,
         StatFile, SendSize, SendBlank, ReadFile, WriteData, WriteFaults, OpenDirectory,
         SendEntry, EndList, BrokenPipe
    <2> QED
      BY <1>1, <2>1, <2>2 DEF KilledOK, ClientGone
  <1>3. CASE ClientStep
    <2>1. /\ "killed" \in events' <=> "killed" \in events
          /\ spc' = spc /\ ~ClientGone
      BY <1>3, ClientFrame DEF ClientStep, SendRequest, ReadHeader, HeaderEnds,
         CreateFile,
         CopyData, CopyEnds, SendQuit, ReadList, ListEnds, CloseClient
    <2> QED
      BY <1>1, <2>1 DEF KilledOK
  <1>4. CASE Interrupt
    BY <1>1, <1>4, ClientFrame DEF KilledOK, Interrupt
  <1>5. CASE KillChild \/ (\E n \in 0..MaxLen : ChangeFile(n))
    BY <1>1, <1>5, OutsideFrame DEF KilledOK, ClientGone, Serving, Sending
  <1>6. CASE ReadFails
    BY <1>1, <1>6, FailureFrame DEF KilledOK
  <1> QED
    BY <1>2, <1>3, <1>4, <1>5, <1>6 DEF Next

LEMMA FileKept ==
  ASSUME SessionInv, Next
  PROVE  FileOK'
  <1>1. /\ CommandOK /\ UntouchedOK /\ PortionOK /\ ServerTypes /\ FileOK
        /\ MaxLen \in Nat /\ Chunk \in Nat
    BY Constants DEF SessionInv, TypeInv, TypeOK, ServerOK
  <1>2. CASE ReadCommand
    BY <1>1, <1>2, CommandRead, ServerFrame DEF ServerStep, FileOK
  <1>3. CASE OpenFile
    BY <1>1, <1>3 DEF OpenFile, FileOK, ServerTypes
  <1>9. CASE AnswerLine \/ StatFile
    BY <1>1, <1>9 DEF AnswerLine, StatFile, FileOK, PortionOK, NothingRead,
       ServerTypes, transfer
  <1>4. CASE ReadFile
    BY <1>1, <1>4, FileRead DEF FileOK, ServerTypes
  <1>5. CASE (\E k \in 1..Heap : WriteData(k)) \/ WriteFaults
    BY <1>1, <1>5 DEF WriteData, WriteFaults, FileOK
  <1>6. CASE \/ ReadEndOfStream \/ SendSize \/ SendBlank
             \/ OpenDirectory \/ SendEntry \/ EndList \/ BrokenPipe
    BY <1>1, <1>6 DEF FileOK, ReadEndOfStream, SendSize,
       SendBlank, OpenDirectory, SendEntry, EndList, BrokenPipe, transfer
  <1>7. CASE ClientStep \/ Interrupt
    <2>1. /\ "grew" \in events' <=> "grew" \in events
          /\ "shrank" \in events' <=> "shrank" \in events
      BY <1>7 DEF ClientStep, SendRequest, ReadHeader, HeaderEnds, CreateFile,
         CopyData, CopyEnds, SendQuit, ReadList, ListEnds, CloseClient, Interrupt
    <2> QED
      BY <1>1, <1>7, <2>1, ClientFrame DEF FileOK
  <1>8. CASE KillChild \/ (\E n \in 0..MaxLen : ChangeFile(n))
    BY <1>1, <1>8, OutsideFrame DEF FileOK, ServerTypes
  <1>10. CASE ReadFails
    BY <1>1, <1>10, FailureFrame DEF FileOK
  <1> QED
    BY <1>2, <1>3, <1>4, <1>5, <1>6, <1>7, <1>8, <1>9, <1>10 DEF Next, ServerStep

\* The child sends a line.
LEMMA LineSent ==
  ASSUME StreamTypes, NEW x \in Items, SendLine(x)
  PROVE  /\ s2c' \in Seq(Items) /\ Len(s2c') <= Capacity
         /\ ClientGone => s2c' = s2c
         /\ ~ClientGone => s2c' = Append(s2c, x) /\ Len(s2c') = Len(s2c) + 1
  <1>1. s2c \in Seq(Items) /\ Len(s2c) \in Nat /\ Len(s2c) <= Capacity /\ Capacity \in Nat
    BY LenProperties, Constants DEF StreamTypes
  <1>2. CASE ClientGone
    BY <1>1, <1>2 DEF SendLine
  <1>3. CASE ~ClientGone
    <2>1. s2c' = Append(s2c, x) /\ Len(s2c) < Capacity
      BY <1>3 DEF SendLine
    <2>2. Append(s2c, x) \in Seq(Items) /\ Len(Append(s2c, x)) = Len(s2c) + 1
      BY <1>1, Appended
    <2> QED
      BY <1>1, <1>3, <2>1, <2>2
  <1> QED
    BY <1>2, <1>3

\* The child sends some of the portion.
LEMMA DataSent ==
  ASSUME TypeInv, NEW k \in 1..Heap, WriteData(k)
  PROVE  /\ s2c' \in Seq(Items) /\ Len(s2c') <= Capacity
         /\ k \in Nat /\ k >= 1 /\ writeBytes' = writeBytes + k /\ writeBytes' <= readBytes
         /\ spc = "write" /\ spc' = IF writeBytes' < readBytes THEN "write" ELSE "read"
         /\ ClientGone => s2c' = s2c
         /\ ~ClientGone => /\ s2c' = s2c \o Portion(k) /\ Len(s2c') = Len(s2c) + k
                           /\ Portion(k) \in Seq(Items) /\ Len(Portion(k)) = k
                           /\ InOrder(Portion(k), st_size, Returned, 3 + Written)
                           /\ Written' = Written + k
         /\ Returned' = Returned
         /\ UNCHANGED <<flen, st_size, offset, readBytes, entries, c2s>>
  <1>1. /\ s2c \in Seq(Items) /\ Len(s2c) \in Nat /\ Len(s2c) <= Capacity /\ Capacity \in Nat
    BY LenProperties, Constants DEF TypeInv, TypeOK, StreamTypes
  <1>2. k \in Nat /\ k >= 1
    BY Constants
  <1>3. /\ spc = "write" /\ k <= Smaller(readBytes, Heap) - writeBytes /\ writeBytes' = writeBytes + k
        /\ spc' = IF writeBytes' < readBytes THEN "write" ELSE "read"
        /\ UNCHANGED <<flen, st_size, offset, readBytes, entries, c2s>>
        /\ (ReadFailed' <=> ReadFailed)
    BY ServerFrame DEF WriteData, ServerStep
  <1>4. writeBytes' <= readBytes /\ k <= readBytes - writeBytes
    BY <1>2, <1>3, WrittenType, Constants DEF Smaller
  <1>7. Returned' = Returned
    BY <1>3 DEF Returned
  <1>5. CASE ClientGone
    BY <1>1, <1>2, <1>3, <1>4, <1>5, <1>7 DEF WriteData
  <1>6. CASE ~ClientGone
    <2>1. s2c' = s2c \o Portion(k) /\ Len(s2c) + k <= Capacity
          /\ stray' = IF ReadFailed THEN stray + k ELSE stray
      BY <1>6 DEF WriteData
    <2>2. /\ Portion(k) \in Seq(Items) /\ Len(Portion(k)) = k
          /\ InOrder(Portion(k), st_size, Returned, 3 + Written)
      <3>1. CASE ReadFailed
        <4>1. Portion(k) = [i \in 1..k |-> Foreign]
          BY <3>1 DEF Portion
        <4>2. Returned <= Written
          BY <3>1, WrittenType
        <4> QED
          BY <1>2, <4>1, <4>2, HeapInOrder, WrittenType
      <3>2. CASE ~ReadFailed
        <4>1. Portion(k) = [i \in 1..k |-> Data(Written + i)]
          BY <3>2 DEF Portion, Written
        <4>2. Written + k <= Returned
          BY <1>2, <1>4, <3>2, WrittenType, Constants
        <4> QED
          BY <1>2, <4>1, <4>2, PortionInOrder, WrittenType
      <3> QED
        BY <3>1, <3>2
    <2>3. Written' = Written + k
      BY <1>2, <1>3, <2>1, WrittenType DEF Written
    <2>5. s2c' \in Seq(Items) /\ Len(s2c') = Len(s2c) + k
      BY <1>1, <2>1, <2>2, ConcatProperties
    <2> QED
      BY <1>1, <1>2, <1>3, <1>4, <1>6, <1>7, <2>1, <2>2, <2>3, <2>5
  <1> QED
    BY <1>5, <1>6

LEMMA StreamTypesKept ==
  ASSUME SessionInv, Next
  PROVE  StreamTypes'
  <1>1. TypeInv /\ StreamTypes /\ s2c \in Seq(Items) /\ Len(s2c) <= Capacity
        /\ Len(s2c) \in Nat /\ Capacity \in Nat /\ st_size % SizeMod \in Nat
    BY Constants, LenProperties DEF SessionInv, TypeInv, TypeOK, StreamTypes,
       ServerTypes
  <1>2. c2s' \in Seq(Commands)
    <2>1. <<>> \in Seq(Commands) /\ \A cmd \in Commands : <<cmd>> \in Seq(Commands)
      OBVIOUS
    <2>2. c2s' = <<>> \/ \E cmd \in Commands : c2s' = <<cmd>>
      BY CommandKept DEF CommandOK, Pending, Commands
    <2> QED
      BY <2>1, <2>2
  <1> SUFFICES s2c' \in Seq(Items) /\ Len(s2c') <= Capacity
    BY <1>2 DEF StreamTypes
  <1>3. CASE \/ ReadCommand \/ ReadEndOfStream \/ OpenFile \/ StatFile \/ ReadFile
             \/ WriteFaults \/ OpenDirectory \/ BrokenPipe \/ KillChild \/ ReadFails
             \/ (\E n \in 0..MaxLen : ChangeFile(n))
    BY <1>1, <1>3, OutsideFrame, FailureFrame DEF ReadCommand, ReadEndOfStream,
       OpenFile, StatFile, ReadFile, WriteFaults, OpenDirectory, BrokenPipe
  <1>4. CASE AnswerLine \/ SendSize \/ SendBlank \/ SendEntry \/ EndList
    <2>1. \E x \in Items : SendLine(x) \/ s2c' = s2c
      BY <1>1, <1>4, ItemTypes DEF AnswerLine, SendSize, SendBlank, SendEntry,
         EndList, Kinds
    <2> QED
      BY <1>1, <2>1, LineSent
  <1>5. CASE \E k \in 1..Heap : WriteData(k)
    BY <1>1, <1>5, DataSent
  <1>6. CASE ReadHeader \/ ReadList
    <2>1. s2c # <<>> /\ s2c' = Tail(s2c)
      BY <1>6 DEF ReadHeader, ReadList
    <2>2. Tail(s2c) \in Seq(Items) /\ Len(Tail(s2c)) = Len(s2c) - 1
      BY <1>1, <2>1, Read
    <2> QED
      BY <1>1, <2>1, <2>2
  <1>7. CASE \E k \in 1..Chunk : CopyData(k)
    BY <1>1, <1>7, DataRead
  <1>8. CASE SendRequest \/ HeaderEnds \/ CreateFile \/ CopyEnds \/ SendQuit \/ ListEnds
    BY <1>1, <1>8 DEF SendRequest, HeaderEnds, CreateFile, CopyEnds, SendQuit,
       ListEnds
  <1>9. CASE CloseClient \/ Interrupt
    <2>1. s2c' = <<>>
      BY <1>9 DEF CloseClient, Interrupt, CloseConnection
    <2> QED
      BY <1>1, <2>1, Constants, EmptySeq
  <1> QED
    BY <1>3, <1>4, <1>5, <1>6, <1>7, <1>8, <1>9 DEF Next, ServerStep, ClientStep

\* A line of a listing is read.
LEMMA ListLineRead ==
  ASSUME SessionInv, ReadList
  PROVE  /\ prog = "list" /\ ~ClientGone /\ cpc = "listing"
         /\ s2c \in Seq(Items) /\ s2c # <<>> /\ s2c' = Tail(s2c)
         /\ Head(s2c).kind \in {"entry", "blank", "ERROR"} /\ ListLines(s2c')
  <1>1. prog = "list" /\ ~ClientGone /\ cpc = "listing" /\ ListLines(s2c)
    BY DEF SessionInv, ClientOK, ListOK, ReadList, ClientGone
  <1>2. s2c \in Seq(Items) /\ s2c # <<>> /\ s2c' = Tail(s2c)
    BY DEF SessionInv, TypeInv, TypeOK, StreamTypes, ReadList
  <1> QED
    BY <1>1, <1>2, ListTail

LEMMA ClientTypesKept ==
  ASSUME SessionInv, Next
  PROVE  ClientTypes'
  <1>1. /\ ClientTypes /\ ServerTypes /\ ClientOK /\ s2c \in Seq(Items)
        /\ st_size % SizeMod \in Nat
    BY Constants DEF SessionInv, TypeInv, TypeOK, StreamTypes, ServerTypes
  <1>2. CASE ServerStep
    BY <1>1, <1>2, ServerFrame DEF ClientTypes
  <1>3. CASE ReadHeader
    <2>1. Head(s2c).kind \in Kinds
      BY <1>3, HeaderLineRead DEF Items
    <2>2. size' \in Nat
      BY <1>1, <1>3, HeaderLineRead DEF ClientTypes
    <2>3. cpc' \in {"header", "create", "quit"}
      BY <1>3, HeaderLineRead
    <2> QED
      BY <1>1, <1>3, <2>1, <2>2, <2>3 DEF ClientTypes, ReadHeader, CStates
  <1>4. CASE ReadList
    BY <1>1, <1>4, ListLineRead DEF ClientTypes, ReadList, CStates, Kinds
  <1>5. CASE HeaderEnds
    BY <1>1, <1>5, HeaderEndsTo DEF ClientTypes, HeaderEnds, CStates
  <1>6. ASSUME NEW k \in 1..Chunk, CopyData(k)
        PROVE  ClientTypes'
    <2>1. k \in Nat /\ k \in 1..Len(s2c) /\ totalReadBytes' \in Nat
      BY <1>6, DataRead
    <2>2. local' = local \/ local' = local \o [i \in 1..k |-> s2c[i].n]
      BY <1>6 DEF CopyData
    <2>3. [i \in 1..k |-> s2c[i].n] \in [1..k -> Nat]
      <3>1. \A i \in 1..k : i \in 1..Len(s2c)
        BY <2>1, <1>1, LenProperties
      <3>2. \A i \in 1..k : s2c[i] \in Items
        BY <3>1, <1>1, ElementOfSeq
      <3> QED
        BY <3>2 DEF Items
    <2>4. [i \in 1..k |-> s2c[i].n] \in Seq(Nat)
      BY <2>1, <2>3, SeqOfLength, Zenon
    <2>5. local' \in Seq(Nat)
      BY <1>1, <2>2, <2>4, ConcatProperties DEF ClientTypes
    <2> QED
      BY <1>1, <1>6, <2>1, <2>5 DEF ClientTypes, CopyData, Events
  <1>7. CASE SendRequest \/ CreateFile \/ CopyEnds \/ SendQuit \/ ListEnds
    BY <1>1, <1>7 DEF ClientTypes, SendRequest, CreateFile, CopyEnds, SendQuit,
       ListEnds, CStates, Events
  <1>8. CASE CloseClient \/ Interrupt
    BY <1>1, <1>8 DEF ClientTypes, CloseClient, Interrupt, CloseConnection,
       CStates, Events
  <1>9. CASE KillChild \/ (\E n \in 0..MaxLen : ChangeFile(n))
    BY <1>1, <1>9, OutsideFrame DEF ClientTypes, Events
  <1>10. CASE ReadFails
    BY <1>1, <1>10, FailureFrame DEF ClientTypes, Events
  <1> QED
    BY <1>2, <1>3, <1>4, <1>5, <1>6, <1>7, <1>8, <1>9, <1>10 DEF Next, ClientStep

\* While it copies, what the client has read and what is under way to it are
\* what the child has written.
LEMMA CopyCount ==
  ASSUME SessionInv, cpc = "copy"
  PROVE  /\ Granted /\ ~ClientGone /\ totalReadBytes + Len(s2c) = Written
         /\ totalReadBytes \in Nat /\ Len(s2c) \in Nat /\ Written \in Nat
         /\ (~ReadFailed => Written <= offset)
         /\ spc \in {"read", "write", "command", "dead"}
  <1>1. /\ prog = "get" /\ ~ClientGone /\ (Unanswered \/ Refused \/ Granted)
        /\ "size" \in answer /\ totalReadBytes \in Nat /\ s2c \in Seq(Items)
    BY DEF SessionInv, ClientOK, GetOK, ClientGone, TypeInv, TypeOK, StreamTypes,
       ClientTypes
  <1>2. Granted
    BY <1>1 DEF Unanswered, Refused
  <1>3. Written \in Nat /\ (~ReadFailed => Written <= offset) /\ (NothingRead => Written = 0)
    BY WrittenType DEF SessionInv
  <1>4. Len(s2c) \in Nat /\ (s2c = <<>> => Len(s2c) = 0)
    BY <1>1, LenProperties, EmptySeq
  <1>5. spc # "done"
    BY DEF SessionInv, TypeInv, CommandOK
  <1>6. CASE HeaderRead = 3
    <2>1. Sent = 3 + totalReadBytes + Len(s2c)
      BY <1>6 DEF Sent, Consumed
    <2>2. Sent = 3 + Written /\ spc \in {"read", "write", "command", "dead"}
      BY <1>1, <1>2, <1>4, <1>5, <2>1 DEF Granted
    <2> QED
      BY <1>1, <1>2, <1>3, <1>4, <2>1, <2>2
  <1>7. CASE HeaderRead = 2 /\ spc = "dead" /\ s2c = <<>>
    <2>1. totalReadBytes = 0
      BY <1>2, <1>7 DEF Granted
    <2>2. Sent = 2
      BY <1>4, <1>7, <2>1 DEF Sent, Consumed
    <2>3. Written = 0
      BY <1>2, <1>3, <2>2 DEF Granted
    <2> QED
      BY <1>1, <1>2, <1>3, <1>4, <1>7, <2>1, <2>3
  <1> QED
    BY <1>2, <1>6, <1>7 DEF Granted

\* Only a client that copies makes its copy a broken one.
LEMMA BrokenKept ==
  ASSUME SessionInv, Next,
         UNCHANGED <<local, totalReadBytes>>,
         "disk_full" \in events' <=> "disk_full" \in events
  PROVE  /\ ~CopyBroken' => ~CopyBroken
         /\ ~ReadFailed' => totalReadBytes' <= offset'
         /\ ~ReadFails \/ totalReadBytes <= offset => (CopyBroken' <=> CopyBroken)
  <1>1. /\ ClientOK /\ UntouchedOK /\ PortionOK /\ TypeInv
        /\ totalReadBytes \in Nat /\ offset \in Nat
    BY WrittenType DEF SessionInv, TypeInv, ServerOK, TypeOK, ClientTypes
  <1>2. CASE ReadFails
    BY <1>1, <1>2, FailureFrame DEF CopyBroken, ClientOK
  <1>3. CASE ~ReadFails
    <2>1. ReadFailed' <=> ReadFailed
      BY <1>3, ServerFrame, ClientFrame, OutsideFrame DEF Next
    <2>2. offset' = offset \/ OpenFile \/ ReadFile
      BY <1>3, CommandRead, ClientFrame, OutsideFrame DEF Next, ServerStep,
         ReadEndOfStream, AnswerLine, StatFile, SendSize, SendBlank, WriteData,
         WriteFaults, OpenDirectory, SendEntry, EndList, BrokenPipe, transfer
    <2>3. CASE offset' = offset
      BY <1>1, <1>3, <2>1, <2>3 DEF CopyBroken, ClientOK
    <2>4. CASE OpenFile
      <3>1. ~ReadFailed /\ totalReadBytes = 0 /\ offset' = 0
        BY <1>1, <2>4 DEF OpenFile, PortionOK, UntouchedOK, Before, Untouched
      <3> QED
        BY <1>1, <1>3, <2>1, <3>1 DEF CopyBroken, ClientOK
    <2>5. CASE ReadFile
      <3>1. ~ReadFailed /\ offset' \in Nat /\ offset' >= offset
        <4>1. /\ spc = "read" /\ offset' \in Nat /\ offset <= offset'
          BY <1>1, <2>5, FileRead, Constants DEF TypeInv, TypeOK
        <4> QED
          BY <1>1, <4>1 DEF PortionOK
      <3> QED
        BY <1>1, <1>3, <2>1, <3>1 DEF CopyBroken, ClientOK
    <2> QED
      BY <2>2, <2>3, <2>4, <2>5
  <1> QED
    BY <1>2, <1>3

LEMMA ClientKept ==
  ASSUME SessionInv, Next
  PROVE  ClientOK'
  <1>1. ClientOK /\ ClientTypes /\ PortionOK
    BY DEF SessionInv, TypeInv, TypeOK, ServerOK
  <1>2. CASE ServerStep
    <2>1. ClientGone => s2c' = s2c
      BY <1>2 DEF ServerStep, ReadCommand, ReadEndOfStream, OpenFile, AnswerLine,
         StatFile,
        SendSize, SendBlank, ReadFile, WriteData, WriteFaults, OpenDirectory, SendEntry, EndList,
        BrokenPipe, SendLine
    <2>2. st_size' = st_size \/ spc = "stat"
      BY <1>2, CommandRead DEF ServerStep, ReadEndOfStream, OpenFile, AnswerLine,
         StatFile,
        SendSize, SendBlank, ReadFile, WriteData, WriteFaults, OpenDirectory, SendEntry, EndList,
        BrokenPipe, transfer
    <2> QED
      BY <1>1, <1>2, <2>1, <2>2, ServerFrame, BrokenKept DEF ClientOK, PortionOK,
         ClientGone
  <1>3. CASE ReadHeader
    <2>1. /\ prog = "get" /\ totalReadBytes = 0 /\ totalReadBytes' = 0
          /\ cpc = "header" /\ cpc' \in {"header", "create", "quit"}
          /\ events' = events /\ local' = local /\ prog' = prog /\ st_size' = st_size
      BY <1>3, HeaderLineRead, ClientFrame DEF ReadHeader, ClientStep
    <2>2. answer' = answer \union {Head(s2c).kind}
      BY <1>3 DEF ReadHeader
    <2>3. \/ Head(s2c).kind = "size" /\ size' = st_size % SizeMod
          \/ Head(s2c).kind # "size" /\ size' = size
      BY <1>3, HeaderLineRead, HeaderReadType
    <2>4. cpc' = "create" => "size" \in answer
      BY <1>3, HeaderLineRead, HeaderReadType DEF HeaderRead, Granted, GrantedAnswer
    <2> QED
      BY <1>1, <2>1, <2>2, <2>3, <2>4, BrokenKept DEF ClientOK, ClientGone
  <1>4. CASE ReadList
    BY <1>1, <1>4, ListLineRead, ClientFrame, BrokenKept DEF ClientOK, ReadList, ClientStep,
       ClientGone
  <1>5. CASE HeaderEnds
    BY <1>1, <1>5, HeaderEndsTo, ClientFrame, BrokenKept DEF ClientStep, ClientOK, HeaderEnds,
       ClientGone
  <1>6. ASSUME NEW k \in 1..Chunk, CopyData(k)
        PROVE  ClientOK'
    <2>1. /\ prog = "get" /\ cpc = "copy" /\ totalReadBytes \in Nat
          /\ totalReadBytes' = totalReadBytes + k /\ k \in Nat /\ k \in 1..Len(s2c)
          /\ s2c \in Seq(Items) /\ InOrder(s2c, st_size, Returned, 3 + totalReadBytes)
          /\ (ReadFailed' <=> ReadFailed) /\ offset' = offset
      BY <1>6, DataRead, ClientFrame DEF ClientStep
    <2>2. ~ReadFailed => totalReadBytes + k <= offset /\ offset <= Returned
      BY <2>1, CopyCount, WrittenType DEF SessionInv
    <2>3. "disk_full" \notin events' =>
            Len(local') = totalReadBytes' /\ "disk_full" \notin events
      <3>1. SUFFICES ASSUME "disk_full" \notin events'
                     PROVE  Len(local') = totalReadBytes' /\ "disk_full" \notin events
        OBVIOUS
      <3>2. /\ "disk_full" \notin events
            /\ local' = local \o [i \in 1..k |-> s2c[i].n]
        BY <1>6, <3>1 DEF CopyData
      <3>3. Len(local) = totalReadBytes /\ local \in Seq(Nat)
        BY <1>1, <3>2 DEF ClientOK, ClientTypes
      <3>4. [i \in 1..k |-> s2c[i].n] \in Seq(Nat) /\ Len([i \in 1..k |-> s2c[i].n]) = k
        <4>1. \A i \in 1..k : i \in 1..Len(s2c)
          BY <2>1, LenProperties
        <4>2. \A i \in 1..k : s2c[i] \in Items
          BY <2>1, <4>1, ElementOfSeq
        <4>3. [i \in 1..k |-> s2c[i].n] \in [1..k -> Nat]
          BY <4>2 DEF Items
        <4> QED
          BY <2>1, <4>3, SeqOfLength, Zenon
      <3>5. Len(local') = totalReadBytes + k
        BY <3>2, <3>3, <3>4, ConcatProperties
      <3> QED
        BY <2>1, <3>2, <3>5
    <2>4. ~CopyBroken' => local' = FirstUnits(totalReadBytes')
      <3>1. SUFFICES ASSUME ~CopyBroken'
                     PROVE  local' = FirstUnits(totalReadBytes')
        OBVIOUS
      <3>2. /\ "disk_full" \notin events' /\ "disk_full" \notin events
            /\ local' = local \o [i \in 1..k |-> s2c[i].n]
        BY <1>6, <3>1 DEF CopyBroken, CopyData
      <3>3. ReadFailed => totalReadBytes + k <= offset
        BY <2>1, <2>3, <3>1, <3>2, WrittenType DEF CopyBroken, SessionInv
      <3>4. ~CopyBroken
        BY <1>1, <2>1, <3>2, <3>3, WrittenType DEF CopyBroken, ClientOK, SessionInv
      <3>5. totalReadBytes + k <= Returned
        BY <2>1, <2>2, <3>3, WrittenType DEF SessionInv
      <3>6. FirstUnits(totalReadBytes) \o [i \in 1..k |-> s2c[i].n]
              = FirstUnits(totalReadBytes + k)
        BY <2>1, <3>5, UnitsJoin, WrittenType DEF SessionInv
      <3>7. local = FirstUnits(totalReadBytes)
        BY <1>1, <3>4 DEF ClientOK
      <3> QED
        BY <2>1, <3>2, <3>6, <3>7
    <2>5. "copied" \in events' <=> "copied" \in events
      BY <1>6 DEF CopyData
    <2>6. ~ReadFailed' => totalReadBytes' <= offset'
      BY <2>1, <2>2
    <2> QED
      BY <1>1, <1>6, <2>1, <2>3, <2>4, <2>5, <2>6, ClientFrame DEF ClientOK,
         CopyData, ClientStep, ClientGone
  <1>7. CASE SendRequest \/ CreateFile \/ CopyEnds \/ SendQuit \/ ListEnds
    BY <1>1, <1>7, ClientFrame, BrokenKept DEF ClientStep, ClientOK, ClientTypes, SendRequest,
       CreateFile, CopyEnds, SendQuit, ListEnds, ClientGone
  <1>8. CASE CloseClient \/ Interrupt
    BY <1>1, <1>8, ClientFrame, BrokenKept DEF ClientStep, ClientOK, CloseClient, Interrupt,
       CloseConnection, ClientGone
  <1>9. CASE KillChild \/ (\E n \in 0..MaxLen : ChangeFile(n))
    BY <1>1, <1>9, OutsideFrame, BrokenKept DEF ClientOK, ClientGone
  <1>10. CASE ReadFails
    BY <1>1, <1>10, FailureFrame, BrokenKept DEF ClientOK, ClientGone
  <1> QED
    BY <1>2, <1>3, <1>4, <1>5, <1>6, <1>7, <1>8, <1>9, <1>10 DEF Next, ClientStep

LEMMA SmallMod ==
  ASSUME NEW a \in Nat, NEW b \in Nat, a < b
  PROVE  a % b = a
  OBVIOUS

\* A copy that ends has all of the file, unless that grew, is too long or
\* could not be read.
LEMMA WholeCopy ==
  ASSUME SessionInv, cpc = "copy", totalReadBytes >= size,
         "grew" \notin events, st_size < SizeMod, ~ReadFailed
  PROVE  /\ totalReadBytes = st_size /\ offset = st_size /\ s2c = <<>>
         /\ spc \in {"read", "command", "dead"}
  <1>1. st_size \in Nat /\ offset \in Nat /\ offset <= st_size /\ size = st_size
    <2>1. st_size \in Nat /\ offset \in Nat /\ offset <= st_size
      BY Constants DEF SessionInv, FileOK, TypeInv, TypeOK, ServerTypes
    <2>2. size = st_size % SizeMod
      BY DEF SessionInv, ClientOK
    <2> QED
      BY <2>1, <2>2, SmallMod, Constants
  <1>2. /\ totalReadBytes + Len(s2c) = Written /\ totalReadBytes \in Nat
        /\ Len(s2c) \in Nat /\ Written \in Nat /\ Written <= offset
        /\ spc \in {"read", "write", "command", "dead"}
    BY CopyCount
  <1>3. totalReadBytes = st_size /\ offset = st_size /\ Written = offset /\ Len(s2c) = 0
    BY <1>1, <1>2
  <1>4. s2c = <<>>
    BY <1>3, EmptySeq DEF SessionInv, TypeInv, TypeOK, StreamTypes
  <1>5. spc # "write"
    BY <1>1, <1>3, WrittenType DEF SessionInv, TypeInv, ServerOK, PortionOK
  <1> QED
    BY <1>2, <1>3, <1>4, <1>5

LEMMA CopiedKept ==
  ASSUME SessionInv, Next
  PROVE  CopiedOK'
  <1>1. CopiedOK /\ ClientOK /\ PortionOK
    BY DEF SessionInv, TypeInv, ServerOK
  <1>2. CASE ServerStep
    <2>1. st_size' = st_size \/ spc = "stat"
      BY <1>2, CommandRead DEF ServerStep, ReadEndOfStream, OpenFile, AnswerLine,
         StatFile,
        SendSize, SendBlank, ReadFile, WriteData, WriteFaults, OpenDirectory, SendEntry, EndList,
        BrokenPipe, transfer
    <2> QED
      BY <1>1, <1>2, <2>1, ServerFrame DEF CopiedOK, ClientOK, PortionOK
  <1>3. CASE CopyEnds
    <2>1. "grew" \notin events /\ st_size < SizeMod /\ ~ReadFailed =>
            totalReadBytes = st_size
      BY <1>3, WholeCopy DEF CopyEnds
    <2> QED
      BY <1>3, <2>1, ClientFrame DEF CopyEnds, CopiedOK, ClientStep
  <1>4. CASE (ClientStep \/ Interrupt) /\ ~CopyEnds
    <2>1. /\ "copied" \in events' => "copied" \in events
          /\ "grew" \notin events' => "grew" \notin events
          /\ cpc # "copy" => totalReadBytes' = totalReadBytes
      BY <1>4 DEF ClientStep, SendRequest, ReadHeader, HeaderEnds, CreateFile,
         CopyData,
         SendQuit, ReadList, ListEnds, CloseClient, Interrupt, CloseConnection
    <2> QED
      BY <1>1, <1>4, <2>1, ClientFrame DEF CopiedOK, ClientOK
  <1>5. CASE KillChild \/ (\E n \in 0..MaxLen : ChangeFile(n))
    BY <1>1, <1>5, OutsideFrame DEF CopiedOK
  <1>6. CASE ReadFails
    BY <1>6, FailureFrame DEF CopiedOK
  <1> QED
    BY <1>2, <1>3, <1>4, <1>5, <1>6 DEF Next

LEMMA HeardKept ==
  ASSUME SessionInv, Next
  PROVE  HeardOK'
  <1>1. HeardOK /\ ClientOK /\ FileOK /\ KilledOK /\ ServerTypes
    BY DEF SessionInv, TypeInv, TypeOK
  <1> DEFINE Quiet == "copied" \in events /\ ~Excused
  <1>2. CASE ServerStep
    <2>1. SUFFICES ASSUME Quiet, spc # "done" PROVE HeardOK'
      <3>1. spc # "done"
        BY <1>2, ServerFrame DEF Serving, Sending
      <3>2. "copied" \in events => spc # "stat"
        BY DEF SessionInv, TypeInv, ServerOK, PortionOK, ClientOK
      <3>3. st_size' = st_size \/ spc = "stat"
        BY <1>2, CommandRead DEF ServerStep, ReadEndOfStream, OpenFile,
           AnswerLine, StatFile,
          SendSize, SendBlank, ReadFile, WriteData, WriteFaults, OpenDirectory, SendEntry, EndList,
          BrokenPipe, transfer
      <3>4. events' = events
        BY <1>2, ServerFrame
      <3> QED
        BY <3>1, <3>2, <3>3, <3>4 DEF HeardOK, Excused
    <2>2. /\ offset = st_size /\ s2c = <<>> /\ spc \in {"read", "command"}
          /\ cpc = "quit" => c2s = <<>>
          /\ cpc \in {"close", "closed"} => c2s = <<"QUIT">>
          /\ cpc \in {"quit", "close", "closed"}
          /\ cpc' = cpc /\ "grew" \notin events
      BY <1>1, <1>2, <2>1, ServerFrame DEF HeardOK, ClientOK, Excused
    <2>3. CASE ReadCommand
      <3>1. cpc # "quit" /\ ~Pending
        BY <2>2, <2>3, OneCommand DEF ReadCommand, Pending
      <3> QED
        BY <2>2, <2>3, <3>1, CommandRead DEF HeardOK
    <2>4. CASE ReadFile
      <3>1. flen <= st_size /\ flen \in Nat /\ st_size \in Nat
        BY <1>1, <2>2, <2>4, FileRead DEF FileOK, ServerTypes
      <3>2. readBytes' = 0 /\ spc' = "command" /\ offset' = offset
        BY <1>1, <2>2, <2>4, <3>1, FileRead
      <3> QED
        BY <1>1, <2>2, <2>4, <3>2, FileRead DEF HeardOK
    <2>5. ReadCommand \/ ReadFile
      <3>1. ~(ClientGone /\ c2s = <<>>)
        BY <2>2, OneCommand DEF ClientGone
      <3> QED
        BY <1>2, <2>2, <3>1 DEF ServerStep, ReadEndOfStream, OpenFile, AnswerLine,
          StatFile, SendSize, SendBlank, WriteData, WriteFaults, OpenDirectory, SendEntry, EndList,
          BrokenPipe, Sending
    <2> QED
      BY <2>3, <2>4, <2>5
  <1>3. CASE CopyEnds
    <2>1. SUFFICES ASSUME ~Excused PROVE HeardOK'
      BY <1>3, ClientFrame DEF HeardOK, Excused, CopyEnds, ClientStep
    <2>2. /\ offset = st_size /\ s2c = <<>> /\ spc \in {"read", "command", "dead"}
      BY <1>1, <1>3, <2>1, WholeCopy, Constants DEF CopyEnds, Excused, ServerTypes,
         ReadFailed
    <2>3. spc # "dead"
      BY <1>1, <1>3, <2>1, ClientFrame DEF ClientStep, KilledOK, Excused
    <2>4. c2s = <<>>
      <3>1. ~Pending /\ cpc = "copy"
        BY <1>3, CopyCount DEF Granted, CopyEnds
      <3> QED
        BY <3>1 DEF SessionInv, TypeInv, CommandOK
    <2> QED
      BY <1>3, <2>2, <2>3, <2>4, ClientFrame DEF HeardOK, CopyEnds, ClientStep
  <1>4. CASE ClientStep /\ ~CopyEnds
    <2>1. SUFFICES ASSUME Quiet PROVE HeardOK'
      <3>1. events' = events \/ events' = events \union {"disk_full"}
        BY <1>4 DEF ClientStep, SendRequest, ReadHeader, HeaderEnds, CreateFile,
           CopyData,
          SendQuit, ReadList, ListEnds, CloseClient
      <3>2. /\ "copied" \in events' => "copied" \in events
            /\ events \intersect {"killed", "interrupted", "grew", "read_failed"} # {}
                 => events' \intersect {"killed", "interrupted", "grew", "read_failed"} # {}
        BY <3>1
      <3> QED
        BY <1>4, <3>2, ClientFrame DEF HeardOK, Excused
    <2>2. /\ offset = st_size /\ s2c = <<>> /\ spc \in {"read", "command", "done"}
          /\ cpc \in {"quit", "close", "closed"}
          /\ cpc = "quit" => c2s = <<>> /\ spc # "done"
          /\ cpc \in {"close", "closed"} /\ spc # "done" => c2s = <<"QUIT">>
      BY <1>1, <2>1 DEF HeardOK, ClientOK
    <2>3. SendQuit \/ CloseClient
      BY <1>4, <2>2 DEF ClientStep, SendRequest, ReadHeader, HeaderEnds, CreateFile,
         CopyData, ReadList, ListEnds
    <2>4. CASE SendQuit
      BY <1>4, <2>2, <2>4, OneCommand, ClientFrame DEF HeardOK, SendQuit,
         SendCommand, ServerGone
    <2>5. CASE CloseClient
      BY <1>4, <2>2, <2>5, ClientFrame DEF HeardOK, CloseClient, CloseConnection
    <2> QED
      BY <2>3, <2>4, <2>5
  <1>5. CASE Interrupt
    BY <1>5 DEF Interrupt, HeardOK, Excused
  <1>6. CASE KillChild \/ (\E n \in 0..MaxLen : ChangeFile(n))
    BY <1>1, <1>6, OutsideFrame DEF HeardOK, Excused
  <1>7. CASE ReadFails
    BY <1>7, FailureFrame DEF HeardOK, Excused
  <1> QED
    BY <1>2, <1>3, <1>4, <1>5, <1>6, <1>7 DEF Next

\* What Granted says of the streams, which many steps leave alone.
LEMMA GrantedFrame ==
  ASSUME UNCHANGED <<s2c, answer, totalReadBytes, st_size, offset, readBytes, writeBytes, stray>>,
         ReadFailed' <=> ReadFailed
  PROVE  /\ HeaderRead' = HeaderRead /\ Consumed' = Consumed /\ Sent' = Sent
         /\ Written' = Written /\ (NothingRead' <=> NothingRead)
         /\ GrantedAnswer' <=> GrantedAnswer
  <1>1. HeaderRead' = HeaderRead
    BY DEF HeaderRead
  <1>2. Consumed' = Consumed
    BY <1>1 DEF Consumed
  <1>3. Written' = Written /\ Returned' = Returned
    BY DEF Written, Returned
  <1> QED
    BY <1>1, <1>2, <1>3 DEF Sent, NothingRead, GrantedAnswer

\* The counts of a GET that was granted are numbers.
LEMMA Counts ==
  ASSUME SessionInv
  PROVE  /\ HeaderRead \in 0..3 /\ totalReadBytes \in Nat /\ Consumed \in Nat
         /\ s2c \in Seq(Items) /\ Len(s2c) \in Nat /\ Sent \in Nat
         /\ offset \in Nat /\ Written \in Nat /\ st_size \in Nat /\ flen \in Nat
         /\ Returned \in Nat /\ offset <= MaxLen /\ MaxLen \in Nat
         /\ ~ReadFailed => /\ Written = offset - readBytes + writeBytes /\ Written <= offset
                           /\ readBytes \in Nat /\ writeBytes \in Nat /\ Returned = MaxLen
         /\ ReadFailed => Written >= offset /\ Returned = offset
         /\ Consumed = HeaderRead + totalReadBytes /\ Sent = Consumed + Len(s2c)
  <1>1. /\ HeaderRead \in 0..3 /\ totalReadBytes \in Nat /\ s2c \in Seq(Items) /\ Len(s2c) \in Nat
    BY HeaderReadType, LenProperties DEF SessionInv, TypeInv, TypeOK, StreamTypes,
       ClientTypes
  <1>2. st_size \in Nat /\ flen \in Nat /\ MaxLen \in Nat
    BY Constants DEF SessionInv, TypeInv, TypeOK, ServerTypes
  <1>3. Consumed = HeaderRead + totalReadBytes /\ Sent = Consumed + Len(s2c)
    BY DEF Consumed, Sent
  <1> QED
    BY <1>1, <1>2, <1>3, WrittenType DEF SessionInv

\* The child's answer to a GET so far: refusals, the three lines, the data.
LEMMA GetAnswered ==
  ASSUME SessionInv, ServerStep, prog = "get", ~ClientGone
  PROVE  Unanswered' \/ Refused' \/ Granted'
  <1>1. /\ Unanswered \/ Refused \/ Granted
        /\ CommandOK /\ UntouchedOK /\ PortionOK /\ ProgOK /\ ServerTypes /\ StreamTypes
        /\ cpc' = cpc /\ answer' = answer /\ totalReadBytes' = totalReadBytes /\ events' = events
        /\ HeaderRead' = HeaderRead /\ Consumed' = Consumed
        /\ (ReadFailed' <=> ReadFailed)
    BY ServerFrame DEF SessionInv, GetOK, TypeInv, TypeOK, ServerOK, HeaderRead,
       Consumed
  <1>2. /\ HeaderRead \in 0..3 /\ totalReadBytes \in Nat /\ Consumed \in Nat
        /\ s2c \in Seq(Items) /\ Len(s2c) \in Nat /\ Sent \in Nat
        /\ offset \in Nat /\ Written \in Nat /\ st_size \in Nat
        /\ Consumed = HeaderRead + totalReadBytes /\ Sent = Consumed + Len(s2c)
    BY Counts
  <1>3. CASE ReadCommand
    <2>1. UNCHANGED <<s2c, answer, totalReadBytes, st_size, offset, readBytes, writeBytes, stray>>
      BY <1>1, <1>3, CommandRead
    <2>2. CASE Pending
      <3>1. Untouched /\ cpc = "header" /\ spc' \in {"open", "noname"}
        BY <1>1, <1>3, <2>2, CommandRead, OneCommand
        DEF UntouchedOK, Before, SessionInv, ClientOK, ClientGone, Pending
      <3> QED
        BY <1>1, <2>1, <3>1, GrantedFrame DEF Unanswered, Untouched
    <2>3. CASE ~Pending
      <3>1. /\ cpc = "close" /\ spc' = "done" /\ c2s' = <<>> /\ spc = "command"
            /\ ~Pending'
        BY <1>3, <2>3, CommandRead, OneCommand DEF ClientGone, Pending
      <3>2. CASE Refused
        BY <1>1, <2>1, <3>1, <3>2, GrantedFrame DEF Refused
      <3>3. CASE Granted
        BY <1>1, <2>1, <3>1, <3>3, GrantedFrame DEF Granted
      <3>4. ~Unanswered
        BY <2>3, <3>1 DEF Unanswered
      <3> QED
        BY <1>1, <3>2, <3>3, <3>4
    <2> QED
      BY <2>2, <2>3
  <1>4. CASE OpenFile
    <2>1. /\ Untouched /\ spc = "open" /\ spc' \in {"ok", "notfound"} /\ offset' = 0
          /\ UNCHANGED <<st_size, readBytes, writeBytes, stray, c2s, s2c>>
      BY <1>1, <1>4 DEF OpenFile, UntouchedOK, Before
    <2>2. Unanswered
      BY <1>1, <2>1 DEF Refused, Granted
    <2> QED
      BY <1>1, <2>1, <2>2 DEF Unanswered, NothingRead, Pending
  <1>5. CASE AnswerLine
    <2>1. /\ Untouched /\ Unanswered /\ cpc = "header" /\ ~Pending
          /\ spc \in {"noname", "notfound", "ok"}
      BY <1>1, <1>5 DEF AnswerLine, UntouchedOK, Before, Refused, Granted,
         Unanswered, CommandOK, ProgOK
    <2>2. UNCHANGED <<st_size, offset, readBytes, writeBytes, stray, c2s>>
      BY <1>5 DEF AnswerLine, transfer
    <2>3. ~Pending' /\ NothingRead'
      BY <2>1, <2>2 DEF Pending, Untouched, NothingRead
    <2>4. CASE spc \in {"noname", "notfound"}
      <3>1. /\ spc' = "command"
            /\ s2c' \in {Append(<<>>, Line("ERROR")), Append(<<>>, Line("NOT_FOUND"))}
        BY <1>5, <2>1, <2>4 DEF AnswerLine, SendLine, Untouched, ClientGone
      <3>2. s2c' \in {<<Line("ERROR")>>, <<Line("NOT_FOUND")>>}
        BY <3>1, OneCommand
      <3> QED
        BY <1>1, <2>1, <2>3, <3>1, <3>2 DEF Refused, Untouched
    <2>5. CASE spc = "ok"
      <3>1. spc' = "stat" /\ s2c' = <<Line("OK")>>
        BY <1>5, <2>1, <2>5, OneCommand DEF AnswerLine, SendLine, Untouched,
           ClientGone
      <3>2. answer' = {} /\ HeaderRead' = 0 /\ Consumed' = 0 /\ totalReadBytes' = 0
        <4>1. answer = {} /\ totalReadBytes = 0 /\ HeaderRead = 0
          BY <2>1 DEF Untouched, HeaderRead
        <4>2. Consumed = 0
          BY <4>1 DEF Consumed
        <4> QED
          BY <1>1, <4>1, <4>2
      <3>3. Len(s2c') = 1 /\ s2c'[1] = Line("OK")
        BY <3>1
      <3>4. Sent' = 1
        BY <3>2, <3>3 DEF Sent
      <3>5. InOrder(s2c', st_size', Returned', 0)
        BY <3>3 DEF InOrder, AnswerItem
      <3>6. GrantedAnswer'
        BY <3>2, <3>5 DEF GrantedAnswer
      <3> QED
        BY <1>1, <2>1, <2>3, <3>1, <3>2, <3>4, <3>6 DEF Granted
    <2> QED
      BY <2>1, <2>4, <2>5
  <1>6. CASE StatFile
    <2>1. Granted /\ Sent = 1 /\ NothingRead /\ spc = "stat"
      BY <1>1, <1>6 DEF StatFile, Unanswered, Refused, Granted, PortionOK
    <2>2. /\ spc' = "size"
          /\ UNCHANGED <<offset, readBytes, writeBytes, stray, c2s, s2c>>
          /\ Returned' = Returned
      BY <1>1, <1>6 DEF StatFile, Returned
    <2>3. InOrder(s2c', st_size', Returned', Consumed)
      <3>1. InOrder(s2c, st_size, Returned, Consumed)
        BY <2>1 DEF Granted, GrantedAnswer
      <3>2. \A i \in 1..Len(s2c) : Consumed + i = 1
        BY <1>2, <2>1
      <3> QED
        BY <2>2, <3>1, <3>2 DEF InOrder, AnswerItem
    <2>4. /\ GrantedAnswer' /\ Sent' = Sent /\ NothingRead' /\ ~Pending'
      BY <1>1, <2>1, <2>2, <2>3 DEF GrantedAnswer, Granted, Sent, NothingRead,
         Pending
    <2> QED
      BY <1>1, <2>1, <2>2, <2>4 DEF Granted
  <1>7. CASE SendSize \/ SendBlank
    <2>1. /\ UNCHANGED <<st_size, offset, readBytes, writeBytes, stray, c2s>>
          /\ Returned' = Returned
          /\ SendSize => /\ spc = "size" /\ spc' = "blank"
                         /\ SendLine([kind |-> "size", n |-> st_size % SizeMod])
          /\ ~SendSize => /\ spc = "blank" /\ spc' = "read" /\ SendLine(Line("blank"))
      BY <1>1, <1>7 DEF SendSize, SendBlank, transfer, Returned
    <2>2. PICK j \in {2, 3} :
            /\ spc = IF j = 2 THEN "size" ELSE "blank"
            /\ spc' = IF j = 2 THEN "blank" ELSE "read"
            /\ SendLine(AnswerItem(st_size, Returned, j)) /\ AnswerItem(st_size, Returned, j) \in Items
      <3>1. /\ AnswerItem(st_size, Returned, 2) = [kind |-> "size", n |-> st_size % SizeMod]
            /\ AnswerItem(st_size, Returned, 3) = Line("blank")
        BY DEF AnswerItem
      <3>2. st_size % SizeMod \in Nat
        BY <1>2, Constants
      <3>3. AnswerItem(st_size, Returned, 2) \in Items /\ AnswerItem(st_size, Returned, 3) \in Items
        BY <3>1, <3>2, ItemTypes DEF Kinds
      <3> QED
        BY <2>1, <3>1, <3>3
    <2>3. Granted /\ Sent = j - 1 /\ NothingRead
      BY <1>1, <2>2 DEF Unanswered, Refused, Granted, PortionOK
    <2>4. s2c' = Append(s2c, AnswerItem(st_size, Returned, j)) /\ Len(s2c') = Len(s2c) + 1
      BY <1>1, <2>2, LineSent
    <2>5. InOrder(s2c', st_size, Returned, Consumed)
      <3>1. Consumed + Len(s2c) + 1 = j
        BY <1>2, <2>2, <2>3
      <3> QED
        BY <1>2, <2>2, <2>3, <2>4, <3>1, InOrderAppend DEF Granted, GrantedAnswer
    <2>6. GrantedAnswer'
      BY <1>1, <2>1, <2>3, <2>5 DEF GrantedAnswer, Granted
    <2>7. Sent' = j
      BY <1>1, <1>2, <2>3, <2>4 DEF Sent
    <2>8. NothingRead' /\ ~Pending'
      BY <2>1, <2>3 DEF NothingRead, Pending, Granted
    <2>9. Written' = 0
      BY <2>8 DEF NothingRead, Written
    <2> QED
      BY <1>1, <2>2, <2>3, <2>6, <2>7, <2>8, <2>9 DEF Granted
  <1>8. CASE ReadFile
    <2>1. /\ Granted /\ Sent = 3 + Written /\ writeBytes = readBytes /\ spc = "read"
          /\ ~ReadFailed
      BY <1>1, <1>8 DEF ReadFile, Unanswered, Refused, Granted, PortionOK
    <2>2. Written' = Written
      <3>1. offset' = offset + readBytes' /\ readBytes' \in Nat /\ writeBytes' = 0
        BY <1>1, <1>8, FileRead, Constants
      <3>2. Written = offset /\ Written' = offset' - readBytes' + writeBytes'
        BY <1>1, <1>2, <2>1, Counts DEF Written
      <3> DEFINE r == readBytes'
      <3>3. r \in Nat /\ offset' = offset + r /\ Written' = offset' - r + 0
        BY <3>1, <3>2
      <3> HIDE DEF r
      <3> QED
        BY <1>2, <3>2, <3>3
    <2>3. /\ UNCHANGED <<st_size, c2s, s2c>> /\ spc' \in {"command", "write"}
          /\ Returned' = Returned
      BY <1>1, <1>8, <2>1, FileRead DEF Returned
    <2>4. GrantedAnswer' /\ Sent' = Sent /\ ~Pending'
      BY <1>1, <2>1, <2>3 DEF GrantedAnswer, Granted, Sent, Pending
    <2>5. spc' = "command" => /\ writeBytes' = readBytes'
                              /\ "shrank" \in events \/ st_size <= offset'
      <3>1. "shrank" \in events \/ st_size <= flen
        BY <1>8 DEF ReadFile, SessionInv, FileOK
      <3>2. spc' = "command" => readBytes' = 0 /\ writeBytes' = 0 /\ flen <= offset /\ offset' = offset
        BY <1>1, <1>2, <1>8, FileRead
      <3> QED
        BY <1>1, <1>2, <3>1, <3>2 DEF ServerTypes
    <2> QED
      BY <1>1, <2>1, <2>2, <2>3, <2>4, <2>5 DEF Granted
  <1>11. CASE WriteFaults
    <2>1. Granted /\ spc = "write" /\ Sent = 3 + Written /\ ReadFailed
      <3>1. spc = "write" /\ Granted
        BY <1>1, <1>11 DEF WriteFaults, Unanswered, Refused
      <3>2. writeBytes < readBytes /\ writeBytes = Heap
        BY <1>1, <1>11, <3>1 DEF PortionOK, WriteFaults
      <3>3. ~(readBytes \in 0..Chunk)
        BY <3>2, Constants
      <3>4. ReadFailed
        BY <1>1, <3>3 DEF ServerTypes
      <3> QED
        BY <3>1, <3>4 DEF Granted
    <2>2. UNCHANGED <<spc, st_size, offset, readBytes, stray, c2s, s2c>>
      BY <1>11 DEF WriteFaults
    <2>3. Written' = Written /\ Returned' = Returned
      BY <1>1, <2>1, <2>2 DEF Written, Returned
    <2>4. Sent' = Sent /\ GrantedAnswer' /\ ~Pending'
      BY <1>1, <2>1, <2>2, <2>3 DEF Sent, GrantedAnswer, Granted, Pending
    <2> QED
      BY <1>1, <2>1, <2>2, <2>3, <2>4 DEF Granted
  <1>9. ASSUME NEW k \in 1..Heap, WriteData(k)
        PROVE  Granted'
    <2>1. Granted /\ Sent = 3 + Written /\ spc = "write"
      <3>1. spc = "write" /\ Granted
        BY <1>1, <1>9 DEF WriteData, WriteFaults, Unanswered, Refused
      <3>2. writeBytes < readBytes
        BY <1>1, <3>1 DEF PortionOK
      <3> QED
        BY <3>1 DEF Granted
    <2>2. /\ s2c' = s2c \o Portion(k) /\ Len(s2c') = Len(s2c) + k
          /\ Portion(k) \in Seq(Items) /\ k \in Nat
          /\ InOrder(Portion(k), st_size, Returned, 3 + Written)
          /\ UNCHANGED <<st_size, offset, readBytes, c2s>>
          /\ Written' = Written + k /\ Returned' = Returned
          /\ writeBytes' = writeBytes + k /\ spc' \in {"write", "read"}
      BY <1>9, DataSent DEF SessionInv
    <2>3. InOrder(s2c', st_size', Returned', Consumed)
      <3>1. Consumed + Len(s2c) = 3 + Written
        BY <1>2, <2>1
      <3>2. InOrder(s2c, st_size, Returned, Consumed)
        BY <2>1 DEF Granted, GrantedAnswer
      <3>3. InOrder(s2c \o Portion(k), st_size, Returned, Consumed)
        BY <1>2, <2>2, <3>1, <3>2, InOrderJoin
      <3> QED
        BY <2>2, <3>3
    <2>4. GrantedAnswer' /\ ~Pending'
      BY <1>1, <2>1, <2>2, <2>3 DEF GrantedAnswer, Granted, Pending
    <2>5. Written' = Written + k
      BY <2>2
    <2>6. Sent' = 3 + Written'
      <3>1. Sent' = Consumed + (Len(s2c) + k)
        BY <1>1, <2>2 DEF Sent
      <3>2. /\ Consumed \in Nat /\ Len(s2c) \in Nat /\ Written \in Nat /\ k \in Nat
            /\ Consumed + Len(s2c) = 3 + Written
        BY <1>2, <2>1, <2>2
      <3>3. Consumed + (Len(s2c) + k) = 3 + (Written + k)
        BY <3>2
      <3> QED
        BY <2>5, <3>1, <3>3
    <2> QED
      BY <1>1, <2>1, <2>2, <2>4, <2>6 DEF Granted
  <1>10. ~(ReadEndOfStream \/ OpenDirectory \/ SendEntry \/ EndList \/ BrokenPipe)
    BY <1>1 DEF ReadEndOfStream, OpenDirectory, SendEntry, EndList, BrokenPipe,
       ProgOK
  <1> QED
    BY <1>3, <1>4, <1>5, <1>6, <1>7, <1>8, <1>9, <1>10, <1>11 DEF ServerStep

\* What the client makes of that answer.
LEMMA GetHeard ==
  ASSUME SessionInv, ClientStep, prog = "get", ~ClientGone'
  PROVE  Unanswered' \/ Refused' \/ Granted'
  <1>1. /\ Unanswered \/ Refused \/ Granted
        /\ CommandOK /\ UntouchedOK /\ ClientOK
        /\ spc' = spc /\ st_size' = st_size /\ offset' = offset
        /\ readBytes' = readBytes /\ writeBytes' = writeBytes
        /\ stray' = stray /\ (ReadFailed' <=> ReadFailed) /\ Returned' = Returned
        /\ Written' = Written /\ (NothingRead' <=> NothingRead)
    BY ClientFrame DEF SessionInv, GetOK, TypeInv, ServerOK, Written, Returned,
       NothingRead, ClientGone
  <1>2. /\ HeaderRead \in 0..3 /\ totalReadBytes \in Nat /\ Consumed \in Nat
        /\ s2c \in Seq(Items) /\ Len(s2c) \in Nat /\ Sent \in Nat /\ Written \in Nat
        /\ Consumed = HeaderRead + totalReadBytes /\ Sent = Consumed + Len(s2c)
    BY Counts
  <1>3. CASE SendRequest \/ CreateFile \/ CopyEnds \/ SendQuit
    <2>1. /\ UNCHANGED <<s2c, answer, totalReadBytes, st_size, offset, readBytes, writeBytes, stray>>
          /\ "shrank" \in events => "shrank" \in events'
      BY <1>1, <1>3 DEF SendRequest, CreateFile, CopyEnds, SendQuit
    <2>2. CASE SendRequest
      <3>1. /\ Unanswered /\ cpc' = "header"
            /\ c2s' \in {Append(c2s, "GET"), Append(c2s, "GET_no_name")} \/ spc = "dead"
        BY <1>1, <2>2 DEF SendRequest, SendCommand, Refused, Granted, CommandOK,
           ServerGone
      <3>2. c2s = <<>>
        BY <1>1, <2>2 DEF CommandOK, SendRequest
      <3>3. spc # "dead" => Pending'
        BY <3>1, <3>2, OneCommand DEF Pending
      <3> QED
        BY <1>1, <2>1, <3>1, <3>3 DEF Unanswered
    <2>3. CASE CreateFile \/ CopyEnds
      <3>1. Granted /\ c2s' = c2s /\ cpc \in {"create", "copy"} /\ cpc' \in {"copy", "quit"}
            /\ (cpc = "create" \/ cpc' = "quit")
        BY <1>1, <2>3 DEF CreateFile, CopyEnds, ClientOK, Unanswered, Refused
      <3> QED
        BY <1>1, <2>1, <3>1, GrantedFrame DEF Granted, Pending
    <2>4. CASE SendQuit
      <3>1. cpc = "quit" /\ cpc' = "close" /\ (c2s' = c2s \/ (c2s' = Append(c2s, "QUIT") /\ spc # "dead"))
        BY <2>4 DEF SendQuit, SendCommand, ServerGone
      <3>2. CASE Unanswered
        BY <1>1, <2>1, <3>1, <3>2 DEF Unanswered
      <3>3. CASE Refused \/ Granted
        <4>1. c2s = <<>>
          BY <1>1, <3>1, <3>3 DEF CommandOK, Refused, Granted
        <4>2. ~Pending'
          <5>1. c2s' \in {<<>>, <<"QUIT">>}
            BY <3>1, <4>1, OneCommand
          <5> QED
            BY <5>1, OneCommand DEF Pending
        <4>3. CASE Refused
          BY <1>1, <2>1, <3>1, <4>2, <4>3 DEF Refused
        <4>4. CASE Granted
          BY <1>1, <2>1, <3>1, <4>2, <4>4, GrantedFrame DEF Granted
        <4> QED
          BY <3>3, <4>3, <4>4
      <3> QED
        BY <1>1, <3>2, <3>3
    <2> QED
      BY <1>3, <2>2, <2>3, <2>4
  <1>4. CASE ReadHeader
    <2>1. /\ c2s' = c2s /\ totalReadBytes' = totalReadBytes /\ events' = events
          /\ answer' = answer \union {Head(s2c).kind}
      BY <1>4 DEF ReadHeader
    <2>2. CASE Refused /\ ~Granted
      <3>1. /\ Head(s2c).kind \in {"ERROR", "NOT_FOUND"} /\ s2c' = <<>> /\ cpc' = "quit"
        BY <1>4, <2>2, HeaderLineRead
      <3> QED
        BY <1>1, <2>1, <2>2, <3>1 DEF Refused, Pending
    <2>3. CASE Granted
      <3>1. /\ totalReadBytes = 0 /\ HeaderRead \in 0..2 /\ Len(s2c') = Len(s2c) - 1
            /\ Head(s2c).kind = CASE HeaderRead = 0 -> "OK"
                                     [] HeaderRead = 1 -> "size"
                                     [] HeaderRead = 2 -> "blank"
            /\ cpc' \in IF HeaderRead < 2 THEN {"header"} ELSE {"create", "quit"}
            /\ InOrder(s2c', st_size, Returned, HeaderRead + 1)
        BY <1>2, <1>4, <2>3, HeaderLineRead
      <3>2. /\ HeaderRead' = HeaderRead + 1 /\ answer' \subseteq {"OK", "size", "blank"}
            /\ "size" \in answer' => "OK" \in answer'
            /\ "blank" \in answer' => "size" \in answer'
        <4>1. CASE HeaderRead = 0
          BY <2>1, <2>3, <3>1, <4>1 DEF HeaderRead, Granted, GrantedAnswer
        <4>2. CASE HeaderRead = 1
          BY <2>1, <2>3, <3>1, <4>2 DEF HeaderRead, Granted, GrantedAnswer
        <4>3. CASE HeaderRead = 2
          BY <2>1, <2>3, <3>1, <4>3 DEF HeaderRead, Granted, GrantedAnswer
        <4> QED
          BY <3>1, <4>1, <4>2, <4>3
      <3>3. Consumed' = HeaderRead + 1
        BY <1>2, <2>1, <3>1, <3>2 DEF Consumed
      <3>4. Sent' = Sent
        <4>1. Sent' = (HeaderRead + 1) + (Len(s2c) - 1)
          BY <3>1, <3>3 DEF Sent
        <4>2. Sent = HeaderRead + Len(s2c)
          BY <1>2, <3>1
        <4> QED
          BY <1>2, <3>1, <4>1, <4>2
      <3>5. GrantedAnswer' /\ ~Pending'
        BY <1>1, <2>1, <2>3, <3>1, <3>2, <3>3 DEF GrantedAnswer, Granted, Pending
      <3>6. /\ cpc' = "header" => HeaderRead' < 3
            /\ cpc' \in {"create", "copy"} => HeaderRead' = 3
            /\ cpc' # "start"
        BY <3>1, <3>2
      <3> QED
        BY <1>1, <2>1, <2>3, <3>1, <3>4, <3>5, <3>6 DEF Granted
    <2> QED
      BY <1>4, <2>2, <2>3, HeaderLineRead
  <1>5. CASE HeaderEnds
    <2>1. /\ UNCHANGED <<s2c, answer, totalReadBytes, st_size, offset, readBytes, writeBytes, stray>>
          /\ c2s' = c2s /\ events' = events /\ cpc = "header" /\ s2c = <<>>
          /\ spc \in {"done", "dead"}
          /\ cpc' \in {"create", "quit"} /\ (cpc' = "create" => "size" \in answer)
      BY <1>1, <1>5, HeaderEndsTo DEF HeaderEnds, ServerGone, ClientGone
    <2>2. CASE Unanswered
      BY <1>1, <2>1, <2>2 DEF Unanswered, Pending
    <2>3. CASE Granted
      <3>1. spc = "dead" /\ HeaderRead < 3
        BY <1>1, <2>1, <2>3 DEF CommandOK, Granted
      <3>2. "size" \in answer => HeaderRead = 2
        BY <3>1 DEF HeaderRead
      <3> QED
        BY <1>1, <2>1, <2>3, <3>1, <3>2, GrantedFrame DEF Granted, Pending
    <2>4. ~Refused
      BY <2>1 DEF Refused
    <2> QED
      BY <1>1, <2>2, <2>3, <2>4
  <1>6. ASSUME NEW k \in 1..Chunk, CopyData(k)
        PROVE  Granted'
    <2>1. /\ Granted /\ HeaderRead = 3 /\ cpc = "copy"
          /\ Len(s2c') = Len(s2c) - k /\ k \in Nat
          /\ InOrder(s2c', st_size, Returned, 3 + totalReadBytes')
          /\ totalReadBytes' = totalReadBytes + k
      BY <1>6, DataRead
    <2>2. c2s' = c2s /\ answer' = answer /\ cpc' = cpc
          /\ ("shrank" \in events => "shrank" \in events')
      BY <1>6 DEF CopyData
    <2>3. HeaderRead' = 3
      BY <2>1, <2>2 DEF HeaderRead
    <2>4. Consumed' = 3 + totalReadBytes'
      BY <2>3 DEF Consumed
    <2>5. Sent' = Sent
      <3>1. Sent' = 3 + (totalReadBytes + k) + (Len(s2c) - k)
        BY <2>1, <2>4 DEF Sent
      <3>2. Sent = 3 + totalReadBytes + Len(s2c)
        BY <1>2, <2>1
      <3> QED
        BY <1>2, <2>1, <3>1, <3>2
    <2>6. GrantedAnswer' /\ ~Pending'
      BY <1>1, <2>1, <2>2, <2>4 DEF GrantedAnswer, Granted, Pending
    <2> QED
      BY <1>1, <2>1, <2>2, <2>3, <2>5, <2>6 DEF Granted
  <1>7. ~(ReadList \/ ListEnds \/ CloseClient)
    BY <1>1 DEF ReadList, ListEnds, CloseClient, CloseConnection, ClientOK,
       ClientGone
  <1> QED
    BY <1>3, <1>4, <1>5, <1>6, <1>7 DEF ClientStep

LEMMA GetKept ==
  ASSUME SessionInv, Next
  PROVE  GetOK'
  <1> SUFFICES ASSUME prog' = "get", ~ClientGone'
               PROVE  Unanswered' \/ Refused' \/ Granted'
    BY DEF GetOK
  <1>1. CASE ServerStep
    BY <1>1, ServerFrame, GetAnswered DEF ClientGone
  <1>2. CASE ClientStep
    BY <1>2, ClientFrame, GetHeard
  <1>3. CASE KillChild \/ (\E n \in 0..MaxLen : ChangeFile(n))
    <2>1. /\ Unanswered \/ Refused \/ Granted
          /\ UNCHANGED <<s2c, answer, totalReadBytes, st_size, offset, readBytes, writeBytes, stray>>
          /\ c2s' = c2s /\ cpc' = cpc /\ ("shrank" \in events => "shrank" \in events')
          /\ (ReadFailed' <=> ReadFailed)
          /\ \/ spc' = "dead"
             \/ spc' = spc /\ spc \in {"size", "blank", "read", "write"}
      BY <1>3, OutsideFrame DEF SessionInv, GetOK, ClientGone
    <2>2. CASE Unanswered
      BY <2>1, <2>2 DEF Unanswered, NothingRead, Pending
    <2>3. CASE Refused
      BY <2>1, <2>3 DEF Refused, NothingRead, Pending
    <2>4. CASE Granted
      BY <2>1, <2>4, GrantedFrame DEF Granted, Pending
    <2> QED
      BY <2>1, <2>2, <2>3, <2>4
  <1>4. ~Interrupt
    BY DEF Interrupt, CloseConnection, ClientGone
  <1>5. CASE ReadFails
    <2>1. /\ UNCHANGED <<s2c, c2s, answer, totalReadBytes, st_size, offset, stray, cpc>>
          /\ spc = "read" /\ spc' = "write" /\ stray = 0 /\ writeBytes = readBytes
          /\ ReadFailed' /\ ~ReadFailed /\ prog' = prog
      BY <1>5, FailureFrame
    <2>2. Granted /\ Sent = 3 + Written
      BY <2>1 DEF SessionInv, GetOK, ClientGone, Unanswered, Refused, Granted
    <2>3. Written = offset /\ Written' = offset /\ Returned' = offset
      BY <2>1, Counts DEF Written, Returned
    <2>4. HeaderRead' = HeaderRead
      BY <2>1 DEF HeaderRead
    <2>5. Consumed' = Consumed
      BY <2>1, <2>4 DEF Consumed
    <2>6. Sent' = Sent
      BY <2>1, <2>5 DEF Sent
    <2>7. InOrder(s2c, st_size, offset, Consumed)
      <3>1. InOrder(s2c, st_size, Returned, Consumed) /\ offset <= Returned
        BY <2>1, <2>2, Counts DEF Granted, GrantedAnswer
      <3>2. Consumed + Len(s2c) <= 3 + offset
        BY <2>2, <2>3, Counts
      <3> QED
        BY <3>1, <3>2, Counts, InOrderUpTo
    <2>8. InOrder(s2c', st_size', Returned', Consumed')
      BY <2>1, <2>3, <2>5, <2>7
    <2>9. GrantedAnswer' /\ ~Pending'
      BY <2>1, <2>2, <2>8 DEF GrantedAnswer, Granted, Pending
    <2> QED
      BY <2>1, <2>2, <2>3, <2>4, <2>6, <2>9 DEF Granted
  <1> QED
    BY <1>1, <1>2, <1>3, <1>4, <1>5 DEF Next

LEMMA ListKept ==
  ASSUME SessionInv, Next
  PROVE  ListOK'
  <1> SUFFICES ASSUME prog' = "list", ~ClientGone'
               PROVE  ListOK'
    BY DEF ListOK
  <1>1. /\ prog = "list" /\ ~ClientGone /\ prog' = prog
    BY ServerFrame, ClientFrame, OutsideFrame, FailureFrame DEF Next, ClientGone
  <1>2. /\ ListOK /\ CommandOK /\ UntouchedOK /\ ProgOK /\ ClientOK /\ StreamTypes
        /\ s2c \in Seq(Items) /\ ListLines(s2c)
        /\ Line("entry") \in Items /\ Line("blank") \in Items /\ Line("ERROR") \in Items
    BY <1>1, ItemTypes DEF SessionInv, TypeInv, TypeOK, ServerOK, StreamTypes,
       ListOK, Kinds
  <1>3. CASE ReadCommand
    <2>1. spc' \in {"opendir", "done"}
      BY <1>1, <1>3, CommandRead
    <2> QED
      BY <1>2, <1>3, <2>1, CommandRead, ServerFrame DEF ListOK, ServerStep
  <1>4. CASE OpenDirectory
    <2>1. Untouched /\ spc' \in {"list", "nodir"}
      BY <1>2, <1>4 DEF OpenDirectory, UntouchedOK, Before
    <2>2. s2c' = <<>> /\ answer' = {}
      BY <1>4, <2>1, ServerFrame DEF OpenDirectory, Untouched, ServerStep
    <2> QED
      BY <2>1, <2>2, EmptySeq DEF ListOK, ListLines, Entries
  <1>5. CASE AnswerLine
    <2>1. /\ spc = "nodir" /\ spc' = "command" /\ SendLine(Line("ERROR"))
      BY <1>1, <1>2, <1>5 DEF AnswerLine, ProgOK
    <2>2. Untouched
      BY <1>2, <2>1 DEF UntouchedOK, Before
    <2>3. s2c' = Append(s2c, Line("ERROR")) /\ answer' = {}
      BY <1>1, <1>2, <1>5, <2>1, <2>2, LineSent, ServerFrame DEF ServerStep,
         Untouched
    <2>4. Entries(s2c) /\ Line("ERROR").kind = "ERROR"
      <3>1. Len(s2c) = 0
        BY <1>2, <2>2, EmptySeq DEF Untouched
      <3> QED
        BY <3>1 DEF Entries, Line
    <2>5. ListLines(s2c') /\ LastLines(s2c')
      BY <1>2, <2>3, <2>4, ListAppend
    <2> QED
      BY <2>1, <2>3, <2>5 DEF ListOK
  <1>6. CASE SendEntry
    <2>1. /\ spc = "list" /\ spc' = "list" /\ s2c' = Append(s2c, Line("entry"))
          /\ cpc' = cpc /\ answer' = answer
      BY <1>1, <1>2, <1>6, LineSent, ServerFrame DEF SendEntry, ServerStep
    <2>2. ListLines(s2c') /\ (Entries(s2c) => Entries(s2c'))
      BY <1>2, <2>1, ListAppend DEF Line
    <2> QED
      BY <1>1, <1>2, <2>1, <2>2 DEF ListOK
  <1>7. CASE EndList
    <2>1. /\ spc = "list" /\ spc' = "command" /\ s2c' = Append(s2c, Line("blank"))
          /\ cpc' = cpc /\ answer' = answer
      BY <1>1, <1>2, <1>7, LineSent, ServerFrame DEF EndList, ServerStep
    <2>2. ListLines(s2c') /\ (Entries(s2c) => LastLines(s2c'))
      BY <1>2, <2>1, ListAppend DEF Line
    <2> QED
      BY <1>1, <1>2, <2>1, <2>2 DEF ListOK
  <1>8. ~(\/ ReadEndOfStream \/ OpenFile \/ StatFile \/ SendSize \/ SendBlank \/ ReadFile
          \/ (\E k \in 1..Heap : WriteData(k)) \/ WriteFaults \/ BrokenPipe \/ ReadFails)
    BY <1>1, <1>2 DEF ReadEndOfStream, OpenFile, StatFile, SendSize, SendBlank,
       ReadFile, WriteData, WriteFaults, BrokenPipe, ReadFails, ProgOK
  <1>9. CASE ReadList
    <2>1. /\ s2c # <<>> /\ s2c' = Tail(s2c) /\ cpc = "listing"
          /\ Head(s2c).kind \in {"entry", "blank", "ERROR"} /\ ListLines(s2c')
          /\ spc' = spc /\ c2s' = c2s
          /\ answer' = answer \union {Head(s2c).kind}
          /\ cpc' = IF Head(s2c).kind = "ERROR" \/ (Head(s2c).kind = "blank" /\ answer # {})
                    THEN "close" ELSE "listing"
      BY <1>9, ListLineRead, ClientFrame DEF ReadList, ClientStep
    <2>2. CASE cpc' = "close"
      BY <2>1, <2>2 DEF ListOK
    <2>3. CASE cpc' = "listing" /\ spc = "list"
      <3>1. answer \subseteq {"entry"} /\ Entries(s2c)
        BY <1>1, <1>2, <2>1, <2>3 DEF ListOK
      <3>2. Entries(s2c') /\ Head(s2c).kind = "entry"
        BY <1>2, <2>1, <3>1, ListTail
      <3> QED
        BY <2>1, <2>3, <3>1, <3>2 DEF ListOK
    <2>4. CASE cpc' = "listing" /\ spc = "command" /\ ~Pending
      <3>1. answer \subseteq {"entry"} /\ LastLines(s2c)
        BY <1>1, <1>2, <2>1, <2>4 DEF ListOK
      <3>2. CASE Head(s2c).kind = "entry"
        <4>1. LastLines(s2c')
          BY <1>2, <2>1, <3>1, <3>2, ListTail
        <4> QED
          BY <2>1, <2>4, <3>1, <3>2, <4>1 DEF ListOK
      <3>3. CASE Head(s2c).kind # "entry"
        <4>1. s2c' = <<>>
          BY <1>2, <2>1, <3>1, <3>3, ListTail
        <4>2. answer' = {"blank"}
          BY <2>1, <2>4, <3>1, <3>3
        <4> QED
          BY <2>1, <2>4, <4>1, <4>2 DEF ListOK
      <3> QED
        BY <3>2, <3>3
    <2>5. CASE spc \notin {"list", "command"} \/ Pending
      BY <1>2, <2>1, <2>5 DEF ListOK, Pending, CommandOK
    <2> QED
      BY <2>1, <2>2, <2>3, <2>4, <2>5
  <1>10. CASE SendRequest
    <2>1. /\ cpc = "start" /\ cpc' = "listing" /\ spc' = spc /\ s2c' = s2c
          /\ c2s' = IF ServerGone THEN c2s ELSE Append(c2s, "LIST")
      BY <1>1, <1>10, ClientFrame DEF SendRequest, SendCommand, ClientStep
    <2>2. c2s = <<>> /\ spc \in {"command", "dead"}
      BY <1>2, <2>1 DEF CommandOK
    <2>3. spc = "command" => Pending'
      BY <2>1, <2>2, OneCommand DEF Pending, ServerGone
    <2> QED
      BY <1>2, <2>1, <2>2, <2>3 DEF ListOK
  <1>11. CASE SendQuit \/ ListEnds \/ CopyEnds \/ CreateFile
    BY <1>1, <1>2, <1>11 DEF SendQuit, ListEnds, CopyEnds, CreateFile, ListOK
  <1>12. ~(\/ ReadHeader \/ HeaderEnds \/ (\E k \in 1..Chunk : CopyData(k)) \/ CloseClient \/ Interrupt)
    BY <1>1, <1>2 DEF ReadHeader, HeaderEnds, CopyData, CloseClient, Interrupt,
       CloseConnection, ClientOK, ClientGone
  <1>13. CASE KillChild \/ (\E n \in 0..MaxLen : ChangeFile(n))
    BY <1>2, <1>1, <1>13, OutsideFrame DEF ListOK, ProgOK
  <1> QED
    BY <1>3, <1>4, <1>5, <1>6, <1>7, <1>8, <1>9, <1>10, <1>11, <1>12, <1>13
    DEF Next, ServerStep, ClientStep

-----------------------------------------------------------------------------
(***************************************************************************)
(* The theorems.                                                           *)
(***************************************************************************)

LEMMA InvInit ==
  Init => SessionInv
  <1> SUFFICES ASSUME Init PROVE SessionInv
    OBVIOUS
  <1>1. Len(<<>>) = 0 /\ FirstUnits(0) = <<>>
    BY DEF FirstUnits
  <1>2. TypeOK
    BY <1>1, Constants DEF Init, TypeOK, ServerTypes, StreamTypes, ClientTypes,
       SStates, Serving, Sending, CStates, Kinds, Events, Smaller
  <1>3. CommandOK
    BY OneCommand DEF Init, CommandOK, Pending
  <1>4. ServerOK
    BY DEF Init, ServerOK, UntouchedOK, Untouched, PortionOK, ProgOK, NothingRead,
       ReadFailed
  <1>5. KilledOK /\ FileOK /\ ClientOK /\ CopiedOK /\ HeardOK
    BY <1>1 DEF Init, KilledOK, FileOK, ClientOK, CopiedOK, HeardOK, ClientGone,
       ReadFailed
  <1>6. GetOK
    BY DEF Init, GetOK, Unanswered, NothingRead
  <1>7. ListOK
    BY <1>1 DEF Init, ListOK, ListLines
  <1> QED
    BY <1>2, <1>3, <1>4, <1>5, <1>6, <1>7 DEF SessionInv, TypeInv

LEMMA InvNext ==
  SessionInv /\ [Next]_vars => SessionInv'
  <1>1. ASSUME SessionInv, Next PROVE SessionInv'
    <2>1. TypeOK' /\ CommandOK'
      BY <1>1, ServerTypesKept, StreamTypesKept, ClientTypesKept, CommandKept DEF
         TypeOK
    <2>2. ServerOK'
      BY <1>1, UntouchedKept, PortionKept, ProgKept DEF ServerOK, UntouchedOK
    <2>3. KilledOK' /\ FileOK' /\ ClientOK' /\ CopiedOK'
      BY <1>1, KilledKept, FileKept, ClientKept, CopiedKept
    <2>4. GetOK' /\ ListOK' /\ HeardOK'
      BY <1>1, GetKept, ListKept, HeardKept
    <2> QED
      BY <2>1, <2>2, <2>3, <2>4 DEF SessionInv, TypeInv
  <1>2. ASSUME SessionInv, UNCHANGED vars PROVE SessionInv'
    <2>1. /\ TypeOK /\ CommandOK /\ ServerOK /\ KilledOK /\ FileOK /\ ClientOK
          /\ CopiedOK /\ GetOK /\ ListOK /\ HeardOK
      BY <1>2 DEF SessionInv, TypeInv
    <2>2. TypeOK'
      BY <1>2, <2>1 DEF vars, TypeOK, ServerTypes, StreamTypes, ClientTypes,
         ReadFailed, Smaller
    <2>3. CommandOK' /\ KilledOK' /\ FileOK'
      BY <1>2, <2>1 DEF vars, CommandOK, Pending, KilledOK, FileOK, ClientGone
    <2>4. ServerOK'
      BY <1>2, <2>1 DEF vars, ServerOK, UntouchedOK, Before, Pending, Untouched,
         PortionOK, ProgOK, NothingRead, ReadFailed
    <2>5. ClientOK' /\ CopiedOK' /\ HeardOK'
      BY <1>2, <2>1 DEF vars, ClientOK, CopiedOK, HeardOK, Excused, ClientGone,
         CopyBroken, ReadFailed
    <2>6. GetOK'
      <3>1. UNCHANGED <<s2c, answer, totalReadBytes, st_size, offset, readBytes, writeBytes, stray>>
        BY <1>2 DEF vars
      <3>2. ReadFailed' <=> ReadFailed
        BY <1>2 DEF vars, ReadFailed
      <3>3. (Unanswered' <=> Unanswered) /\ (Refused' <=> Refused)
        BY <1>2, <3>1, <3>2, GrantedFrame DEF vars, Unanswered, Refused, Pending
      <3>4. Granted' <=> Granted
        BY <1>2, <3>1, <3>2, GrantedFrame DEF vars, Granted, Pending
      <3> QED
        BY <1>2, <2>1, <3>3, <3>4 DEF vars, GetOK, ClientGone
    <2>7. ListOK'
      BY <1>2, <2>1 DEF vars, ListOK, Pending, ClientGone
    <2> QED
      BY <2>2, <2>3, <2>4, <2>5, <2>6, <2>7 DEF SessionInv, TypeInv
  <1> QED
    BY <1>1, <1>2

\* The invariant holds of every state the session reaches.
THEOREM SessionInvariant ==
  Spec => []SessionInv
  BY InvInit, InvNext, PTL DEF Spec

\* Every variable keeps its type: no portion overruns readBuffer, no count
\* falls below what it counts (server.c:174-187, client.c:150-163).
THEOREM TypeCorrect ==
  Spec => []TypeOK
  <1>1. SessionInv => TypeOK
    BY DEF SessionInv, TypeInv
  <1> QED
    BY <1>1, SessionInvariant, PTL

\* In a GET the stream holds the last lines of the header and then the very
\* data that follow those read, or what the heap held once read() has failed;
\* in a LIST it holds no data at all.
LEMMA StreamIntact ==
  ASSUME SessionInv
  PROVE  NothingLostOrRepeated
  <1> SUFFICES ASSUME ~ClientGone
               PROVE  /\ 0 <= Lines /\ Lines <= Len(s2c)
                      /\ \A i \in 1..Len(s2c) :
                           IF i <= Lines THEN s2c[i].kind # "data"
                           ELSE s2c[i] = Unit(totalReadBytes + i - Lines)
    BY DEF NothingLostOrRepeated
  <1>1. /\ HeaderRead \in 0..3 /\ totalReadBytes \in Nat /\ Consumed \in Nat
        /\ s2c \in Seq(Items) /\ Len(s2c) \in Nat /\ Sent \in Nat /\ Written \in Nat
        /\ Consumed = HeaderRead + totalReadBytes /\ Sent = Consumed + Len(s2c)
        /\ NothingRead => Written = 0
        /\ Lines = Len(s2c) - (Written - totalReadBytes)
    BY Counts, WrittenType DEF Lines, SessionInv
  <1>2. CASE prog = "list"
    <2>1. NothingRead /\ totalReadBytes = 0 /\ ListLines(s2c)
      BY <1>2 DEF SessionInv, TypeInv, ServerOK, ProgOK, ClientOK, ListOK
    <2>2. Lines = Len(s2c)
      BY <1>1, <2>1
    <2>3. \A i \in 1..Len(s2c) : i <= Lines /\ s2c[i].kind # "data"
      BY <1>1, <2>1, <2>2 DEF ListLines
    <2>4. 0 <= Lines /\ Lines <= Len(s2c)
      BY <1>1, <2>2
    <2> QED
      BY <2>3, <2>4, Zenon
  <1>3. CASE prog = "get" /\ (Unanswered \/ Refused)
    <2>1. NothingRead /\ totalReadBytes = 0
      BY <1>3 DEF Unanswered, Refused
    <2>2. Lines = Len(s2c)
      BY <1>1, <2>1
    <2>3. \/ s2c = <<>>
          \/ Len(s2c) = 1 /\ s2c[1] \in {Line("ERROR"), Line("NOT_FOUND")}
      BY <1>3 DEF Unanswered, Refused
    <2>4. \A i \in 1..Len(s2c) : s2c[i].kind # "data"
      BY <2>3, <1>1, EmptySeq DEF Line
    <2>5. \A i \in 1..Len(s2c) : i <= Lines
      BY <1>1, <2>2
    <2>6. 0 <= Lines /\ Lines <= Len(s2c)
      BY <1>1, <2>2
    <2> QED
      BY <2>4, <2>5, <2>6, Zenon
  <1>4. CASE prog = "get" /\ Granted
    <2>1. /\ InOrder(s2c, st_size, Returned, Consumed)
          /\ (Sent \in 1..2 /\ Written = 0) \/ Sent = 3 + Written
          /\ HeaderRead < 3 => totalReadBytes = 0
      BY <1>1, <1>4 DEF Granted, GrantedAnswer
    <2>2. Lines = Sent - Written - HeaderRead
      BY <1>1
    <2>3. 0 <= Lines /\ Lines <= Len(s2c) /\ HeaderRead + Lines \in 0..3
          /\ (Lines > 0 => totalReadBytes = 0)
          /\ (Lines < Len(s2c) => HeaderRead + Lines = 3)
      <3>1. CASE Sent \in 1..2 /\ Written = 0
        <4>1. HeaderRead < 3
          BY <1>1, <3>1
        <4>2. totalReadBytes = 0
          BY <2>1, <4>1
        <4>3. Lines = Sent - HeaderRead /\ Lines = Len(s2c)
          <5>1. Sent \in Nat /\ HeaderRead \in Nat /\ Len(s2c) \in Nat
            BY <1>1
          <5>2. Lines = Len(s2c) - (0 - 0)
            BY <1>1, <3>1, <4>2
          <5> QED
            BY <2>2, <3>1, <5>1, <5>2
        <4>4. 0 <= Lines /\ HeaderRead + Lines = Sent
          BY <1>1, <4>3
        <4> QED
          BY <1>1, <3>1, <4>2, <4>3, <4>4
      <3>2. CASE Sent = 3 + Written
        <4>1. Lines = 3 - HeaderRead
          BY <1>1, <2>2, <3>2
        <4>2. HeaderRead < 3 => Lines = Len(s2c) - Written
          BY <1>1, <2>1
        <4> QED
          BY <1>1, <2>1, <4>1, <4>2, SMTT(30)
      <3> QED
        BY <2>1, <3>1, <3>2
    <2>4. ASSUME NEW i \in 1..Len(s2c)
          PROVE  IF i <= Lines THEN s2c[i].kind # "data"
                 ELSE s2c[i] = Unit(totalReadBytes + i - Lines)
      <3>1. s2c[i] = AnswerItem(st_size, Returned, Consumed + i)
        BY <2>1 DEF InOrder
      <3>2. CASE i <= Lines
        <4>1. Consumed + i \in 1..3
          <5>1. i \in Nat /\ i >= 1 /\ Lines \in Int /\ Lines > 0
            BY <1>1, <3>2
          <5>2. totalReadBytes = 0 /\ HeaderRead + Lines <= 3
            BY <2>3, <5>1
          <5> QED
            BY <1>1, <3>2, <5>1, <5>2
        <4> QED
          BY <3>1, <3>2, <4>1 DEF AnswerItem, Line
      <3>3. CASE ~(i <= Lines)
        <4>1. Consumed + i > 3 /\ Consumed + i - 3 = totalReadBytes + i - Lines
          <5>1. i \in Nat /\ i <= Len(s2c) /\ i > Lines /\ Lines \in Int /\ Lines < Len(s2c)
            BY <1>1, <3>3
          <5>2. HeaderRead + Lines = 3
            BY <2>3, <5>1
          <5>3. /\ HeaderRead \in Int /\ totalReadBytes \in Int
                /\ Consumed = HeaderRead + totalReadBytes
            BY <1>1
          <5>4. HeaderRead + i > 3 /\ HeaderRead - 3 = -Lines
            BY <5>1, <5>2, <5>3
          <5>5. Consumed + i > 3
            BY <1>1, <5>1, <5>3, <5>4
          <5>6. Consumed + i - 3 = totalReadBytes + i - Lines
            BY <5>1, <5>2, <5>3
          <5> QED
            BY <5>5, <5>6
        <4>2. Consumed + i - 3 <= Written
          <5>1. /\ HeaderRead + Lines = 3 /\ Lines = Len(s2c) - (Written - totalReadBytes)
                /\ i <= Len(s2c) /\ i \in Nat
            <6>1. i \in Nat /\ i <= Len(s2c) /\ Lines \in Int /\ Lines < Len(s2c)
              BY <1>1, <3>3
            <6> QED
              BY <1>1, <2>3, <6>1
          <5>2. Written = HeaderRead + Len(s2c) + totalReadBytes - 3
            BY <1>1, <5>1
          <5> QED
            BY <1>1, <5>1, <5>2
        <4>3. AnswerItem(st_size, Returned, Consumed + i) = Unit(Consumed + i - 3)
          <5>1. /\ Consumed + i - 3 \in Nat /\ offset \in Nat
                /\ ReadFailed => Returned = offset
                /\ ~ReadFailed => Consumed + i - 3 <= Returned
            BY <1>1, <4>1, <4>2, Counts
          <5>2. AnswerItem(st_size, Returned, Consumed + i) =
                  IF Consumed + i - 3 > Returned THEN Foreign ELSE Data(Consumed + i - 3)
            BY <1>1, <4>1 DEF AnswerItem
          <5> QED
            BY <5>1, <5>2, Counts DEF Unit
        <4> QED
          BY <3>1, <3>3, <4>1, <4>3
      <3> QED
        BY <3>2, <3>3
    <2> QED
      BY <2>3, <2>4
  <1> QED
    BY <1>2, <1>3, <1>4 DEF SessionInv, GetOK, TypeInv, TypeOK, ClientTypes

\* What is under way to the client is some lines and then the very units that
\* follow those it has read, each once and in order, whatever portions write()
\* and read() take; what a failed read puts on the connection comes behind all
\* that read() returned (server.c:182-187, client.c:155-163).
THEOREM StreamCorrect ==
  Spec => []NothingLostOrRepeated
  BY StreamIntact, SessionInvariant, PTL

\* A copy that came to its end is exactly the file announced, unless that
\* grew, is longer than a u_int says, could not be read or the local disk
\* refused data (client.c:146-163, server.c:182).
THEOREM CopyCorrect ==
  Spec => []ExactCopy
  <1>1. ASSUME SessionInv
        PROVE  ExactCopy
    <2>1. st_size < SizeMod \/ st_size >= SizeMod
      BY <1>1, Counts, Constants
    <2>2. /\ CopiedOK
          /\ "disk_full" \notin events /\ ~ReadFailed =>
               local = FirstUnits(totalReadBytes)
      BY <1>1 DEF SessionInv, ClientOK, CopyBroken
    <2> QED
      BY <2>1, <2>2 DEF CopiedOK, ExactCopy
  <1> QED
    BY <1>1, SessionInvariant, PTL

\* The child of a client that copied a whole file reads its QUIT, unless it
\* was killed, the client interrupted, the file too long or growing, or its
\* read failed (server.c:92-122 and 182, client.c:118).
THEOREM QuitCorrect ==
  Spec => []QuitIsHeard
  <1>1. SessionInv => QuitIsHeard
    BY DEF SessionInv, HeardOK, QuitIsHeard, Excused
  <1> QED
    BY <1>1, SessionInvariant, PTL

\* The child never waits for a command of a client that waits for its data,
\* the two known cases apart (server.c:140 and 176, client.c:70).
THEOREM NoMutualWaitCorrect ==
  Spec => []NoMutualWait
  <1>1. ASSUME SessionInv, ServerWaits, ClientWaits
        PROVE  ReadEmptyList \/ "shrank" \in events
    <2>1. /\ spc = "command" /\ c2s = <<>> /\ s2c = <<>> /\ ~ClientGone /\ ~Pending
          /\ cpc \in {"header", "listing"} \/ (cpc = "copy" /\ totalReadBytes < size)
      BY <1>1, OneCommand DEF ServerWaits, ClientWaits, ClientGone, Pending
    <2>2. CASE cpc = "listing"
      <3>1. s2c = <<>> /\ answer = {"blank"}
        BY <1>1, <2>1, <2>2 DEF SessionInv, ClientOK, ListOK, LastLines
      <3> QED
        BY <2>2, <3>1 DEF ReadEmptyList
    <2>3. CASE cpc = "header"
      <3>1. Granted
        BY <1>1, <2>1, <2>3, OneCommand DEF SessionInv, ClientOK, GetOK,
           Unanswered, Refused
      <3>2. HeaderRead < 3 /\ Sent = 3 + Written /\ totalReadBytes = 0
        BY <2>1, <2>3, <3>1 DEF Granted
      <3>3. Sent = HeaderRead
        BY <1>1, <2>1, <3>2, Counts, EmptySeq
      <3> QED
        BY <1>1, <3>2, <3>3, Counts
    <2>4. CASE cpc = "copy" /\ totalReadBytes < size
      <3>1. totalReadBytes = Written /\ Written \in Nat
        BY <1>1, <2>1, <2>4, CopyCount, EmptySeq DEF Granted
      <3>2. writeBytes = readBytes /\ ("shrank" \in events \/ st_size <= offset)
        BY <1>1, <2>1, <2>4, CopyCount DEF Granted
      <3>3. Written = offset
        <4>1. ~ReadFailed
          BY <1>1, <2>1, WrittenType DEF SessionInv
        <4> QED
          BY <1>1, <3>2, <4>1, Counts
      <3>4. size <= st_size /\ size \in Nat
        <4>1. size = st_size % SizeMod /\ st_size \in Nat
          BY <1>1, <2>4, Counts DEF SessionInv, ClientOK
        <4> QED
          BY <4>1, Constants
      <3> QED
        BY <1>1, <2>4, <3>1, <3>2, <3>3, <3>4, Counts
    <2> QED
      BY <2>1, <2>2, <2>3, <2>4
  <1>2. SessionInv => NoMutualWait
    BY <1>1 DEF NoMutualWait
  <1> QED
    BY <1>2, SessionInvariant, PTL

-----------------------------------------------------------------------------
(***************************************************************************)
(* The session implements FileCopy: every step of it extends the file,     *)
(* does what FileCopy lets the copy do, or changes nothing the user sees.  *)
(***************************************************************************)

\* What the user sees of a copy that is not broken, by what happened and where
\* the client is.
StatusOf(ev, c) ==
  IF "copied" \in ev THEN "complete"
  ELSE IF c \in {"start", "header", "listing", "create"} THEN "waiting"
  ELSE IF c = "copy" THEN "receiving" ELSE "failed"

LEMMA StatusIs ==
  /\ CopyStatus = IF CopyBroken THEN "broken" ELSE StatusOf(events, cpc)
  /\ CopyStatus' = IF CopyBroken' THEN "broken" ELSE StatusOf(events', cpc')
  BY DEF CopyStatus, StatusOf

LEMMA StatusSeen ==
  ASSUME SessionInv
  PROVE  /\ cpc \in {"start", "header", "listing", "create"} =>
              /\ CopyStatus = "waiting" /\ Announced = 0 /\ local = <<>>
              /\ ~CopyBroken /\ "copied" \notin events
         /\ cpc = "copy" =>
              /\ CopyStatus = IF CopyBroken THEN "broken" ELSE "receiving"
              /\ Announced = size /\ "copied" \notin events
  <1>1. ClientOK /\ FirstUnits(0) = <<>> /\ offset \in Nat
    BY WrittenType DEF SessionInv, FirstUnits
  <1>2. CASE cpc \in {"start", "header", "listing", "create"}
    <2>1. /\ "disk_full" \notin events /\ "copied" \notin events /\ totalReadBytes = 0
          /\ Len(local) = 0 /\ ~CopyBroken /\ local = <<>>
      BY <1>1, <1>2 DEF ClientOK, CopyBroken
    <2>2. CopyStatus = "waiting"
      BY <1>2, <2>1, StatusIs DEF StatusOf
    <2> QED
      BY <1>2, <2>1, <2>2 DEF Announced
  <1>3. CASE cpc = "copy"
    <2>1. "copied" \notin events
      BY <1>1, <1>3 DEF ClientOK
    <2>2. CopyStatus = IF CopyBroken THEN "broken" ELSE "receiving"
      BY <1>3, <2>1, StatusIs DEF StatusOf
    <2> QED
      BY <1>3, <2>1, <2>2 DEF Announced
  <1> QED
    BY <1>2, <1>3

\* The length announced to the user, as it is after a step.
LEMMA AnnouncedThen ==
  Announced' = IF CopyStatus' \in {"waiting", "failed"} THEN 0 ELSE size'
  BY DEF Announced

LEMMA ExtentType ==
  ASSUME SessionInv
  PROVE  Extent \in 0..MaxLen /\ offset <= Extent /\ st_size <= Extent
  BY Constants DEF SessionInv, TypeInv, TypeOK, ServerTypes, Extent

\* The child extends what is known of the file, or nothing is seen.
LEMMA ServerCopies ==
  ASSUME SessionInv, ServerStep
  PROVE  (\E n \in 0..MaxLen : Copy!Extend(n)) \/ UNCHANGED Copy!vars
  <1>1. CopyStatus' = CopyStatus /\ Announced' = Announced /\ local' = local
    <2>1. CopyBroken' <=> CopyBroken
      BY ServerFrame, FailureFrame, BrokenKept DEF Next
    <2>2. CopyStatus' = CopyStatus
      BY <2>1, ServerFrame, StatusIs
    <2> QED
      BY <2>2, ServerFrame DEF Announced
  <1>2. ServerTypes /\ PortionOK /\ UntouchedOK /\ Extent \in 0..MaxLen
        /\ offset \in Nat /\ st_size \in Nat /\ MaxLen \in Nat
    BY ExtentType, Constants DEF SessionInv, TypeInv, TypeOK, ServerOK, ServerTypes
  <1>3. (st_size' = st_size /\ offset' = offset) \/ OpenFile \/ StatFile \/ ReadFile
    BY CommandRead DEF ServerStep, ReadEndOfStream, AnswerLine,
       SendSize, SendBlank, WriteData, WriteFaults, OpenDirectory, SendEntry, EndList,
       BrokenPipe, transfer
  <1>4. Extent' >= Extent /\ Extent' \in 0..MaxLen
    <2>1. CASE st_size' = st_size /\ offset' = offset
      BY <1>2, <2>1 DEF Extent
    <2>2. CASE OpenFile
      <3>1. offset = 0 /\ offset' = 0 /\ st_size' = st_size
        BY <1>2, <2>2 DEF OpenFile, UntouchedOK, Before, Untouched, NothingRead
      <3> QED
        BY <1>2, <3>1 DEF Extent
    <2>3. CASE StatFile
      BY <1>2, <2>3 DEF StatFile, Extent, PortionOK, NothingRead, ServerTypes
    <2>4. CASE ReadFile
      <3>1. offset' >= offset /\ offset' \in 0..MaxLen /\ st_size' = st_size
        BY <1>2, <2>4, FileRead
      <3> QED
        BY <1>2, <3>1 DEF Extent, ServerTypes
    <2> QED
      BY <1>3, <2>1, <2>2, <2>3, <2>4
  <1>5. CASE Extent' = Extent
    BY <1>1, <1>5 DEF Copy!vars
  <1>6. CASE Extent' > Extent
    BY <1>1, <1>4, <1>6 DEF Copy!Extend
  <1> QED
    BY <1>2, <1>4, <1>5, <1>6

\* What the client has received stays; as long as the copy is not broken it
\* is the first units of the file.
LEMMA CopyReceived ==
  ASSUME SessionInv, SessionInv', NEW k \in 1..Chunk, CopyData(k)
  PROVE  /\ CopyBroken => CopyBroken'
         /\ Len(local') >= Len(local) /\ \A i \in 1..Len(local) : local'[i] = local[i]
         /\ ~CopyBroken' =>
              /\ Len(local) = totalReadBytes /\ totalReadBytes \in Nat
              /\ local' = FirstUnits(totalReadBytes + k)
              /\ totalReadBytes + k <= offset /\ totalReadBytes + k \in 0..MaxLen
  <1>1. /\ ClientOK /\ ClientOK' /\ local \in Seq(Nat) /\ local' \in Seq(Nat)
        /\ totalReadBytes \in Nat /\ k \in Nat /\ totalReadBytes' = totalReadBytes + k
        /\ offset' = offset /\ offset \in Nat /\ offset <= MaxLen /\ MaxLen \in Nat
        /\ (ReadFailed' <=> ReadFailed) /\ s2c \in Seq(Items) /\ k \in 1..Len(s2c)
        /\ Len(s2c) \in Nat
    BY DataRead, ClientFrame, WrittenType, Constants DEF SessionInv, TypeInv, TypeOK,
       ClientTypes, ClientStep
  <1>2. /\ Len(local) \in Nat /\ Len(local') \in Nat /\ Len(local') >= Len(local)
        /\ \A i \in 1..Len(local) : local'[i] = local[i]
    <2>1. CASE local' = local
      BY <1>1, <2>1, LenProperties
    <2>2. CASE local' = local \o [i \in 1..k |-> s2c[i].n]
      <3> DEFINE q == [i \in 1..k |-> s2c[i].n]
      <3>1. q \in Seq(Nat)
        <4>1. \A i \in 1..k : i \in 1..Len(s2c)
          BY <1>1
        <4>2. \A i \in 1..k : s2c[i] \in Items
          BY <1>1, <4>1, ElementOfSeq
        <4>3. q \in [1..k -> Nat]
          BY <4>2 DEF Items
        <4> QED
          BY <1>1, <4>3, SeqOfLength, Zenon
      <3> HIDE DEF q
      <3>2. /\ Len(local \o q) = Len(local) + Len(q)
            /\ \A i \in 1..Len(local) : (local \o q)[i] = local[i]
        BY <1>1, <3>1, ConcatProperties, LenProperties
      <3>3. local' = local \o q
        BY <2>2 DEF q
      <3> QED
        BY <1>1, <3>1, <3>2, <3>3, LenProperties
    <2> QED
      BY <2>1, <2>2 DEF CopyData
  <1>3. CopyBroken => CopyBroken'
    BY <1>1, <1>2 DEF CopyBroken, CopyData
  <1>4. ASSUME ~CopyBroken'
        PROVE  /\ Len(local) = totalReadBytes /\ local' = FirstUnits(totalReadBytes + k)
               /\ totalReadBytes + k <= offset
    <2>1. "disk_full" \notin events' /\ "disk_full" \notin events /\ ~CopyBroken
      BY <1>3, <1>4 DEF CopyBroken
    <2>2. Len(local) = totalReadBytes /\ Len(local') = totalReadBytes + k
      BY <1>1, <2>1 DEF ClientOK
    <2>3. local' = FirstUnits(totalReadBytes + k)
      <3>1. local' = FirstUnits(totalReadBytes')
        BY <1>1, <1>4 DEF ClientOK
      <3> QED
        BY <1>1, <3>1
    <2>4. totalReadBytes + k <= offset
      <3>1. CASE ReadFailed
        BY <1>1, <1>2, <1>4, <2>2, <3>1 DEF CopyBroken
      <3>2. CASE ~ReadFailed
        BY <1>1, <3>2 DEF ClientOK
      <3> QED
        BY <3>1, <3>2
    <2> QED
      BY <2>2, <2>3, <2>4
  <1>5. totalReadBytes + k <= offset => totalReadBytes + k \in 0..MaxLen
    BY <1>1
  <1> QED
    BY <1>1, <1>2, <1>3, <1>4, <1>5

\* A step of the client that receives nothing breaks no copy.
LEMMA StillWhole ==
  ASSUME SessionInv,
         \/ SendRequest \/ ReadHeader \/ HeaderEnds \/ CreateFile \/ CopyEnds \/ SendQuit
         \/ ReadList \/ ListEnds \/ CloseClient \/ Interrupt
  PROVE  CopyBroken' <=> CopyBroken
  <1>1. ClientStep \/ Interrupt
    BY DEF ClientStep
  <1>2. local' = local /\ ("disk_full" \in events' <=> "disk_full" \in events)
    BY DEF SendRequest, ReadHeader, HeaderEnds, CreateFile, CopyEnds, SendQuit, ReadList,
       ListEnds, CloseClient, Interrupt, CloseConnection
  <1> QED
    BY <1>1, <1>2, ClientFrame DEF CopyBroken

\* The client accepts the answer, receives, completes or gives up.
LEMMA ClientCopies ==
  ASSUME SessionInv, SessionInv', ClientStep \/ Interrupt
  PROVE  [Copy!Next]_(Copy!vars)
  <1>1. Extent' = Extent /\ Extent \in 0..MaxLen /\ offset <= Extent /\ st_size <= Extent
    BY ClientFrame, ExtentType DEF Extent
  <1>2. ClientTypes /\ cpc \in CStates /\ ClientOK
    BY DEF SessionInv, TypeInv, TypeOK, ClientTypes
  <1>3. CASE SendRequest \/ ReadHeader \/ HeaderEnds \/ ReadList \/ ListEnds
    <2>1. /\ cpc \in {"start", "header", "listing"} /\ local' = local /\ events' = events
      BY <1>3 DEF SendRequest, ReadHeader, HeaderEnds, ReadList, ListEnds
    <2>2. /\ CopyStatus = "waiting" /\ Announced = 0
          /\ ~CopyBroken /\ "copied" \notin events
      BY <2>1, StatusSeen
    <2>3. cpc' \in {"header", "listing", "create", "quit", "close", "crashed"}
      BY <1>3, HeaderLineRead, HeaderEndsTo DEF SendRequest, ReadList, ListEnds
    <2>7. ~CopyBroken'
      BY <1>3, <2>1, <2>2, StillWhole
    <2>4. CopyStatus' \in {"waiting", "failed"} /\ Announced' = 0
      BY <2>1, <2>2, <2>3, <2>7, StatusIs, AnnouncedThen DEF StatusOf
    <2>5. CASE CopyStatus' = "waiting"
      BY <1>1, <2>1, <2>2, <2>4, <2>5 DEF Copy!vars
    <2>6. CASE CopyStatus' = "failed"
      BY <1>1, <2>1, <2>2, <2>4, <2>6 DEF Copy!Next, Copy!GiveUp
    <2> QED
      BY <2>4, <2>5, <2>6
  <1>4. CASE CreateFile
    <2>1. /\ cpc = "create" /\ cpc' \in {"copy", "quit"} /\ local' = local /\ events' = events
          /\ size' = size
      BY <1>4 DEF CreateFile
    <2>2. /\ CopyStatus = "waiting" /\ Announced = 0 /\ local = <<>>
          /\ ~CopyBroken /\ "copied" \notin events
      BY <2>1, StatusSeen
    <2>5. ~CopyBroken'
      BY <1>4, <2>1, <2>2, StillWhole
    <2>3. CASE cpc' = "copy"
      <3>1. CopyStatus' = "receiving" /\ Announced' = size
        BY <2>1, <2>2, <2>3, <2>5, StatusIs, AnnouncedThen DEF StatusOf
      <3>2. size \in 0..MaxLen /\ size <= Extent
        <4>1. size = st_size % SizeMod /\ st_size \in Nat /\ st_size <= MaxLen
          <5>1. size = st_size % SizeMod
            BY <1>2, <2>1 DEF ClientOK
          <5>2. st_size \in 0..MaxLen
            BY DEF SessionInv, TypeInv, TypeOK, ServerTypes
          <5> QED
            BY <5>1, <5>2, Constants
        <4>2. size \in Nat /\ size <= st_size
          BY <4>1, Constants
        <4> QED
          BY <1>1, <4>1, <4>2, Constants
      <3> QED
        BY <1>1, <2>1, <2>2, <3>1, <3>2 DEF Copy!Next, Copy!Accept
    <2>4. CASE cpc' = "quit"
      <3>1. CopyStatus' = "failed" /\ Announced' = 0
        BY <2>1, <2>2, <2>4, <2>5, StatusIs, AnnouncedThen DEF StatusOf
      <3> QED
        BY <1>1, <2>1, <2>2, <3>1 DEF Copy!Next, Copy!GiveUp
    <2> QED
      BY <2>1, <2>3, <2>4
  <1>5. ASSUME NEW k \in 1..Chunk, CopyData(k)
        PROVE  Copy!Next
    <2>1. /\ cpc = "copy" /\ cpc' = "copy" /\ size' = size /\ totalReadBytes < size
          /\ "copied" \in events' <=> "copied" \in events
      BY <1>5 DEF CopyData
    <2>2. /\ CopyStatus = IF CopyBroken THEN "broken" ELSE "receiving"
          /\ Announced = size /\ "copied" \notin events
      BY <2>1, StatusSeen
    <2>3. /\ CopyStatus' = IF CopyBroken' THEN "broken" ELSE "receiving"
          /\ Announced' = size
      <3>1. CopyStatus' = IF CopyBroken' THEN "broken" ELSE "receiving"
        BY <2>1, <2>2, StatusIs DEF StatusOf
      <3> QED
        BY <2>1, <3>1, AnnouncedThen
    <2>4. CASE CopyBroken'
      <3>1. Len(local') >= Len(local) /\ \A i \in 1..Len(local) : local'[i] = local[i]
        BY <1>5, CopyReceived
      <3> QED
        BY <1>1, <2>2, <2>3, <2>4, <3>1 DEF Copy!Next, Copy!DiskFault
    <2>5. CASE ~CopyBroken'
      <3>1. /\ Len(local) = totalReadBytes /\ totalReadBytes \in Nat /\ ~CopyBroken
            /\ local' = FirstUnits(totalReadBytes + k)
            /\ totalReadBytes + k <= offset /\ totalReadBytes + k \in 0..MaxLen
        BY <1>5, <2>5, CopyReceived
      <3>2. offset \in Nat /\ Extent \in Nat /\ totalReadBytes + k <= Extent
        BY <1>1, <3>1, WrittenType, Constants DEF SessionInv
      <3>3. local' = Copy!FirstUnits(totalReadBytes + k)
        BY <3>1 DEF Copy!FirstUnits, FirstUnits
      <3>4. /\ Len(local) < Announced /\ totalReadBytes + k > Len(local)
            /\ CopyStatus = "receiving" /\ CopyStatus' = "receiving" /\ Announced' = Announced
        BY <2>1, <2>2, <2>3, <2>5, <3>1
      <3>5. Copy!Receive(totalReadBytes + k)
        BY <1>1, <3>2, <3>3, <3>4 DEF Copy!Receive
      <3> QED
        BY <3>1, <3>5 DEF Copy!Next
    <2> QED
      BY <2>4, <2>5
  <1>6. CASE CopyEnds
    <2>1. /\ cpc = "copy" /\ cpc' = "quit" /\ size' = size /\ totalReadBytes >= size
          /\ local' = local /\ events' = events \union {"copied"}
      BY <1>6 DEF CopyEnds
    <2>2. /\ CopyStatus = IF CopyBroken THEN "broken" ELSE "receiving"
          /\ Announced = size
      BY <2>1, StatusSeen
    <2>3. /\ CopyStatus' = IF CopyBroken THEN "broken" ELSE "complete"
          /\ Announced' = size
      <3>1. "copied" \in events' /\ (CopyBroken' <=> CopyBroken)
        BY <1>6, <2>1, StillWhole
      <3>2. CopyStatus' = IF CopyBroken THEN "broken" ELSE "complete"
        BY <3>1, StatusIs DEF StatusOf
      <3> QED
        BY <2>1, <3>2, AnnouncedThen
    <2>4. CASE CopyBroken
      BY <1>1, <2>1, <2>2, <2>3, <2>4 DEF Copy!vars
    <2>5. CASE ~CopyBroken
      <3>1. Len(local) = totalReadBytes
        BY <1>2, <2>5 DEF ClientOK, CopyBroken
      <3> QED
        BY <1>1, <2>1, <2>2, <2>3, <2>5, <3>1 DEF Copy!Next, Copy!Complete
    <2> QED
      BY <2>4, <2>5
  <1>7. CASE SendQuit \/ CloseClient
    <2>1. /\ cpc \in {"quit", "close"} /\ cpc' \in {"close", "closed"} /\ size' = size
          /\ local' = local /\ events' = events
      BY <1>7 DEF SendQuit, CloseClient, CloseConnection
    <2>2. CopyStatus' = CopyStatus /\ Announced' = Announced
      <3>1. CopyStatus' = CopyStatus
        BY <1>7, <2>1, StillWhole, StatusIs DEF StatusOf
      <3> QED
        BY <2>1, <3>1 DEF Announced
    <2> QED
      BY <1>1, <2>1, <2>2 DEF Copy!vars
  <1>8. CASE Interrupt
    <2>1. /\ cpc' = "closed" /\ size' = size /\ local' = local
          /\ events' = events \union {"interrupted"}
      BY <1>8 DEF Interrupt, CloseConnection
    <2>4. CopyBroken' <=> CopyBroken
      BY <1>8, <2>1, StillWhole
    <2>2. CASE CopyBroken \/ "copied" \in events
                 \/ cpc \in {"quit", "close", "closed", "crashed"}
      <3>1. CopyStatus' = CopyStatus /\ Announced' = Announced
        <4>1. CopyStatus' = CopyStatus
          BY <2>1, <2>2, <2>4, StatusIs DEF StatusOf
        <4> QED
          BY <2>1, <4>1 DEF Announced
      <3> QED
        BY <1>1, <2>1, <3>1 DEF Copy!vars
    <2>3. CASE ~CopyBroken /\ "copied" \notin events
                 /\ cpc \in {"start", "header", "listing", "create", "copy"}
      <3>1. CopyStatus \in {"waiting", "receiving"} /\ CopyStatus' = "failed" /\ Announced' = 0
        BY <2>1, <2>3, <2>4, StatusIs, AnnouncedThen DEF StatusOf
      <3> QED
        BY <1>1, <2>1, <3>1 DEF Copy!Next, Copy!GiveUp
    <2> QED
      BY <1>2, <2>2, <2>3 DEF CStates
  <1> QED
    BY <1>3, <1>4, <1>5, <1>6, <1>7, <1>8 DEF ClientStep

\* A GET delivers what FileCopy promises, for every interleaving of the two
\* programs and every change to the file meanwhile (server.c:126-190,
\* client.c:85-170).
THEOREM CopyImplemented ==
  Spec => ImplementsFileCopy
  <1>1. Init => Copy!Init
    BY Constants DEF Init, Copy!Init, CopyStatus, CopyBroken, ReadFailed, Announced, Extent
  <1>2. ASSUME SessionInv, SessionInv', [Next]_vars
        PROVE  [Copy!Next]_(Copy!vars)
    <2>1. CASE ServerStep
      BY <1>2, <2>1, ServerCopies DEF Copy!Next
    <2>2. CASE ClientStep \/ Interrupt
      BY <1>2, <2>2, ClientCopies
    <2>3. CASE KillChild \/ ReadFails \/ (\E n \in 0..MaxLen : ChangeFile(n))
      <3>1. /\ UNCHANGED <<cpc, size, totalReadBytes, local, st_size, offset>>
            /\ "disk_full" \in events' <=> "disk_full" \in events
            /\ "copied" \in events' <=> "copied" \in events
        BY <1>2, <2>3, OutsideFrame, FailureFrame
      <3>2. CopyBroken' <=> CopyBroken
        <4>1. ReadFails => totalReadBytes <= offset
          BY <1>2, FailureFrame DEF SessionInv, ClientOK
        <4> QED
          BY <1>2, <2>3, <3>1, <4>1, BrokenKept DEF Next
      <3>3. CopyStatus' = CopyStatus
        BY <3>1, <3>2, StatusIs DEF StatusOf
      <3> QED
        BY <3>1, <3>3 DEF Copy!vars, Announced, Extent
    <2>4. CASE UNCHANGED vars
      BY <2>4 DEF vars, Copy!vars, CopyStatus, CopyBroken, ReadFailed, Announced, Extent
    <2> QED
      BY <1>2, <2>1, <2>2, <2>3, <2>4 DEF Next
  <1> QED
    BY <1>1, <1>2, SessionInvariant, PTL DEF Spec, ImplementsFileCopy, Copy!Spec

-----------------------------------------------------------------------------
(***************************************************************************)
(* The session implements ServerSession.                                   *)
(***************************************************************************)

\* What ServerSession sees of the client, of the child and of the stream
\* between them.
ClientIs(c) ==
  IF c = "start" THEN "connected"
  ELSE IF c \in {"header", "listing", "create", "copy"} THEN "waiting"
  ELSE IF c \in {"quit", "close"} THEN "answered" ELSE "gone"

ChildIs(s, ev) ==
  IF s \notin {"done", "dead"} THEN "serving"
  ELSE IF "killed" \in ev THEN "killed" ELSE "ended"

InputIs(q) ==
  IF q = <<>> THEN "none" ELSE IF Head(q) = "QUIT" THEN "QUIT" ELSE "request"

LEMMA SidesAre ==
  /\ ClientStatus = ClientIs(cpc) /\ ClientStatus' = ClientIs(cpc')
  /\ ChildStatus = ChildIs(spc, events) /\ ChildStatus' = ChildIs(spc', events')
  /\ Input = InputIs(c2s) /\ Input' = InputIs(c2s')
  BY DEF ClientStatus, ClientIs, ChildStatus, ChildIs, Input, InputIs, ServerGone

\* What is seen of the streams there are.
LEMMA InputSeen ==
  /\ InputIs(<<>>) = "none"
  /\ InputIs(<<"QUIT">>) = "QUIT"
  /\ \A q \in {<<"GET">>, <<"GET_no_name">>, <<"LIST">>} : InputIs(q) = "request"
  <1>1. /\ <<"QUIT">> # <<>> /\ Head(<<"QUIT">>) = "QUIT"
        /\ \A q \in {<<"GET">>, <<"GET_no_name">>, <<"LIST">>} :
             q # <<>> /\ Head(q) # "QUIT"
    OBVIOUS
  <1> QED
    BY <1>1 DEF InputIs

\* A client that has read of its answer, or knows the end of the stream, has
\* no request under way to a child that is still there.
LEMMA RequestRead ==
  ASSUME SessionInv,
         \/ ReadHeader \/ ReadList \/ HeaderEnds \/ ListEnds \/ CreateFile \/ CopyEnds
         \/ \E k \in 1..Chunk : CopyData(k)
  PROVE  c2s = <<>> \/ ServerGone
  <1>1. CommandOK /\ ServerOK /\ ClientOK
    BY DEF SessionInv, TypeInv
  <1>2. c2s # <<"QUIT">>
    BY <1>1 DEF CommandOK, ReadHeader, ReadList, HeaderEnds, ListEnds, CreateFile,
       CopyEnds, CopyData
  <1>3. CASE ReadHeader \/ ReadList
    BY <1>1, <1>2, <1>3 DEF CommandOK, ServerOK, UntouchedOK, Before, Untouched,
       ReadHeader, ReadList
  <1>4. CASE HeaderEnds \/ ListEnds
    BY <1>4 DEF HeaderEnds, ListEnds
  <1>5. CASE CreateFile \/ CopyEnds \/ \E k \in 1..Chunk : CopyData(k)
    <2>1. "size" \in answer
      BY <1>1, <1>5 DEF ClientOK, CreateFile, CopyData, CopyEnds
    <2> QED
      BY <1>1, <1>2, <2>1 DEF CommandOK, ServerOK, UntouchedOK, Before, Untouched
  <1> QED
    BY <1>3, <1>4, <1>5

\* The child reads its request, ends the service, or nothing is seen.
LEMMA ServerServes ==
  ASSUME SessionInv, ServerStep
  PROVE  [Session!Next]_(Session!vars)
  <1>1. ClientStatus' = ClientStatus /\ "killed" \notin events /\ events' = events
    BY ServerFrame, SidesAre DEF SessionInv, KilledOK, Serving, Sending
  <1>2. ChildStatus = "serving"
    BY ServerFrame, SidesAre DEF ChildIs, Serving, Sending
  <1>3. CASE ReadCommand
    <2>1. /\ c2s' = <<>>
          /\ \/ Pending /\ spc' \in {"opendir", "open", "noname"}
             \/ c2s = <<"QUIT">> /\ spc' = "done"
      BY <1>3, CommandRead
    <2>2. Input' = "none"
      BY <2>1, SidesAre, InputSeen
    <2>3. CASE Pending /\ spc' \in {"opendir", "open", "noname"}
      <3>1. Input = "request" /\ ChildStatus' = "serving"
        BY <2>3, SidesAre, InputSeen DEF Pending, ChildIs
      <3> QED
        BY <1>1, <1>2, <2>2, <3>1 DEF Session!Next, Session!ReadRequest
    <2>4. CASE c2s = <<"QUIT">> /\ spc' = "done"
      <3>1. Input = "QUIT" /\ ChildStatus' = "ended"
        BY <1>1, <2>4, SidesAre, InputSeen DEF ChildIs
      <3> QED
        BY <1>1, <1>2, <2>2, <3>1 DEF Session!Next, Session!EndService
    <2> QED
      BY <2>1, <2>3, <2>4
  <1>4. CASE ReadEndOfStream \/ BrokenPipe
    <2>1. ClientGone /\ spc' = "dead" /\ c2s' = c2s
      BY <1>4 DEF ReadEndOfStream, BrokenPipe
    <2>2. ClientStatus = "gone" /\ ChildStatus' = "ended" /\ Input' = Input
      BY <1>1, <2>1, SidesAre DEF ClientGone, ClientIs, ChildIs
    <2> QED
      BY <1>1, <1>2, <2>2 DEF Session!Next, Session!EndService
  <1>5. CASE \/ OpenFile \/ AnswerLine \/ StatFile \/ SendSize \/ SendBlank
             \/ ReadFile \/ (\E k \in 1..Heap : WriteData(k)) \/ WriteFaults
             \/ OpenDirectory \/ SendEntry \/ EndList
    <2>1. c2s' = c2s /\ spc' \notin {"done", "dead"}
      BY <1>5 DEF OpenFile, AnswerLine, StatFile, SendSize, SendBlank, ReadFile,
         WriteData, WriteFaults, OpenDirectory, SendEntry, EndList
    <2>2. ChildStatus' = "serving" /\ Input' = Input
      BY <2>1, SidesAre DEF ChildIs
    <2> QED
      BY <1>1, <1>2, <2>2 DEF Session!vars
  <1> QED
    BY <1>3, <1>4, <1>5 DEF ServerStep

\* The client asks, gets its answer, says QUIT, leaves, or nothing is seen.
LEMMA ClientServed ==
  ASSUME SessionInv, ClientStep \/ Interrupt
  PROVE  [Session!Next]_(Session!vars)
  <1>1. CommandOK /\ ClientOK /\ spc' = spc /\ ~ClientGone
    BY ClientFrame DEF SessionInv, TypeInv
  <1>2. "killed" \in events' <=> "killed" \in events
    <2>1. \/ events' = events \/ events' = events \union {"disk_full"}
          \/ events' = events \union {"copied"}
          \/ events' = events \union {"interrupted"}
      BY DEF ClientStep, SendRequest, ReadHeader, HeaderEnds, CreateFile, CopyData,
         CopyEnds, SendQuit, ReadList, ListEnds, CloseClient, Interrupt
    <2> QED
      BY <2>1
  <1>3. ChildStatus' = ChildStatus
    BY <1>1, <1>2, SidesAre DEF ChildIs
  <1>4. Session!Over <=> ServerGone
    BY SidesAre DEF Session!Over, ChildIs, ServerGone
  <1>5. CASE SendRequest
    <2>1. /\ cpc = "start" /\ cpc' \in {"header", "listing"} /\ c2s = <<>>
          /\ \/ ServerGone /\ c2s' = c2s
             \/ c2s' \in {<<"GET">>, <<"GET_no_name">>, <<"LIST">>}
      BY <1>1, <1>5, OneCommand DEF SendRequest, SendCommand, CommandOK
    <2>2. ClientStatus = "connected" /\ ClientStatus' = "waiting"
      BY <2>1, SidesAre DEF ClientIs
    <2>3. (Session!Over /\ Input' = Input) \/ Input' = "request"
      BY <1>4, <2>1, SidesAre, InputSeen
    <2> QED
      BY <1>3, <2>2, <2>3 DEF Session!Next, Session!Ask
  <1>6. CASE \/ ReadHeader \/ ReadList \/ HeaderEnds \/ ListEnds \/ CreateFile
             \/ CopyEnds \/ (\E k \in 1..Chunk : CopyData(k))
    <2>1. /\ cpc \in {"header", "listing", "create", "copy"} /\ c2s' = c2s
          /\ cpc' \in {"header", "listing", "create", "copy", "quit", "close", "crashed"}
      <3>1. HeaderEnds => cpc' \in {"create", "quit", "crashed"}
        BY HeaderEndsTo
      <3> QED
        BY <1>6, <3>1 DEF ReadHeader, ReadList, HeaderEnds, ListEnds, CreateFile,
           CopyEnds, CopyData
    <2>2. ClientStatus = "waiting" /\ Input' = Input
      BY <2>1, SidesAre DEF ClientIs
    <2>3. Input = "none" \/ Session!Over
      BY <1>4, <1>6, RequestRead, SidesAre, InputSeen
    <2>4. ClientStatus' \in {"waiting", "answered", "gone"}
      BY <2>1, SidesAre DEF ClientIs
    <2>5. CASE ClientStatus' = "waiting"
      BY <1>3, <2>2, <2>5 DEF Session!vars
    <2>6. CASE ClientStatus' = "answered"
      BY <1>3, <2>2, <2>3, <2>6 DEF Session!Next, Session!Answered
    <2>7. CASE ClientStatus' = "gone"
      BY <1>3, <2>2, <2>7 DEF Session!Next, Session!Leave
    <2> QED
      BY <2>4, <2>5, <2>6, <2>7
  <1>7. CASE SendQuit
    <2>1. /\ cpc = "quit" /\ cpc' = "close"
          /\ c2s' = IF ServerGone THEN c2s ELSE Append(c2s, "QUIT")
      BY <1>7 DEF SendQuit, SendCommand
    <2>2. ClientStatus = "answered" /\ ClientStatus' = "answered"
      BY <2>1, SidesAre DEF ClientIs
    <2>3. CASE ServerGone
      <3>1. Input' = Input
        BY <2>1, <2>3, SidesAre
      <3> QED
        BY <1>3, <2>2, <3>1 DEF Session!vars
    <2>4. CASE ~ServerGone
      <3>1. c2s = <<>>
        BY <1>1, <2>1, <2>4 DEF CommandOK, ServerGone
      <3>2. Input' = "QUIT"
        BY <2>1, <2>4, <3>1, OneCommand, SidesAre, InputSeen
      <3> QED
        BY <1>3, <2>2, <3>2 DEF Session!Next, Session!SayQuit
    <2> QED
      BY <2>3, <2>4
  <1>8. CASE CloseClient \/ Interrupt
    <2>1. cpc' = "closed" /\ (c2s' = c2s \/ c2s' = <<>>)
      BY <1>8 DEF CloseClient, Interrupt, CloseConnection
    <2>2. ClientStatus' = "gone" /\ (Input' = Input \/ Input' = "none")
      BY <2>1, SidesAre, InputSeen DEF ClientIs
    <2>3. ClientStatus # "away"
      BY SidesAre DEF ClientIs
    <2> QED
      BY <1>3, <2>2, <2>3 DEF Session!Next, Session!Leave
  <1> QED
    BY <1>5, <1>6, <1>7, <1>8 DEF ClientStep

\* The client never goes on before its request was read, nor does the child
\* leave before QUIT or the end of the stream, however the answer comes
\* (server.c:84-112, client.c:85-115).
THEOREM SessionImplemented ==
  Spec => ImplementsSession
  <1>1. Init => Session!Init
    <2>1. ASSUME Init
          PROVE  /\ ClientStatus = "connected" /\ ChildStatus = "serving"
                 /\ Input = "none"
      BY <2>1, SidesAre, InputSeen DEF Init, ClientIs, ChildIs
    <2> QED
      BY <2>1 DEF Session!Init, Session!Started
  <1>2. ASSUME SessionInv, [Next]_vars
        PROVE  [Session!Next]_(Session!vars)
    <2>1. CASE ServerStep
      BY <1>2, <2>1, ServerServes
    <2>2. CASE ClientStep \/ Interrupt
      BY <1>2, <2>2, ClientServed
    <2>3. CASE KillChild
      <3>1. /\ spc \in Serving /\ spc' = "dead" /\ "killed" \in events'
            /\ cpc' = cpc /\ c2s' = c2s
        BY <2>3 DEF KillChild, clientVars
      <3>2. /\ ChildStatus = "serving" /\ ChildStatus' = "killed"
            /\ ClientStatus' = ClientStatus /\ Input' = Input
        BY <3>1, SidesAre DEF ChildIs, Serving, Sending
      <3> QED
        BY <3>2 DEF Session!Next, Session!Kill
    <2>4. CASE ReadFails \/ \E n \in 0..MaxLen : ChangeFile(n)
      <3>1. /\ cpc' = cpc /\ c2s' = c2s /\ ("killed" \in events' <=> "killed" \in events)
            /\ spc' = spc \/ (spc = "read" /\ spc' = "write")
        BY <2>4 DEF ReadFails, ChangeFile, clientVars, serverVars
      <3>2. /\ ChildStatus' = ChildStatus /\ ClientStatus' = ClientStatus
            /\ Input' = Input
        BY <3>1, SidesAre DEF ChildIs
      <3> QED
        BY <3>2 DEF Session!vars
    <2>5. CASE UNCHANGED vars
      BY <2>5, SidesAre DEF vars, Session!vars
    <2> QED
      BY <1>2, <2>1, <2>2, <2>3, <2>4, <2>5 DEF Next
  <1> QED
    BY <1>1, <1>2, SessionInvariant, PTL DEF Spec, ImplementsSession, Session!Spec

=============================================================================
