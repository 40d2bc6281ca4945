--------------------------- MODULE TransferProofs --------------------------
(***************************************************************************)
(* Proofs about the program file_transfer.  First its command line, with   *)
(* those of the other programs, for any numbers, bounds on ports, width of *)
(* a u_int and length of the argument list: what processArguments accepts  *)
(* and what it makes of it.  Then its transfer, for any transmitters,      *)
(* lengths of files, portions and socket buffers and any number of failed  *)
(* writes: the types of its variables, whose bytes the receiver's file     *)
(* holds, and what a transmitter may lose without knowing.                 *)
(***************************************************************************)
EXTENDS OneShotTransfer, CommandLine, SequenceTheorems, TLAPS

(***************************************************************************)
(* The command lines.                                                      *)
(***************************************************************************)

\* Where the options may begin.
FirstOption == IF Modal THEN 2 ELSE 1

\* What the commands have in common, and all but main_list.
LEMMA CommandFacts ==
  ASSUME prog \in Programs
  PROVE  /\ cmd.names \in Nat /\ cmd.stop \in Nat
         /\ FirstOption \in 1..2 /\ (Modal => FirstOption = 2)
         /\ cmd.min = cmd.names + FirstOption
         /\ cmd.values \subseteq Options
         /\ prog # "list" => cmd.stop = cmd.names
<1>1. /\ cmd.names \in Nat /\ cmd.stop \in Nat /\ cmd.values \subseteq Options
      /\ cmd.min = cmd.names + FirstOption /\ (prog # "list" => cmd.stop = cmd.names)
  <2> USE DEF cmd, CommandOf, Command, FirstOption, Modal, Options
  <2>1. CASE prog = "server"
    BY <2>1 DEF ServerCommand
  <2>2. CASE prog = "get"
    BY <2>2 DEF GetCommand
  <2>3. CASE prog = "list"
    BY <2>3 DEF ListCommand
  <2>4. CASE prog = "ping"
    BY <2>4 DEF PingCommand
  <2>5. CASE prog = "transfer"
    BY <2>5 DEF TransferCommand
  <2> QED
    BY <2>1, <2>2, <2>3, <2>4, <2>5 DEF Programs
<1> QED
  BY <1>1 DEF FirstOption

\* The loops take an option, with the argument it has.
Passes(s) == AsDocumented(s) \/ Mistaken(s)

\* The argument list of a run never changes, nor what it means.
LEMMA ListFixed ==
  ASSUME UNCHANGED <<prog, args>>
  PROVE  /\ cmd' = cmd /\ argc' = argc /\ (Modal' <=> Modal)
         /\ FirstOption' = FirstOption /\ OptionPlaces' = OptionPlaces
         /\ (WellFormed' <=> WellFormed) /\ (Complete' <=> Complete)
         /\ \A S : Reads(S)' <=> Reads(S)
         /\ \A s : Width(s)' = Width(s) /\ (Passes(s)' <=> Passes(s))
         /\ \A S, o : Meaning(S, o)' = Meaning(S, o)
<1>1. cmd' = cmd /\ argc' = argc
  BY DEF cmd, argc
<1>2. (Modal' <=> Modal) /\ FirstOption' = FirstOption
  BY <1>1 DEF Modal, FirstOption
<1>3. OptionPlaces' = OptionPlaces
  BY <1>1, <1>2 DEF OptionPlaces
<1>4. \A s : /\ Width(s)' = Width(s) /\ (AsDocumented(s)' <=> AsDocumented(s))
             /\ (Passes(s)' <=> Passes(s))
  BY <1>1 DEF Passes, AsDocumented, Mistaken, Width, InRange
<1>5. \A S : (Tiles(S)' <=> Tiles(S)) /\ (Reads(S)' <=> Reads(S))
  BY <1>1, <1>3, <1>4 DEF Reads, Passes, Tiles, Width
<1>6. (Complete' <=> Complete) /\ (WellFormed' <=> WellFormed)
  BY <1>1, <1>2, <1>3, <1>4, <1>5 DEF WellFormed, Complete
<1>7. \A S, o : Meaning(S, o)' = Meaning(S, o)
  BY DEF Meaning, Given, Stored
<1> QED
  BY <1>1, <1>2, <1>3, <1>4, <1>5, <1>6, <1>7

\* A number cut to a u_int is cut for good.
LEMMA CutTwice == \A n \in Int : (n % UIntMod) % UIntMod = n % UIntMod
<1>1. UIntMod \in Nat /\ 0 < UIntMod
  BY PortsAssumption
<1>2. \A n \in Int : n % UIntMod \in 0..(UIntMod - 1)
  BY <1>1
<1>3. \A m \in 0..(UIntMod - 1) : m % UIntMod = m
  BY <1>1
<1> QED
  BY <1>2, <1>3

-----------------------------------------------------------------------------

\* The domain of conf on top of the types.
ParseTypes == ParseTypeOK /\ DOMAIN conf = Options

LEMMA StepKeepsList == [ParseNext]_parseVars => UNCHANGED <<prog, args>>
  BY DEF ParseNext, parseVars, Start, Help, ValueOption, Verbose, UnknownOption,
    CopyNames, StartServer

LEMMA ArgFacts ==
  ASSUME ParseTypes
  PROVE  /\ prog \in Programs /\ args \in Seq(Args(cmd)) /\ Len(args) \in Nat
         /\ argc \in Nat /\ argc = Len(args) + 1 /\ arg \in 1..argc
         /\ \A k \in 1..Len(args) :
              /\ args[k] \in Args(cmd) /\ args[k].num \in Int
              /\ args[k].num # 0 => args[k] = Word(args[k].num)
<1>1. prog \in Programs /\ args \in Seq(Args(cmd)) /\ Len(args) \in Nat
  BY LenProperties DEF ParseTypes, ParseTypeOK
<1>2. argc \in Nat /\ argc = Len(args) + 1 /\ arg \in 1..argc
  BY <1>1 DEF ParseTypes, ParseTypeOK, argc
<1>3. ASSUME NEW k \in 1..Len(args)
      PROVE  /\ args[k] \in Args(cmd) /\ args[k].num \in Int
             /\ args[k].num # 0 => args[k] = Word(args[k].num)
  <2>1. args[k] \in Args(cmd)
    BY <1>1, ElementOfSeq
  <2>2. CASE \E n \in Numbers : args[k] = Word(n)
    BY <2>1, <2>2, PortsAssumption DEF Word
  <2>3. CASE \E o : args[k] = Spelled(o)
    BY <2>1, <2>3 DEF Spelled
  <2> QED
    BY <2>1, <2>2, <2>3 DEF Args
<1> QED
  BY <1>1, <1>2, <1>3

LEMMA TypesInit == ParseInit => ParseTypes
<1> SUFFICES ASSUME ParseInit PROVE ParseTypes
  OBVIOUS
<1>1. prog \in Programs
  BY DEF ParseInit
<1>2. args \in Seq(Args(cmd))
  <2>1. PICK n \in 0..(ExtraArgs + cmd.names + (IF Modal THEN 1 ELSE 0)) :
          args \in [1..n -> Args(cmd)]
    BY DEF ParseInit
  <2>2. n \in Nat
    BY <1>1, <2>1, CommandFacts, PortsAssumption
  <2> QED
    BY <2>1, <2>2, IsASeq
<1>3. Len(args) \in Nat /\ arg \in 1..argc
  BY <1>2, LenProperties DEF ParseInit, argc
<1>4. names \in Seq(Args(cmd)) /\ Len(names) <= cmd.names
  BY <1>1, CommandFacts DEF ParseInit
<1> QED
  BY <1>1, <1>2, <1>3, <1>4 DEF ParseInit, ParseTypes, ParseTypeOK

LEMMA TypesStep == ParseTypes /\ [ParseNext]_parseVars => ParseTypes'
<1> SUFFICES ASSUME ParseTypes, [ParseNext]_parseVars PROVE ParseTypes'
  OBVIOUS
<1>1. /\ UNCHANGED <<prog, args>> /\ cmd' = cmd /\ argc' = argc
  BY StepKeepsList, ListFixed
<1>2. prog' \in Programs /\ args' \in Seq(Args(cmd'))
  BY <1>1 DEF ParseTypes, ParseTypeOK
<1>3. arg' \in 1..argc'
  <2>1. CASE Start
    <3>1. FirstOption \in 1..2 /\ cmd.names \in Nat /\ cmd.min = cmd.names + FirstOption
      BY ArgFacts, CommandFacts
    <3>2. arg' = arg \/ (argc >= cmd.min /\ arg' = FirstOption)
      BY <2>1, <3>1, ArgFacts DEF Start, FirstOption
    <3> QED
      BY <1>1, <3>1, <3>2, ArgFacts
  <2>2. CASE ValueOption
    <3>1. arg' = arg \/ (arg + 1 # argc /\ arg < argc - cmd.stop /\ arg' = arg + 2)
      BY <2>2 DEF ValueOption, InLoop
    <3> QED
      BY <1>1, <3>1, ArgFacts, CommandFacts
  <2>3. CASE Verbose
    BY <1>1, <2>3, ArgFacts, CommandFacts DEF Verbose, InLoop
  <2>4. CASE UNCHANGED arg
    BY <1>1, <2>4, ArgFacts
  <2> QED
    BY <2>1, <2>2, <2>3, <2>4
    DEF ParseNext, parseVars, Help, UnknownOption, CopyNames, StartServer
<1>4. DOMAIN conf' = Options /\ \A o \in Options : conf'[o] = Default \/ Accepts(o, conf'[o])
  <2>1. CASE ValueOption /\ conf' # conf
    <3> DEFINE o == args[arg].text
               a == args[arg + 1]
    <3>1. /\ o \in cmd.values /\ Accepts(o, a) /\ conf' = [conf EXCEPT ![o] = Stored(o, a)]
          /\ arg < argc - cmd.stop /\ arg + 1 # argc
      BY <2>1 DEF ValueOption, InLoop
    <3>2. a.num \in Int
      <4>1. arg + 1 \in 1..Len(args)
        BY <3>1, ArgFacts, CommandFacts
      <4> QED
        BY <4>1, ArgFacts
    <3> HIDE DEF o, a
    <3>3. Accepts(o, Stored(o, a))
      BY <3>1, <3>2, CutTwice DEF Accepts, Stored, Word
    <3> QED
      BY <3>1, <3>3 DEF ParseTypes, ParseTypeOK
  <2>2. CASE UNCHANGED conf
    BY <2>2 DEF ParseTypes, ParseTypeOK
  <2> QED
    BY <2>1, <2>2
    DEF ParseNext, parseVars, Start, Help, Verbose, UnknownOption, CopyNames, StartServer
<1>5. names' \in Seq(Args(cmd')) /\ Len(names') <= cmd'.names
  <2>1. CASE CopyNames /\ names' # names
    <3>0. arg + cmd.names <= argc
      BY <2>1, ArgFacts, CommandFacts DEF CopyNames
    <3>1. names' = SubSeq(args, arg, arg + cmd.names - 1)
      BY <2>1, ArgFacts, CommandFacts DEF CopyNames
    <3>2. PICK last \in Int : last = arg + cmd.names - 1
      BY ArgFacts, CommandFacts
    <3>3. /\ arg \in Nat /\ arg >= 1 /\ cmd.names \in Nat /\ argc = Len(args) + 1
          /\ Len(args) \in Nat
      BY ArgFacts, CommandFacts
    <3>4. /\ last <= Len(args) /\ (arg <= last => last - arg + 1 = cmd.names)
          /\ (last < arg => cmd.names = 0)
      BY <3>0, <3>2, <3>3
    <3>5. \A k \in arg..last : args[k] \in Args(cmd)
      BY <3>3, <3>4, ArgFacts
    <3>6. /\ SubSeq(args, arg, last) \in Seq(Args(cmd))
          /\ Len(SubSeq(args, arg, last)) = IF arg <= last THEN last - arg + 1 ELSE 0
      BY <3>3, <3>5, SubSeqProperties
    <3>7. Len(SubSeq(args, arg, last)) <= cmd.names
      BY <3>3, <3>4, <3>6
    <3> QED
      BY <1>1, <3>1, <3>2, <3>6, <3>7
  <2>2. CASE UNCHANGED names
    BY <1>1, <2>2 DEF ParseTypes, ParseTypeOK
  <2> QED
    BY <2>1, <2>2
    DEF ParseNext, parseVars, Start, Help, ValueOption, Verbose, UnknownOption, StartServer
<1>6. /\ pc' \in {"start", "loop", "accepted", "rejected", "crashed"}
      /\ helped' \in BOOLEAN
  BY DEF ParseTypes, ParseTypeOK, ParseNext, parseVars, Start, Help, ValueOption, Verbose,
    UnknownOption, CopyNames, StartServer
<1> QED
  BY <1>2, <1>3, <1>4, <1>5, <1>6 DEF ParseTypes, ParseTypeOK

\* Whatever the argument list, the index of the loop never leaves argv, an
\* option variable holds its default or a value that passed its option's test,
\* and no more names are copied than the program has (processArguments of the
\* five programs).
THEOREM ParsesWithinArgv == ParseSpec => []ParseTypeOK
<1>1. ParseTypes => ParseTypeOK
  BY DEF ParseTypes
<1> QED
  BY <1>1, TypesInit, TypesStep, PTL DEF ParseSpec

-----------------------------------------------------------------------------
(***************************************************************************)
(* What the loop has read and what is left.                                *)
(***************************************************************************)

\* S are the places of the options before the one that is next: they tile
\* what has been read, and conf is what they mean.
Read(S) ==
  /\ S \subseteq FirstOption..(arg - 1)
  /\ \A s \in S : s + Width(s) <= arg
  /\ \A j \in FirstOption..(arg - 1) :
       \E s \in S : /\ s <= j /\ j < s + Width(s)
                    /\ \A t \in S \ {s} : j < t \/ j >= t + Width(t)
  /\ \A s \in S : Passes(s)
  /\ \A o \in cmd.values : conf[o] = Meaning(S, o)

\* The loop is at a boundary of every reading of the list.
AtBoundaryOf(P) ==
  /\ arg <= argc - cmd.names
  /\ \A t \in P : ~(t < arg /\ arg < t + Width(t))

Covered == prog # "list" /\ ~helped

StartOK == pc = "start" => /\ arg = 1 /\ conf = [o \in Options |-> Default]
                           /\ ~helped

LoopOK ==
  pc = "loop" /\ Covered =>
    /\ FirstOption <= arg /\ cmd.min <= argc
    /\ Modal => args[1].text \in cmd.modes
    /\ \E S : Read(S)
    /\ \A P \in SUBSET OptionPlaces : Reads(P) => AtBoundaryOf(P)

ParseInv == ParseTypes /\ StartOK /\ LoopOK /\ ParsesAsDocumented

\* Where the loop is, an option begins in every reading of the list.
LEMMA OptionBegins ==
  ASSUME ParseTypes, LoopOK, Covered, InLoop,
         NEW P \in SUBSET OptionPlaces, Reads(P)
  PROVE  /\ arg \in P /\ arg \in OptionPlaces /\ arg + Width(arg) - 1 \in OptionPlaces
         /\ Passes(arg)
<1>1. AtBoundaryOf(P) /\ FirstOption <= arg
  BY DEF LoopOK, InLoop
<1>2. OptionPlaces = FirstOption..(Len(args) - cmd.names)
  BY DEF OptionPlaces, FirstOption
<1>3. arg \in OptionPlaces
  BY <1>1, <1>2, ArgFacts, CommandFacts DEF InLoop, Covered
<1>4. PICK s \in P : s <= arg /\ arg < s + Width(s)
  BY <1>3 DEF Reads, Passes, Tiles
<1>5. s \in Int /\ arg \in Int
  BY <1>2, <1>3, ArgFacts, CommandFacts
<1>6. s = arg
  BY <1>1, <1>4, <1>5 DEF AtBoundaryOf
<1> QED
  BY <1>3, <1>4, <1>6 DEF Reads, Passes, Tiles

\* After an option, and the argument it has, so does the next one.
LEMMA BoundaryMoves ==
  ASSUME ParseTypes, LoopOK, Covered, InLoop, UNCHANGED <<prog, args>>,
         arg' = arg + Width(arg), NEW P \in SUBSET OptionPlaces, Reads(P)
  PROVE  AtBoundaryOf(P)'
<1>1. /\ arg \in P /\ arg \in OptionPlaces /\ arg + Width(arg) - 1 \in OptionPlaces
      /\ AtBoundaryOf(P)
  BY OptionBegins DEF LoopOK, InLoop
<1>2. /\ OptionPlaces = FirstOption..(Len(args) - cmd.names)
      /\ FirstOption \in Int /\ Len(args) \in Nat /\ cmd.names \in Nat
      /\ argc = Len(args) + 1
  BY ArgFacts, CommandFacts DEF OptionPlaces, FirstOption
<1>3. Width(arg) \in 1..2 /\ \A t : Width(t) \in 1..2
  BY DEF Width
<1>4. arg' <= argc - cmd.names
  BY <1>1, <1>2, <1>3
<1>5. ASSUME NEW t \in P, t < arg', arg' < t + Width(t) PROVE FALSE
  <2>1. t \in Int /\ arg \in Int
    BY <1>1, <1>2
  <2>2. t = arg + 1 /\ Width(arg) = 2
    BY <1>1, <1>3, <1>5, <2>1 DEF AtBoundaryOf
  <2>3. arg + 1 \in OptionPlaces
    BY <1>1, <2>2
  <2>4. PICK s \in P : /\ s <= arg + 1 /\ arg + 1 < s + Width(s)
                       /\ \A u \in P \ {s} : arg + 1 < u \/ arg + 1 >= u + Width(u)
    BY <2>3 DEF Reads, Passes, Tiles
  <2>5. arg = s
    BY <1>1, <2>1, <2>2, <2>4
  <2>6. t = s
    BY <1>3, <2>1, <2>2, <2>4
  <2> QED
    BY <2>1, <2>2, <2>5, <2>6
<1>6. (\A t \in P : ~(t < arg /\ arg < t + Width(t)))'
  BY <1>5 DEF Width, cmd
<1> QED
  BY <1>4, <1>6, ListFixed DEF AtBoundaryOf

\* One more option read.
LEMMA ReadMore ==
  ASSUME ParseTypes, FirstOption <= arg, arg <= Len(args),
         NEW S, Read(S), NEW T, T = S \union {arg},
         Passes(arg), arg' = arg + Width(arg), UNCHANGED <<prog, args>>,
         \A o \in cmd.values : conf'[o] = Meaning(T, o)
  PROVE  Read(T)'
<1>1. /\ FirstOption \in Int /\ arg \in Int /\ arg' \in Int
      /\ Width(arg) \in 1..2 /\ \A t : Width(t) \in 1..2
  BY ArgFacts, CommandFacts DEF Width
<1>2. FirstOption' = FirstOption /\ cmd' = cmd /\ \A t : Width(t)' = Width(t)
  BY ListFixed DEF Width
<1>3. \A s \in S : s \in FirstOption..(arg - 1) /\ s + Width(s) <= arg
  BY DEF Read
<1>4. T \subseteq FirstOption..(arg' - 1) /\ \A s \in T : s + Width(s) <= arg'
  BY <1>1, <1>3
<1>5. ASSUME NEW j \in FirstOption..(arg' - 1)
      PROVE  \E s \in T : /\ s <= j /\ j < s + Width(s)
                          /\ \A t \in T \ {s} : j < t \/ j >= t + Width(t)
  <2>1. CASE j < arg
    <3>1. PICK s \in S : /\ s <= j /\ j < s + Width(s)
                         /\ \A t \in S \ {s} : j < t \/ j >= t + Width(t)
      BY <1>1, <2>1 DEF Read
    <3> QED
      BY <2>1, <3>1
  <2>2. CASE j >= arg
    <3>1. arg <= j /\ j < arg + Width(arg)
      BY <1>1, <2>2
    <3>2. \A t \in T \ {arg} : j >= t + Width(t)
      <4> SUFFICES ASSUME NEW t \in S PROVE j >= t + Width(t)
        OBVIOUS
      <4>1. t \in Int /\ t + Width(t) <= arg /\ Width(t) \in Int
        BY <1>1, <1>3
      <4> QED
        BY <1>1, <2>2, <4>1
    <3> QED
      BY <3>1, <3>2
  <2> QED
    BY <1>1, <2>1, <2>2
<1>6. \A s \in T : Passes(s)'
  BY ListFixed DEF Read
<1>7. \A o \in cmd.values : conf'[o] = Meaning(T, o)'
  BY ListFixed
<1> QED
  BY <1>2, <1>4, <1>5, <1>6, <1>7 DEF Read


\* T are the places S and one after them.
OneMore(S, T, m) ==
  m \in Int /\ S \subseteq Int /\ (\A s \in S : s < m) /\ T = S \union {m}

\* The option read last is the one that counts, and no other changes meaning.
LEMMA MeaningOfLast ==
  ASSUME NEW S, NEW T, NEW m, NEW o, OneMore(S, T, m)
  PROVE  /\ args[m].text = o => Meaning(T, o) = Stored(o, args[m + 1])
         /\ args[m].text # o => Meaning(T, o) = Meaning(S, o)
<1>0. m \in Int /\ S \subseteq Int /\ (\A s \in S : s < m) /\ T = S \union {m}
  BY DEF OneMore
<1>1. CASE args[m].text = o
  <2>1. m \in Given(T, o) /\ \A t \in Given(T, o) : t <= m /\ t \in Int
    BY <1>0, <1>1 DEF Given
  <2>2. \A x \in Given(T, o) : (\A t \in Given(T, o) : t <= x) => x = m
    <3> SUFFICES ASSUME NEW x \in Given(T, o), \A t \in Given(T, o) : t <= x
                 PROVE  x = m
      OBVIOUS
    <3>1. m <= x /\ x <= m /\ x \in Int
      BY <1>0, <2>1
    <3> QED
      BY <1>0, <3>1
  <2>3. (CHOOSE s \in Given(T, o) : \A t \in Given(T, o) : t <= s) = m
    BY <2>1, <2>2
  <2> QED
    BY <1>1, <2>1, <2>3 DEF Meaning
<1>2. CASE args[m].text # o
  <2>1. Given(T, o) = Given(S, o)
    BY <1>0, <1>2 DEF Given
  <2> DEFINE Latest(G) ==
        IF G = {} THEN Default
        ELSE Stored(o, args[(CHOOSE s \in G : \A t \in G : t <= s) + 1])
  <2>2. Meaning(T, o) = Latest(Given(T, o)) /\ Meaning(S, o) = Latest(Given(S, o))
    BY DEF Meaning
  <2> HIDE DEF Latest
  <2> QED
    BY <1>2, <2>1, <2>2
<1> QED
  BY <1>1, <1>2

\* The tests of the loop let through what the help texts describe and what is
\* mistaken for it, and no more.
LEMMA AcceptedPasses ==
  ASSUME ParseTypes, arg + 1 \in 1..Len(args), args[arg].text \in cmd.values
  PROVE  Accepts(args[arg].text, args[arg + 1]) <=> Passes(arg)
<1> DEFINE o == args[arg].text
           n == args[arg + 1].num
<1>1. n \in Int /\ o \in Options /\ Width(arg) = 2
  BY ArgFacts, CommandFacts DEF Width
<1>2. /\ UIntMod \in Nat /\ MinPort \in Nat /\ MaxPort \in Nat /\ 0 < MinPort
      /\ MaxPort < UIntMod
  BY PortsAssumption
<1>3. o # "any-v"
  BY <1>1 DEF Options
<1>4. Passes(arg) <=>
        \/ InRange(o, n)
        \/ n \notin 0..(UIntMod - 1) /\ InRange(o, n % UIntMod)
  BY <1>1, <1>3 DEF Passes, AsDocumented, Mistaken, InRange
<1>5. Accepts(o, args[arg + 1]) <=> InRange(o, n % UIntMod)
  <2>1. n % UIntMod \in 0..(UIntMod - 1)
    BY <1>1, <1>2
  <2> QED
    BY <2>1, <1>2 DEF Accepts, InRange, Stored, Word
<1>6. InRange(o, n) => n \in 0..(UIntMod - 1) \/ o \notin {"-p", "-n", "-s"}
  <2> HIDE DEF o, n
  <2>1. CASE o = "-p"
    BY <1>1, <1>2, <2>1 DEF InRange
  <2>2. CASE o \in {"-n", "-s"}
    BY <1>1, <1>2, <2>2 DEF InRange
  <2> QED
    BY <2>1, <2>2
<1>7. n \in 0..(UIntMod - 1) => n % UIntMod = n
  <2> HIDE DEF n
  <2> QED
    BY <1>1, <1>2
<1>8. o \notin {"-p", "-n", "-s"} => InRange(o, n) /\ InRange(o, n % UIntMod)
  BY DEF InRange
<1> QED
  BY <1>4, <1>5, <1>6, <1>7, <1>8

-----------------------------------------------------------------------------
(***************************************************************************)
(* ParseInv is inductive.                                                  *)
(***************************************************************************)

LEMMA ParseInvInit == ParseInit => ParseInv
<1> SUFFICES ASSUME ParseInit PROVE ParseInv
  OBVIOUS
<1> QED
  BY TypesInit DEF ParseInit, ParseInv, StartOK, LoopOK, ParsesAsDocumented

LEMMA StartKeeps == ParseInv /\ Start => ParseInv'
<1> SUFFICES ASSUME ParseInv, Start PROVE ParseInv'
  OBVIOUS
<1>1. /\ ParseTypes /\ ParseTypes' /\ UNCHANGED <<prog, args, conf, names, helped>>
      /\ pc = "start" /\ conf = [o \in Options |-> Default] /\ ~helped
  BY TypesStep DEF ParseInv, ParseNext, Start, StartOK
<1>2. (Covered' <=> Covered) /\ (WellFormed' <=> WellFormed)
  BY <1>1, ListFixed DEF Covered
<1>3. /\ cmd.names \in Nat /\ FirstOption \in 1..2 /\ cmd.min = cmd.names + FirstOption
      /\ argc = Len(args) + 1 /\ Len(args) \in Nat
      /\ cmd.values \subseteq Options
      /\ FirstOption = IF Modal THEN 2 ELSE 1
  BY <1>1, ArgFacts, CommandFacts DEF FirstOption
<1>4. CASE argc < cmd.min \/ (Modal /\ args[1].text \notin cmd.modes)
  <2>1. pc' = "rejected"
    BY <1>4 DEF Start
  <2>2. ~WellFormed
    BY <1>3, <1>4 DEF WellFormed, Complete
  <2> QED
    BY <1>1, <1>2, <2>1, <2>2 DEF ParseInv, StartOK, LoopOK, ParsesAsDocumented
<1>5. CASE ~(argc < cmd.min \/ (Modal /\ args[1].text \notin cmd.modes))
  <2>1. pc' = "loop" /\ arg' = FirstOption
    BY <1>5 DEF Start, FirstOption
  <2>2. Read({})'
    <3>1. \A o \in cmd.values : conf[o] = Meaning({}, o)
      BY <1>1, <1>3 DEF Meaning, Given
    <3>2. FirstOption..(FirstOption - 1) = {}
      BY <1>3
    <3>3. FirstOption' = FirstOption /\ cmd' = cmd /\ \A o : Meaning({}, o)' = Meaning({}, o)
      BY <1>1, ListFixed
    <3> QED
      BY <1>1, <2>1, <3>1, <3>2, <3>3 DEF Read
  <2>3. ASSUME NEW P \in SUBSET OptionPlaces, Reads(P) PROVE AtBoundaryOf(P)'
    <3>1. FirstOption <= argc - cmd.names
      BY <1>3, <1>5
    <3>2. \A t \in P : ~(t < FirstOption)
      BY <1>3 DEF OptionPlaces
    <3> QED
      BY <1>1, <2>1, <3>1, <3>2, ListFixed DEF AtBoundaryOf
  <2>4. LoopOK'
    <3>1. /\ FirstOption' = FirstOption /\ cmd' = cmd /\ argc' = argc /\ (Modal' <=> Modal)
          /\ OptionPlaces' = OptionPlaces /\ \A S : Reads(S)' <=> Reads(S)
      BY <1>1, ListFixed
    <3>2. cmd.min <= argc /\ FirstOption <= FirstOption /\ (Modal => args[1].text \in cmd.modes)
      BY <1>3, <1>5
    <3>3. \E S : Read(S)'
      BY <2>2
    <3>4. \A P \in SUBSET OptionPlaces : Reads(P) => AtBoundaryOf(P)'
      BY <2>3
    <3> QED
      BY <1>1, <2>1, <3>1, <3>2, <3>3, <3>4 DEF LoopOK
  <2> QED
    BY <1>1, <2>1, <2>4 DEF ParseInv, StartOK, ParsesAsDocumented
<1> QED
  BY <1>4, <1>5


\* A list that is not well formed may be rejected.
LEMMA RejectKeeps ==
  ASSUME ParseInv, ParseTypes', UNCHANGED <<prog, args, helped>>,
         pc' \in {"rejected", "crashed"}, Covered => ~WellFormed
  PROVE  ParseInv'
<1>1. (Covered' <=> Covered) /\ (WellFormed' <=> WellFormed)
  BY ListFixed DEF Covered
<1>2. ParsesAsDocumented'
  BY <1>1 DEF ParsesAsDocumented, Covered
<1> QED
  BY <1>2 DEF ParseInv, StartOK, LoopOK

\* A list that reads in no way is not well formed.
LEMMA NoReadingRejects ==
  ASSUME \A P \in SUBSET OptionPlaces : ~Reads(P)
  PROVE  ~WellFormed
  BY DEF WellFormed, Reads

\* The loop goes on past an option that is read.
LEMMA OptionKeeps ==
  ASSUME ParseInv, ParseTypes', InLoop, UNCHANGED <<prog, args, helped, pc>>,
         arg' = arg + Width(arg), Passes(arg),
         \A o \in cmd.values :
           conf'[o] = IF args[arg].text = o THEN Stored(o, args[arg + 1]) ELSE conf[o]
  PROVE  ParseInv'
<1>1. /\ ParseTypes /\ pc = "loop" /\ pc' = "loop" /\ (Covered' <=> Covered)
      /\ LoopOK
  BY ListFixed DEF ParseInv, InLoop, Covered
<1>2. ASSUME Covered PROVE LoopOK'
  <2>1. /\ FirstOption <= arg /\ cmd.min <= argc
        /\ Modal => args[1].text \in cmd.modes
    BY <1>1, <1>2 DEF LoopOK
  <2>2. PICK S : Read(S)
    BY <1>1, <1>2 DEF LoopOK
  <2>3. /\ arg <= Len(args) /\ arg \in Int /\ FirstOption \in Int /\ cmd.stop \in Nat
        /\ Width(arg) \in 1..2
    BY <1>1, ArgFacts, CommandFacts DEF InLoop, Width
  <2>4. PICK T : T = S \union {arg}
    OBVIOUS
  <2>5. \A s \in S : s \in Int /\ s < arg
    BY <2>2, <2>3 DEF Read
  <2>6. \A o \in cmd.values : conf'[o] = Meaning(T, o)
    <3> SUFFICES ASSUME NEW o \in cmd.values PROVE conf'[o] = Meaning(T, o)
      OBVIOUS
    <3>1. conf[o] = Meaning(S, o)
      BY <2>2 DEF Read
    <3>2. conf'[o] = IF args[arg].text = o THEN Stored(o, args[arg + 1]) ELSE conf[o]
      OBVIOUS
    <3>3. PICK m : m = arg
      OBVIOUS
    <3>4. OneMore(S, T, m)
      BY <2>3, <2>4, <2>5, <3>3 DEF OneMore
    <3>5. /\ args[m].text = o => Meaning(T, o) = Stored(o, args[m + 1])
          /\ args[m].text # o => Meaning(T, o) = Meaning(S, o)
      BY <3>4, MeaningOfLast
    <3> QED
      BY <3>1, <3>2, <3>3, <3>5
  <2>7. Read(T)'
    BY <1>1, <1>2, <2>1, <2>2, <2>3, <2>4, <2>6, ReadMore DEF Covered
  <2>8. \A P \in SUBSET OptionPlaces : Reads(P) => AtBoundaryOf(P)'
    BY <1>1, <1>2, BoundaryMoves
  <2>9. /\ FirstOption' = FirstOption /\ cmd' = cmd /\ argc' = argc /\ (Modal' <=> Modal)
        /\ OptionPlaces' = OptionPlaces /\ \A P : Reads(P)' <=> Reads(P)
    BY ListFixed
  <2>10. FirstOption <= arg'
    BY <2>1, <2>3
  <2>11. \E U : Read(U)'
    BY <2>7
  <2> QED
    BY <2>1, <2>8, <2>9, <2>10, <2>11 DEF LoopOK
<1>3. LoopOK'
  BY <1>1, <1>2 DEF LoopOK
<1> QED
  BY <1>1, <1>3 DEF ParseInv, StartOK, ParsesAsDocumented

LEMMA ValueOptionKeeps == ParseInv /\ ValueOption => ParseInv'
<1> SUFFICES ASSUME ParseInv, ValueOption PROVE ParseInv'
  OBVIOUS
<1>1. /\ ParseTypes /\ ParseTypes' /\ UNCHANGED <<prog, args, helped>> /\ LoopOK
      /\ InLoop /\ args[arg].text \in cmd.values /\ Width(arg) = 2
  BY TypesStep DEF ParseInv, ParseNext, ValueOption, Width
<1>2. /\ arg \in Nat /\ Len(args) \in Nat /\ argc = Len(args) + 1 /\ cmd.names \in Nat
      /\ cmd.stop \in Nat /\ arg < argc - cmd.stop /\ args[arg].text \in Options
      /\ 1 <= arg
  BY <1>1, ArgFacts, CommandFacts DEF InLoop
<1>3. CASE arg + 1 = argc
  <2>1. Covered => ~WellFormed
    <3> SUFFICES ASSUME Covered, NEW P \in SUBSET OptionPlaces, Reads(P) PROVE FALSE
      BY NoReadingRejects
    <3>1. arg + 1 \in OptionPlaces
      BY <1>1, <1>2, OptionBegins
    <3> QED
      BY <1>2, <1>3, <3>1, CommandFacts, ArgFacts DEF OptionPlaces
  <2>2. pc' = "crashed"
    BY <1>3 DEF ValueOption
  <2> QED
    BY <1>1, <2>1, <2>2, RejectKeeps
<1>4. arg + 1 # argc => arg + 1 \in 1..Len(args)
  BY <1>2
<1>5. CASE arg + 1 # argc /\ ~Accepts(args[arg].text, args[arg + 1])
  <2>1. Covered => ~WellFormed
    <3> SUFFICES ASSUME Covered, NEW P \in SUBSET OptionPlaces, Reads(P) PROVE FALSE
      BY NoReadingRejects
    <3>1. Passes(arg)
      BY <1>1, OptionBegins
    <3> QED
      BY <1>1, <1>4, <1>5, <3>1, AcceptedPasses
  <2>2. pc' = "rejected"
    BY <1>5 DEF ValueOption
  <2> QED
    BY <1>1, <2>1, <2>2, RejectKeeps
<1>6. CASE arg + 1 # argc /\ Accepts(args[arg].text, args[arg + 1])
  <2>1. /\ conf' = [conf EXCEPT ![args[arg].text] = Stored(args[arg].text, args[arg + 1])]
        /\ arg' = arg + 2 /\ UNCHANGED pc
    BY <1>6 DEF ValueOption
  <2>2. Passes(arg)
    BY <1>1, <1>4, <1>6, AcceptedPasses
  <2>3. \A o \in cmd.values :
          conf'[o] = IF args[arg].text = o THEN Stored(o, args[arg + 1]) ELSE conf[o]
    <3>1. \A o \in cmd.values : o \in DOMAIN conf
      BY <1>1, CommandFacts, ArgFacts DEF ParseTypes
    <3> QED
      BY <2>1, <3>1
  <2> QED
    BY <1>1, <2>1, <2>2, <2>3, OptionKeeps
<1> QED
  BY <1>3, <1>5, <1>6

LEMMA VerboseKeeps == ParseInv /\ Verbose => ParseInv'
<1> SUFFICES ASSUME ParseInv, Verbose PROVE ParseInv'
  OBVIOUS
<1>1. /\ ParseTypes /\ ParseTypes' /\ UNCHANGED <<prog, args, helped, pc, conf>>
      /\ InLoop /\ args[arg].text \in HasV /\ arg' = arg + 1
  BY TypesStep DEF ParseInv, ParseNext, Verbose
<1>2. \A o \in cmd.values : args[arg].text # o
  BY <1>1, CommandFacts, ArgFacts DEF Options, HasV
<1>3. Width(arg) = 1
  BY <1>2 DEF Width
<1>4. Passes(arg)
  BY <1>1, <1>3 DEF Passes, AsDocumented, Mistaken, HasV
<1> QED
  BY <1>1, <1>2, <1>3, <1>4, OptionKeeps

LEMMA UnknownOptionKeeps == ParseInv /\ UnknownOption => ParseInv'
<1> SUFFICES ASSUME ParseInv, UnknownOption PROVE ParseInv'
  OBVIOUS
<1>1. /\ ParseTypes /\ ParseTypes' /\ UNCHANGED <<prog, args, helped>> /\ LoopOK
      /\ InLoop /\ args[arg].text \notin cmd.values \union HasV /\ pc' = "rejected"
  BY TypesStep DEF ParseInv, ParseNext, UnknownOption
<1>2. Covered => ~WellFormed
  <2> SUFFICES ASSUME Covered, NEW P \in SUBSET OptionPlaces, Reads(P) PROVE FALSE
    BY NoReadingRejects
  <2>1. Passes(arg)
    BY <1>1, OptionBegins
  <2>2. Width(arg) = 1
    BY <1>1 DEF Width
  <2> QED
    BY <1>1, <2>1, <2>2 DEF Passes, AsDocumented, Mistaken, HasV
<1> QED
  BY <1>1, <1>2, RejectKeeps

LEMMA CopyNamesKeeps == ParseInv /\ CopyNames => ParseInv'
<1> SUFFICES ASSUME ParseInv, CopyNames PROVE ParseInv'
  OBVIOUS
<1>1. /\ ParseTypes /\ ParseTypes' /\ UNCHANGED <<prog, args, arg, conf, helped>> /\ LoopOK
      /\ pc = "loop" /\ ~(arg < argc - cmd.stop)
  BY TypesStep DEF ParseInv, ParseNext, CopyNames, InLoop
<1>2. /\ arg \in Nat /\ Len(args) \in Nat /\ argc = Len(args) + 1 /\ cmd.names \in Nat
      /\ (Covered => cmd.stop = cmd.names)
  BY <1>1, ArgFacts, CommandFacts DEF Covered
<1>3. CASE arg + cmd.names > argc
  <2>1. Covered => ~WellFormed
    <3> SUFFICES ASSUME Covered, NEW P \in SUBSET OptionPlaces, Reads(P) PROVE FALSE
      BY NoReadingRejects
    <3>1. arg <= argc - cmd.names
      BY <1>1 DEF LoopOK, AtBoundaryOf
    <3> QED
      BY <1>2, <1>3, <3>1
  <2>2. pc' = "crashed"
    BY <1>3 DEF CopyNames
  <2> QED
    BY <1>1, <2>1, <2>2, RejectKeeps
<1>4. CASE ~(arg + cmd.names > argc)
  <2>1. names' = SubSeq(args, arg, arg + cmd.names - 1) /\ pc' = "accepted"
    BY <1>4 DEF CopyNames
  <2>2. ASSUME Covered
        PROVE  /\ Complete
               /\ \E S \in SUBSET OptionPlaces :
                    Reads(S) /\ \A o \in cmd.values : conf[o] = Meaning(S, o)
               /\ names' = SubSeq(args, argc - cmd.names, Len(args))
    <3>1. arg = argc - cmd.names /\ arg + cmd.names - 1 = Len(args)
      BY <1>1, <1>2, <1>4, <2>2
    <3>2. PICK S : Read(S)
      BY <1>1, <2>2 DEF LoopOK
    <3>3. /\ FirstOption \in 1..2 /\ cmd.min = cmd.names + FirstOption /\ cmd.min <= argc
          /\ (Modal => args[1].text \in cmd.modes)
          /\ OptionPlaces = FirstOption..(arg - 1)
          /\ FirstOption = IF Modal THEN 2 ELSE 1
      <4>1. arg - 1 = Len(args) - cmd.names
        BY <1>2, <3>1
      <4> QED
        BY <1>1, <2>2, <4>1, CommandFacts, ArgFacts DEF LoopOK, OptionPlaces, FirstOption
    <3>4. S \in SUBSET OptionPlaces
      BY <3>2, <3>3 DEF Read
    <3>5. Reads(S)
      <4>1. ASSUME NEW s \in S PROVE s + Width(s) - 1 \in OptionPlaces
        <5>1. s \in FirstOption..(arg - 1) /\ s + Width(s) <= arg /\ Width(s) \in 1..2
          BY <3>2 DEF Read, Width
        <5> QED
          BY <1>2, <3>3, <5>1
      <4> QED
        BY <3>2, <3>3, <4>1 DEF Read, Reads, Passes, Tiles
    <3>6. Len(args) >= cmd.names + (IF Modal THEN 1 ELSE 0)
      BY <1>2, <3>3
    <3>7. Complete
      BY <3>3, <3>6 DEF Complete
    <3>8. \A o \in cmd.values : conf[o] = Meaning(S, o)
      BY <3>2 DEF Read
    <3> QED
      BY <2>1, <3>1, <3>4, <3>5, <3>7, <3>8
  <2>3. ParsesAsDocumented'
    <3>1. /\ cmd' = cmd /\ argc' = argc /\ OptionPlaces' = OptionPlaces
          /\ (Complete' <=> Complete) /\ (Covered' <=> Covered)
          /\ \A S : Reads(S)' <=> Reads(S)
          /\ \A S, o : Meaning(S, o)' = Meaning(S, o)
      BY <1>1, ListFixed DEF Covered
    <3> SUFFICES ASSUME Covered
                 PROVE  /\ Complete'
                        /\ (\E S \in SUBSET OptionPlaces :
                              Reads(S) /\ \A o \in cmd.values : conf[o] = Meaning(S, o))'
                        /\ (names = SubSeq(args, argc - cmd.names, Len(args)))'
      BY <2>1, <3>1 DEF ParsesAsDocumented, Covered
    <3> QED
      BY <1>1, <2>2, <3>1
  <2> QED
    BY <1>1, <2>1, <2>3 DEF ParseInv, StartOK, LoopOK
<1> QED
  BY <1>3, <1>4

\* Neither the help nor the choice of the interface adds to what was read.
LEMMA RestKeeps ==
  ParseInv /\ (Help \/ StartServer \/ UNCHANGED parseVars) => ParseInv'
<1> SUFFICES ASSUME ParseInv, Help \/ StartServer \/ UNCHANGED parseVars PROVE ParseInv'
  OBVIOUS
<1>1. ParseTypes'
  BY TypesStep DEF ParseInv, ParseNext
<1>2. CASE Help
  BY <1>1, <1>2 DEF Help, ParseInv, StartOK, LoopOK, Covered, ParsesAsDocumented
<1>3. CASE UNCHANGED <<prog, args, pc, arg, conf, names, helped>>
  <2>1. StartOK' /\ (Covered' <=> Covered)
    BY <1>3, ListFixed DEF ParseInv, StartOK, Covered
  <2>2. /\ cmd' = cmd /\ argc' = argc /\ OptionPlaces' = OptionPlaces
        /\ (WellFormed' <=> WellFormed) /\ (Complete' <=> Complete)
        /\ FirstOption' = FirstOption /\ (Modal' <=> Modal)
        /\ \A S : Reads(S)' <=> Reads(S)
        /\ \A s : Width(s)' = Width(s) /\ (Passes(s)' <=> Passes(s))
        /\ \A S, o : Meaning(S, o)' = Meaning(S, o)
    BY <1>3, ListFixed
  <2>3. \A S : (Read(S)' <=> Read(S)) /\ (AtBoundaryOf(S)' <=> AtBoundaryOf(S))
    BY <1>3, <2>2 DEF Read, AtBoundaryOf
  <2>4. LoopOK'
    BY <1>3, <2>1, <2>2, <2>3 DEF ParseInv, LoopOK
  <2>5. ParsesAsDocumented'
    BY <1>3, <2>2 DEF ParseInv, ParsesAsDocumented
  <2> QED
    BY <1>1, <2>1, <2>4, <2>5 DEF ParseInv
<1> QED
  BY <1>2, <1>3 DEF StartServer, parseVars

\* Of the argument lists of any length that ask for no help, the loop turns
\* none away that the help texts describe.  What it accepts is such a list, and
\* gets the meaning it has, but for single options that have -v somewhere in
\* them or a number no u_int holds, which pass for ones the help texts describe
\* (processArguments of the five programs but main_list).
THEOREM ListsParse == ParseSpec => []ParsesAsDocumented
<1>1. ParseInv /\ [ParseNext]_parseVars => ParseInv'
  BY StartKeeps, ValueOptionKeeps, VerboseKeeps, UnknownOptionKeeps, CopyNamesKeeps,
    RestKeeps DEF ParseNext
<1>2. ParseInv => ParsesAsDocumented
  BY DEF ParseInv
<1> QED
  BY <1>1, <1>2, ParseInvInit, PTL DEF ParseSpec

-----------------------------------------------------------------------------
(***************************************************************************)
(* The transfer.                                                           *)
(***************************************************************************)

LEMMA Sizes ==
  /\ MaxLen \in Nat /\ Chunk \in Nat /\ 0 < Chunk
  /\ Capacity \in Nat /\ 0 < Capacity /\ Backlog \in Nat /\ 0 < Backlog
  /\ MaxFaults \in Nat
  BY SizesAssumption

(***************************************************************************)
(* Sequences of units.                                                     *)
(***************************************************************************)

\* A function on 1..n into S is a sequence of n values of S.
LEMMA SeqOfLength ==
  ASSUME NEW n \in Nat, NEW S, NEW p \in [1..n -> S]
  PROVE  p \in Seq(S) /\ Len(p) = n
<1>1. p \in Seq(S)
  BY SeqDef, Zenon
<1> QED
  BY <1>1, LenProperties

\* The part of a sequence from one place to another.
LEMMA PartType ==
  ASSUME NEW S, NEW s \in Seq(S), NEW m \in Nat, NEW n \in Nat,
         1 <= m, n <= Len(s)
  PROVE  /\ SubSeq(s, m, n) \in Seq(S)
         /\ Len(SubSeq(s, m, n)) = IF m <= n THEN n - m + 1 ELSE 0
         /\ \A i \in 1..(n - m + 1) : SubSeq(s, m, n)[i] = s[m + i - 1]
<1>1. Len(s) \in Nat
  BY LenProperties
<1>2. \A i \in m..n : s[i] \in S
  BY <1>1, ElementOfSeq
<1> QED
  BY <1>2, SubSeqProperties

\* Units n+1 to n+k of the file of c.
UnitsFrom(c, n, k) == [i \in 1..k |-> Unit(c, n + i)]

LEMMA UnitsFromType ==
  ASSUME NEW c \in Clients, NEW n \in Nat, NEW k \in Nat, n + k <= MaxLen
  PROVE  UnitsFrom(c, n, k) \in Seq(Units) /\ Len(UnitsFrom(c, n, k)) = k
<1>1. UnitsFrom(c, n, k) \in [1..k -> Units]
  BY Sizes DEF UnitsFrom, Unit, Units
<1> QED
  BY <1>1, SeqOfLength

LEMMA FirstUnitsType ==
  ASSUME NEW c \in Clients, NEW n \in 0..MaxLen
  PROVE  FirstUnits(c, n) \in Seq(Units) /\ Len(FirstUnits(c, n)) = n
<1>1. n \in Nat /\ FirstUnits(c, n) \in [1..n -> Units]
  BY Sizes DEF FirstUnits, Unit, Units
<1> QED
  BY <1>1, SeqOfLength

\* The first n units and the next k are the first n + k.
LEMMA UnitsJoin ==
  ASSUME NEW c \in Clients, NEW n \in Nat, NEW k \in Nat, n + k <= MaxLen
  PROVE  FirstUnits(c, n) \o UnitsFrom(c, n, k) = FirstUnits(c, n + k)
<1> DEFINE s == FirstUnits(c, n)
           t == UnitsFrom(c, n, k)
           u == FirstUnits(c, n + k)
<1>1. n \in 0..MaxLen /\ n + k \in 0..MaxLen
  BY Sizes
<1>2. s \in Seq(Units) /\ Len(s) = n /\ t \in Seq(Units) /\ Len(t) = k
  BY <1>1, FirstUnitsType, UnitsFromType
<1>3. u \in Seq(Units) /\ Len(u) = n + k
  BY <1>1, FirstUnitsType, Zenon
<1>4. /\ s \o t \in Seq(Units) /\ Len(s \o t) = n + k
      /\ \A i \in 1..(n + k) : (s \o t)[i] = IF i <= n THEN s[i] ELSE t[i - n]
  BY <1>2, ConcatProperties, SMTT(30)
<1>5. ASSUME NEW i \in 1..(n + k)
      PROVE  (s \o t)[i] = u[i]
  <2>1. u[i] = Unit(c, i)
    BY DEF FirstUnits
  <2>2. CASE i <= n
    BY <1>4, <2>1, <2>2 DEF FirstUnits
  <2>3. CASE ~(i <= n)
    <3>1. i - n \in 1..k /\ n + (i - n) = i
      BY <2>3
    <3>2. t[i - n] = Unit(c, n + (i - n))
      BY <3>1 DEF UnitsFrom
    <3> QED
      BY <1>4, <2>1, <2>3, <3>1, <3>2
  <2> QED
    BY <2>2, <2>3
<1> HIDE DEF s, t, u
<1>6. s \o t = u
  BY <1>3, <1>4, <1>5, SeqEqual
<1> QED
  BY <1>6 DEF s, t, u

-----------------------------------------------------------------------------
(***************************************************************************)
(* Types.                                                                  *)
(***************************************************************************)

\* Each failure of write() takes the count of the receiver one back, and a
\* disk that is full for good has no end of them.
CountOK == -faults <= totalWriteBytes /\ (spc = "full" => FullForGood)

TypeInv == TypeOK /\ CountOK

LEMMA TypeInit == Init => TypeInv
  BY Sizes, ClientsAssumption DEF Init, TypeInv, TypeOK, CountOK, FullForGood, SStates, CStates

\* What write() takes of the buffer, or of the memory before it.
LEMMA WrittenType ==
  ASSUME TypeInv, NEW k \in Nat, k <= Len(readBuffer) - totalWriteBytes
  PROVE  [i \in 1..k |-> IF totalWriteBytes + i > 0
                         THEN readBuffer[totalWriteBytes + i] ELSE Garbage]
           \in Seq(Units)
<1>1. /\ readBuffer \in Seq(Units) /\ Len(readBuffer) \in Nat
      /\ totalWriteBytes \in Int
  BY LenProperties, Sizes DEF TypeInv, TypeOK
<1> DEFINE u(i) == IF totalWriteBytes + i > 0
                   THEN readBuffer[totalWriteBytes + i] ELSE Garbage
<1>2. ASSUME NEW i \in 1..k
      PROVE  u(i) \in Units
  <2>1. CASE totalWriteBytes + i > 0
    <3>1. totalWriteBytes + i \in 1..Len(readBuffer)
      BY <1>1, <2>1
    <3> QED
      BY <1>1, <2>1, <3>1, ElementOfSeq
  <2>2. CASE ~(totalWriteBytes + i > 0)
    BY <2>2, Sizes DEF Garbage, Units
  <2> QED
    BY <2>1, <2>2
<1> HIDE DEF u
<1>3. [i \in 1..k |-> u(i)] \in [1..k -> Units]
  BY <1>2, Zenon
<1>4. [i \in 1..k |-> u(i)] \in Seq(Units)
  BY <1>3, SeqOfLength
<1> QED
  BY <1>4 DEF u

ReceiverFails == WriteFails \/ DiskFull \/ FullEnds

LEMMA ServerTypes ==
  TypeInv /\ (ServerStep \/ AcceptFails \/ ReceiverFails) => TypeInv'
<1> SUFFICES ASSUME TypeInv, ServerStep \/ AcceptFails \/ ReceiverFails
             PROVE  TypeInv'
  OBVIOUS
<1> USE DEF TypeInv
<1>1. CASE OpenServer \/ ReadEndOfStream \/ AcceptFails \/ FullEnds
  BY <1>1 DEF OpenServer, ReadEndOfStream, AcceptFails, FullEnds, TypeOK, CountOK, FullForGood,
              SStates, clientVars
<1>2. CASE OpenFile \/ CloseAll
  <2>1. <<>> \in Seq(Clients) /\ <<>> \in Seq(Units) /\ Len(<<>>) <= Backlog
    BY Sizes
  <2> QED
    BY <1>2, <2>1 DEF OpenFile, CloseAll, TypeOK, CountOK, FullForGood, SStates, clientVars
<1>3. CASE WaitConnection
  <2>1. backlog \in Seq(Clients) /\ Len(backlog) <= Backlog /\ backlog # <<>>
    BY <1>3 DEF WaitConnection, TypeOK
  <2>2. /\ Head(backlog) \in Clients /\ Tail(backlog) \in Seq(Clients)
        /\ Len(Tail(backlog)) <= Backlog
    BY <2>1, HeadTailProperties, LenProperties, Sizes
  <2> QED
    BY <1>3, <2>2 DEF WaitConnection, TypeOK, CountOK, FullForGood, SStates, clientVars
<1>4. ASSUME NEW k \in 1..Chunk, ReadPortion(k)
      PROVE  TypeInv'
  <2>1. conn \in Clients /\ net[conn] \in Seq(Units) /\ Len(net[conn]) \in Nat
        /\ k <= Len(net[conn]) /\ Len(net[conn]) <= Capacity
    BY <1>4, LenProperties DEF ReadPortion, TypeOK
  <2>2. /\ SubSeq(net[conn], 1, k) \in Seq(Units)
        /\ Len(SubSeq(net[conn], 1, k)) = k
    BY <2>1, PartType
  <2>3. /\ SubSeq(net[conn], k + 1, Len(net[conn])) \in Seq(Units)
        /\ Len(SubSeq(net[conn], k + 1, Len(net[conn]))) <= Capacity
    BY <2>1, PartType, Sizes
  <2>4. /\ net' \in [Clients -> Seq(Units)]
        /\ \A c \in Clients : Len(net'[c]) <= Capacity
    BY <1>4, <2>1, <2>3 DEF ReadPortion, TypeOK
  <2>5. /\ readBuffer' \in Seq(Units) /\ Len(readBuffer') <= Chunk
        /\ totalWriteBytes' \in (-MaxFaults)..Len(readBuffer')
        /\ CountOK'
    BY <1>4, <2>2, Sizes DEF ReadPortion, TypeOK, CountOK, FullForGood
  <2> QED
    BY <1>4, <2>1, <2>4, <2>5 DEF ReadPortion, TypeOK, SStates, clientVars
<1>5. ASSUME NEW k \in 1..(Chunk + MaxFaults), WritePortion(k)
      PROVE  TypeInv'
  <2>1. k \in Nat /\ 1 <= k /\ Len(readBuffer) \in Nat
        /\ k <= Len(readBuffer) - totalWriteBytes
    BY <1>5, LenProperties, Sizes DEF WritePortion, TypeOK
  <2>2. local' \in Seq(Units)
    BY <1>5, <2>1, WrittenType, ConcatProperties DEF WritePortion, TypeOK
  <2>3. totalWriteBytes' \in (-MaxFaults)..Len(readBuffer') /\ CountOK'
    BY <1>5, <2>1, Sizes DEF WritePortion, TypeOK, CountOK, FullForGood
  <2> QED
    BY <1>5, <2>2, <2>3 DEF WritePortion, TypeOK, SStates, clientVars
<1>6. CASE WriteFails
  <2>1. Len(readBuffer) \in Nat
    BY LenProperties DEF TypeOK
  <2>2. /\ faults' \in 0..(MaxFaults + 1) /\ CountOK'
        /\ totalWriteBytes' \in (-MaxFaults)..Len(readBuffer')
    BY <1>6, <2>1, Sizes DEF WriteFails, TypeOK, CountOK, FullForGood
  <2> QED
    BY <1>6, <2>2 DEF WriteFails, TypeOK, clientVars
<1>7. CASE DiskFull
  <2>1. faults' \in 0..(MaxFaults + 1) /\ CountOK'
    BY <1>7, Sizes DEF DiskFull, TypeOK, CountOK, FullForGood
  <2> QED
    BY <1>7, <2>1 DEF DiskFull, TypeOK, SStates, clientVars
<1> QED
  BY <1>1, <1>2, <1>3, <1>4, <1>5, <1>6, <1>7 DEF ServerStep, ReceiverFails

TransmitterStep(c) ==
  ClientStep(c) \/ Connect(c) \/ ConnectFails(c) \/ SpinEnds(c) \/ Interrupt(c)

LEMMA ClientTypes ==
  ASSUME TypeInv, NEW c \in Clients, TransmitterStep(c)
  PROVE  TypeInv'
<1> USE DEF TypeInv
<1>1. CASE OpenSource(c) \/ ConnectFails(c) \/ SpinEnds(c) \/ BrokenPipe(c)
           \/ CloseClient(c) \/ Interrupt(c)
  <2>1. cpc' \in [Clients -> CStates]
    BY <1>1 DEF OpenSource, ConnectFails, SpinEnds, BrokenPipe, CloseClient,
                Interrupt, TypeOK, CStates
  <2>2. UNCHANGED <<serverVars, backlog, len, sent, portion, net>>
    BY <1>1 DEF OpenSource, ConnectFails, SpinEnds, BrokenPipe, CloseClient,
                Interrupt
  <2> QED
    BY <2>1, <2>2 DEF TypeOK, CountOK, FullForGood, serverVars
<1>2. CASE Connect(c)
  <2>1. backlog' \in Seq(Clients) /\ Len(backlog') <= Backlog
    BY <1>2, AppendProperties, LenProperties, Sizes DEF Connect, TypeOK
  <2> QED
    BY <1>2, <2>1 DEF Connect, TypeOK, CountOK, FullForGood, CStates, serverVars
<1>3. CASE ReadSource(c)
  <2>1. Smaller(sent[c] + Chunk, len[c]) \in 0..MaxLen
    <3>1. sent[c] \in 0..MaxLen /\ len[c] \in 0..MaxLen
      BY DEF TypeOK
    <3> QED
      BY <3>1, Sizes DEF Smaller
  <2>2. portion' \in [Clients -> 0..MaxLen] /\ cpc' \in [Clients -> CStates]
    BY <1>3, <2>1 DEF ReadSource, TypeOK, CStates
  <2>3. UNCHANGED <<serverVars, backlog, len, sent, net>>
    BY <1>3 DEF ReadSource
  <2> QED
    BY <2>2, <2>3 DEF TypeOK, CountOK, FullForGood, serverVars
<1>4. ASSUME NEW k \in 1..Chunk, WriteSource(c, k)
      PROVE  TypeInv'
  <2>1. /\ sent[c] \in Nat /\ k \in Nat /\ sent[c] + k <= MaxLen
        /\ net[c] \in Seq(Units) /\ Len(net[c]) + k <= Capacity
    BY <1>4, Sizes DEF WriteSource, TypeOK
  <2>2. /\ net[c] \o UnitsFrom(c, sent[c], k) \in Seq(Units)
        /\ Len(net[c] \o UnitsFrom(c, sent[c], k)) <= Capacity
    <3> DEFINE new == UnitsFrom(c, sent[c], k)
    <3>1. new \in Seq(Units) /\ Len(new) = k
      BY <2>1, UnitsFromType
    <3> HIDE DEF new
    <3>2. /\ net[c] \o new \in Seq(Units)
          /\ Len(net[c] \o new) = Len(net[c]) + k
      BY <2>1, <3>1, ConcatProperties
    <3> QED
      BY <2>1, <3>2 DEF new
  <2>3. /\ net' \in [Clients -> Seq(Units)]
        /\ \A b \in Clients : Len(net'[b]) <= Capacity
    BY <1>4, <2>2 DEF WriteSource, TypeOK, UnitsFrom
  <2>4. sent' \in [Clients -> 0..MaxLen]
    <3>1. sent' = [sent EXCEPT ![c] = sent[c] + k]
          /\ sent \in [Clients -> 0..MaxLen]
      BY <1>4 DEF WriteSource, TypeOK
    <3>2. sent[c] + k \in 0..MaxLen
      BY <2>1, Sizes
    <3> QED
      BY <3>1, <3>2
  <2> QED
    BY <1>4, <2>3, <2>4 DEF WriteSource, TypeOK, CountOK, FullForGood, CStates, serverVars
<1> QED
  BY <1>1, <1>2, <1>3, <1>4 DEF TransmitterStep, ClientStep

LEMMA TypeInvariant == Spec => []TypeInv
<1>1. Init => TypeInv
  BY TypeInit
<1>2. TypeInv /\ [Next]_vars => TypeInv'
  <2> SUFFICES ASSUME TypeInv, [Next]_vars PROVE TypeInv'
    OBVIOUS
  <2>1. CASE Next
    BY <2>1, ServerTypes, ClientTypes DEF Next, ReceiverFails, TransmitterStep
  <2>2. CASE UNCHANGED vars
    BY <2>2 DEF vars, TypeInv, TypeOK, CountOK, FullForGood
  <2> QED
    BY <2>1, <2>2
<1> QED
  BY <1>1, <1>2, PTL DEF Spec

\* The variables of the one-shot transfer keep their types: no count leaves
\* its buffer, except below, by the failures of write() (server.c:62-70).
THEOREM TypeCorrect == Spec => []TypeOK
<1>1. TypeInv => TypeOK
  BY DEF TypeInv
<1> QED
  BY <1>1, TypeInvariant, PTL

-----------------------------------------------------------------------------
(***************************************************************************)
(* What becomes of the units.                                              *)
(***************************************************************************)

Queued(c) == \E i \in 1..Len(backlog) : backlog[i] = c

\* The receiver is given the first connection, and only one.
ConnOK ==
  /\ spc \in {"boot", "open", "accept"} => conn = NoClient
  /\ conn = NoClient => local = <<>>

\* Whoever the receiver has, or has queued, did connect; if it came to its
\* end by itself, it has sent all of its file.
ReachedOK ==
  \A c \in Clients : c = conn \/ Queued(c) =>
    /\ cpc[c] \in {"read", "write", "close", "done", "crashed"}
    /\ cpc[c] \in {"close", "done"} => sent[c] = len[c]

LengthOK == \A c \in Clients : portion[c] <= len[c] /\ sent[c] <= len[c]

\* What was sent on a connection that is not accepted is still there.
PendingOK == \A c \in Clients : c # conn => net[c] = FirstUnits(c, sent[c])

\* Until a write() fails, what was sent to the receiver is in its file, in its
\* buffer or still there, in this order.
ReceivedOK ==
  faults = 0 /\ conn # NoClient =>
    local \o Unwritten \o net[conn] = FirstUnits(conn, sent[conn])

\* The receiver closes after the last unit.
DrainedOK ==
  spc \in {"close", "ended"} /\ conn # NoClient =>
    net[conn] = <<>> /\ cpc[conn] \in Ended

FlowInv ==
  /\ ConnOK /\ ReachedOK /\ LengthOK
  /\ PendingOK /\ ReceivedOK /\ DrainedOK

LEMMA FlowInit == Init => FlowInv
<1> SUFFICES ASSUME Init PROVE FlowInv
  OBVIOUS
<1>1. ConnOK /\ ReceivedOK /\ DrainedOK
  BY DEF Init, ConnOK, ReceivedOK, DrainedOK
<1>2. ReachedOK
  <2>1. ~(\E c \in Clients : c = conn \/ Queued(c))
    BY ClientsAssumption DEF Init, Queued
  <2> QED
    BY <2>1 DEF ReachedOK
<1>3. LengthOK
  BY Sizes DEF Init, LengthOK
<1>4. PendingOK
  BY DEF Init, PendingOK, FirstUnits
<1> QED
  BY <1>1, <1>2, <1>3, <1>4 DEF FlowInv

LEMMA UnwrittenType ==
  ASSUME TypeInv, faults = 0
  PROVE  Unwritten \in Seq(Units)
<1>1. /\ readBuffer \in Seq(Units) /\ Len(readBuffer) \in Nat
      /\ totalWriteBytes \in Nat
  BY LenProperties, Sizes DEF TypeInv, TypeOK, CountOK, FullForGood
<1>2. SubSeq(readBuffer, totalWriteBytes + 1, Len(readBuffer)) \in Seq(Units)
  BY <1>1, PartType
<1> QED
  BY <1>2 DEF Unwritten

\* A portion moves from the connection to the buffer.
LEMMA ReadPortionFlows ==
  ASSUME TypeInv, FlowInv, NEW k \in 1..Chunk, ReadPortion(k), faults = 0
  PROVE  local' \o Unwritten' \o net'[conn] = FirstUnits(conn, sent[conn])
<1>1. /\ conn \in Clients /\ net[conn] \in Seq(Units) /\ local \in Seq(Units)
      /\ k \in Nat /\ 1 <= k /\ k <= Len(net[conn]) /\ Len(net[conn]) \in Nat
  BY LenProperties DEF ReadPortion, TypeInv, TypeOK
<1> DEFINE n == net[conn]
           first == SubSeq(n, 1, k)
           rest == SubSeq(n, k + 1, Len(n))
<1>2. first \in Seq(Units) /\ Len(first) = k /\ rest \in Seq(Units)
  BY <1>1, PartType
<1>3. first \o rest = n
  <2>1. 1 \in 1..(Len(n) + 1) /\ k \in 0..Len(n) /\ Len(n) \in k..Len(n)
    BY <1>1
  <2>2. first \o rest = SubSeq(n, 1, Len(n))
    BY <1>1, <2>1, ConcatAdjacentSubSeq
  <2> QED
    BY <1>1, <2>2, SubSeqFull
<1>4. Unwritten' = first
  <2>1. spc' = "write" /\ readBuffer' = first /\ totalWriteBytes' = 0
    BY DEF ReadPortion
  <2>2. Unwritten' = SubSeq(readBuffer', 0 + 1, Len(readBuffer'))
    BY <2>1 DEF Unwritten
  <2> HIDE DEF first
  <2>3. SubSeq(first, 1, Len(first)) = first
    BY <1>2, SubSeqFull
  <2> QED
    BY <2>1, <2>2, <2>3
<1>5. local' = local /\ net'[conn] = rest
  BY <1>1 DEF ReadPortion, TypeInv, TypeOK
<1>6. local \o Unwritten \o n = FirstUnits(conn, sent[conn])
  BY <1>1, ClientsAssumption DEF FlowInv, ReceivedOK
<1>7. local \o Unwritten = local
  <2>1. Unwritten = <<>>
    BY DEF ReadPortion, Unwritten
  <2> QED
    BY <1>1, <2>1, ConcatEmptySeq
<1> HIDE DEF n, first, rest
<1>8. (local \o first) \o rest = local \o (first \o rest)
  BY <1>1, <1>2
<1> QED
  BY <1>3, <1>4, <1>5, <1>6, <1>7, <1>8

\* A part of the buffer moves to the file.
LEMMA WritePortionFlows ==
  ASSUME TypeInv, FlowInv, NEW k \in 1..(Chunk + MaxFaults), WritePortion(k),
         faults = 0
  PROVE  local' \o Unwritten' \o net[conn] = FirstUnits(conn, sent[conn])
<1> DEFINE b == readBuffer
           t == totalWriteBytes
           part == SubSeq(b, t + 1, t + k)
           rest == SubSeq(b, t + k + 1, Len(b))
           u == [i \in 1..k |-> IF t + i > 0 THEN b[t + i] ELSE Garbage]
<1>1. /\ conn \in Clients /\ local \in Seq(Units) /\ b \in Seq(Units)
      /\ Len(b) \in Nat /\ t \in Nat /\ k \in Nat /\ 1 <= k /\ t + k <= Len(b)
  BY LenProperties, Sizes DEF WritePortion, TypeInv, TypeOK, CountOK, FullForGood
<1>2. local' = local \o u /\ UNCHANGED <<readBuffer, conn, net>>
  BY DEF WritePortion
<1>3. u = part
  <2>1. part \in Seq(Units) /\ Len(part) = k /\ \A i \in 1..k : part[i] = b[t + i]
    <3>1. t + 1 \in Nat /\ t + k \in Nat /\ 1 <= t + 1 /\ t + k <= Len(b)
          /\ t + 1 <= t + k /\ (t + k) - (t + 1) + 1 = k
          /\ \A i \in 1..k : (t + 1) + i - 1 = t + i
      BY <1>1
    <3> QED
      BY <1>1, <3>1, PartType
  <2>2. u \in Seq(Units)
    BY <1>1, WrittenType
  <2>3. Len(u) = k /\ \A i \in 1..k : u[i] = b[t + i]
    BY <1>1
  <2> HIDE DEF u, part
  <2> QED
    BY <2>1, <2>2, <2>3, SeqEqual
<1>4. part \in Seq(Units) /\ rest \in Seq(Units)
  BY <1>1, PartType
<1>5. part \o rest = SubSeq(b, t + 1, Len(b))
  <2>1. t + 1 \in 1..(Len(b) + 1) /\ t + k \in ((t + 1) - 1)..Len(b)
        /\ Len(b) \in (t + k)..Len(b)
    BY <1>1
  <2> QED
    BY <1>1, <2>1, ConcatAdjacentSubSeq
<1>6. Unwritten = SubSeq(b, t + 1, Len(b))
  BY DEF WritePortion, Unwritten
<1>7. Unwritten' = rest
  <2>1. CASE t + k < Len(b)
    <3>1. spc' = "write" /\ totalWriteBytes' = t + k
      BY <2>1 DEF WritePortion
    <3> QED
      BY <1>2, <3>1 DEF Unwritten
  <2>2. CASE ~(t + k < Len(b))
    <3>1. Unwritten' = <<>>
      BY <2>2 DEF WritePortion, Unwritten
    <3>2. rest = <<>>
      <4>1. t + k + 1 \in Int /\ Len(b) \in Int /\ Len(b) < t + k + 1
        BY <1>1, <2>2
      <4> QED
        BY <4>1, SubSeqEmpty
    <3> QED
      BY <3>1, <3>2
  <2> QED
    BY <2>1, <2>2
<1>8. local \o Unwritten \o net[conn] = FirstUnits(conn, sent[conn])
  BY <1>1, ClientsAssumption DEF FlowInv, ReceivedOK
<1> HIDE DEF part, rest, u
<1>9. (local \o part) \o rest = local \o (part \o rest)
  BY <1>1, <1>4
<1> QED
  BY <1>2, <1>3, <1>5, <1>6, <1>7, <1>8, <1>9

\* Units are added at the end of what was sent.
LEMMA WriteSourceFlows ==
  ASSUME TypeInv, NEW c \in Clients, NEW k \in 1..Chunk, WriteSource(c, k),
         NEW s \in Seq(Units), s \o net[c] = FirstUnits(c, sent[c])
  PROVE  s \o net'[c] = FirstUnits(c, sent'[c])
<1>1. /\ net[c] \in Seq(Units) /\ sent[c] \in Nat /\ k \in Nat
      /\ sent[c] + k <= MaxLen
  <2>1. /\ sent[c] \in 0..MaxLen /\ portion[c] \in 0..MaxLen
        /\ net[c] \in Seq(Units)
    BY DEF TypeInv, TypeOK
  <2>2. k <= portion[c] - sent[c]
    BY DEF WriteSource
  <2> QED
    BY <2>1, <2>2, Sizes
<1>2. /\ net'[c] = net[c] \o UnitsFrom(c, sent[c], k)
      /\ sent'[c] = sent[c] + k
  BY DEF WriteSource, UnitsFrom, TypeInv, TypeOK
<1> DEFINE new == UnitsFrom(c, sent[c], k)
<1>3. new \in Seq(Units)
  BY <1>1, UnitsFromType
<1>4. FirstUnits(c, sent[c]) \o new = FirstUnits(c, sent[c] + k)
  BY <1>1, UnitsJoin
<1> DEFINE n == net[c]
<1>5. n \in Seq(Units)
  BY <1>1
<1> HIDE DEF new, n
<1>6. (s \o n) \o new = s \o (n \o new)
  BY <1>3, <1>5
<1> QED
  BY <1>2, <1>4, <1>6 DEF new, n

\* The steps of the receiver.
LEMMA ServerFlows ==
  TypeInv /\ FlowInv /\ (ServerStep \/ AcceptFails \/ ReceiverFails) => FlowInv'
<1> SUFFICES ASSUME TypeInv, FlowInv, ServerStep \/ AcceptFails \/ ReceiverFails
             PROVE  FlowInv'
  OBVIOUS
<1> USE DEF FlowInv
<1>1. UNCHANGED <<cpc, len, sent, portion>>
  BY DEF ServerStep, OpenServer, OpenFile, WaitConnection, ReadPortion,
         ReadEndOfStream, WritePortion, CloseAll, AcceptFails, ReceiverFails,
         WriteFails, DiskFull, FullEnds, clientVars
<1>2. LengthOK'
  BY <1>1 DEF LengthOK
<1>3. CASE OpenServer \/ OpenFile \/ AcceptFails
  <2>1. /\ spc \in {"boot", "open", "accept"} /\ conn = NoClient
        /\ conn' = conn /\ net' = net /\ local' = <<>>
        /\ backlog' = backlog \/ backlog' = <<>>
    BY <1>3 DEF OpenServer, OpenFile, AcceptFails, ConnOK
  <2>2. ConnOK' /\ ReceivedOK' /\ DrainedOK'
    BY <2>1 DEF ConnOK, ReceivedOK, DrainedOK
  <2>3. ReachedOK'
    BY <1>1, <2>1 DEF ReachedOK, Queued
  <2>4. PendingOK'
    BY <1>1, <2>1 DEF PendingOK
  <2> QED
    BY <1>2, <2>2, <2>3, <2>4
<1>4. CASE WaitConnection
  <2>1. /\ conn = NoClient /\ local = <<>> /\ backlog # <<>>
        /\ backlog \in Seq(Clients)
    BY <1>4 DEF WaitConnection, ConnOK, TypeInv, TypeOK
  <2>2. /\ conn' = Head(backlog) /\ backlog' = Tail(backlog) /\ spc' = "read"
        /\ UNCHANGED <<local, net, faults>>
    BY <1>4 DEF WaitConnection
  <2>3. conn' \in Clients /\ Queued(conn')
    <3>1. Head(backlog) \in Clients /\ Head(backlog) = backlog[1]
          /\ 1 \in 1..Len(backlog)
      BY <2>1, HeadTailProperties
    <3> QED
      BY <2>2, <3>1 DEF Queued
  <2>4. \A c \in Clients : Queued(c)' => Queued(c)
    <3> SUFFICES ASSUME NEW c \in Clients, NEW i \in 1..Len(backlog'),
                        backlog'[i] = c
                 PROVE  Queued(c)
      BY DEF Queued
    <3>1. Len(backlog) \in Nat /\ Len(backlog') = Len(backlog) - 1
          /\ backlog'[i] = backlog[i + 1]
      BY <2>1, <2>2, HeadTailProperties, LenProperties
    <3>2. i + 1 \in 1..Len(backlog)
      BY <3>1
    <3> QED
      BY <3>1, <3>2 DEF Queued
  <2>5. conn' # NoClient
    BY <2>3, ClientsAssumption
  <2>6. ConnOK' /\ DrainedOK'
    BY <2>2, <2>5 DEF ConnOK, DrainedOK
  <2>7. ReachedOK'
    BY <1>1, <2>3, <2>4 DEF ReachedOK
  <2>8. PendingOK'
    BY <1>1, <2>1, <2>2, ClientsAssumption DEF PendingOK
  <2>9. ReceivedOK'
    <3>1. net[conn'] = FirstUnits(conn', sent[conn'])
      BY <2>1, <2>3, <2>5 DEF PendingOK
    <3>2. Unwritten' = <<>>
      BY <2>2 DEF Unwritten
    <3>3. net[conn'] \in Seq(Units)
      BY <2>3 DEF TypeInv, TypeOK
    <3>4. <<>> \o <<>> \o net[conn'] = net[conn']
      <4>1. <<>> \o <<>> = <<>>
        OBVIOUS
      <4> QED
        BY <3>3, <4>1, ConcatEmptySeq
    <3> QED
      BY <1>1, <2>1, <2>2, <3>1, <3>2, <3>4 DEF ReceivedOK
  <2> QED
    BY <1>2, <2>6, <2>7, <2>8, <2>9
<1>5. ASSUME NEW k \in 1..Chunk, ReadPortion(k)
      PROVE  FlowInv'
  <2>1. /\ conn \in Clients /\ spc = "read" /\ spc' = "write"
        /\ UNCHANGED <<conn, local, backlog, faults>>
    BY <1>5 DEF ReadPortion, TypeInv, TypeOK
  <2>2. ConnOK' /\ DrainedOK'
    BY <2>1 DEF ConnOK, DrainedOK
  <2>3. ReachedOK'
    BY <1>1, <2>1 DEF ReachedOK, Queued
  <2>4. PendingOK'
    BY <1>1, <1>5, <2>1 DEF PendingOK, ReadPortion, TypeInv, TypeOK
  <2>5. ReceivedOK'
    BY <1>1, <1>5, <2>1, ReadPortionFlows DEF ReceivedOK
  <2> QED
    BY <1>2, <2>2, <2>3, <2>4, <2>5
<1>6. CASE ReadEndOfStream
  <2>1. /\ conn \in Clients /\ spc = "read" /\ spc' = "close"
        /\ net[conn] = <<>> /\ cpc[conn] \in Ended
        /\ UNCHANGED <<conn, local, backlog, faults, net, readBuffer,
                       totalWriteBytes>>
    BY <1>6 DEF ReadEndOfStream, TypeInv, TypeOK
  <2>2. ConnOK' /\ DrainedOK'
    BY <1>1, <2>1 DEF ConnOK, DrainedOK
  <2>3. ReachedOK' /\ PendingOK'
    BY <1>1, <2>1 DEF ReachedOK, Queued, PendingOK
  <2>4. ReceivedOK'
    BY <1>1, <2>1 DEF ReceivedOK, Unwritten
  <2> QED
    BY <1>2, <2>2, <2>3, <2>4
<1>7. ASSUME NEW k \in 1..(Chunk + MaxFaults), WritePortion(k)
      PROVE  FlowInv'
  <2>1. /\ conn \in Clients /\ spc = "write" /\ spc' \in {"read", "write"}
        /\ UNCHANGED <<conn, backlog, faults, net>>
    BY <1>7 DEF WritePortion, TypeInv, TypeOK
  <2>2. ConnOK' /\ DrainedOK'
    BY <2>1, ClientsAssumption DEF ConnOK, DrainedOK
  <2>3. ReachedOK' /\ PendingOK'
    BY <1>1, <2>1 DEF ReachedOK, Queued, PendingOK
  <2>4. ReceivedOK'
    BY <1>1, <1>7, <2>1, WritePortionFlows DEF ReceivedOK
  <2> QED
    BY <1>2, <2>2, <2>3, <2>4
<1>8. CASE WriteFails
  <2>1. /\ faults' = faults + 1 /\ faults \in Nat
        /\ UNCHANGED <<spc, conn, local, backlog, net>>
    BY <1>8, Sizes DEF WriteFails, TypeInv, TypeOK
  <2>2. faults' # 0
    BY <2>1, Sizes
  <2>3. ConnOK' /\ DrainedOK' /\ ReachedOK' /\ PendingOK'
    BY <1>1, <2>1 DEF ConnOK, DrainedOK, ReachedOK, Queued, PendingOK
  <2>4. ReceivedOK'
    BY <2>2 DEF ReceivedOK
  <2> QED
    BY <1>2, <2>3, <2>4
<1>9. CASE CloseAll
  <2>1. /\ spc = "close" /\ spc' = "ended" /\ backlog' = <<>>
        /\ UNCHANGED <<conn, local, faults, net, readBuffer, totalWriteBytes>>
    BY <1>9 DEF CloseAll
  <2>2. ConnOK' /\ DrainedOK'
    BY <1>1, <2>1 DEF ConnOK, DrainedOK
  <2>3. ReachedOK' /\ PendingOK'
    BY <1>1, <2>1 DEF ReachedOK, Queued, PendingOK
  <2>4. ReceivedOK'
    BY <1>1, <2>1 DEF ReceivedOK, Unwritten
  <2> QED
    BY <1>2, <2>2, <2>3, <2>4
<1>10. CASE DiskFull \/ FullEnds
  <2>1. /\ conn \in Clients /\ spc' \in {"full", "read"}
        /\ UNCHANGED <<conn, local, backlog, net>>
    BY <1>10 DEF DiskFull, FullEnds, TypeInv, TypeOK
  <2>2. faults' # 0
    <3>1. spc = "full" => faults # 0
      BY Sizes DEF TypeInv, CountOK, FullForGood
    <3> QED
      BY <1>10, <3>1, Sizes DEF DiskFull, FullEnds
  <2>3. ConnOK' /\ DrainedOK' /\ ReachedOK' /\ PendingOK'
    BY <1>1, <2>1, ClientsAssumption DEF ConnOK, DrainedOK, ReachedOK, Queued, PendingOK
  <2>4. ReceivedOK'
    BY <2>2 DEF ReceivedOK
  <2> QED
    BY <1>2, <2>3, <2>4
<1> QED
  BY <1>3, <1>4, <1>5, <1>6, <1>7, <1>8, <1>9, <1>10 DEF ServerStep, ReceiverFails

\* The steps of a transmitter.
LEMMA ClientFlows ==
  ASSUME TypeInv, FlowInv, NEW c \in Clients, TransmitterStep(c)
  PROVE  FlowInv'
<1> USE DEF FlowInv
<1>1. UNCHANGED serverVars /\ len' = len
  BY DEF TransmitterStep, ClientStep, OpenSource, Connect, ConnectFails,
         ReadSource, WriteSource, BrokenPipe, CloseClient, SpinEnds, Interrupt
<1>2. ConnOK' /\ Unwritten' = Unwritten
  BY <1>1 DEF serverVars, ConnOK, Unwritten
<1>3. /\ cpc \in [Clients -> CStates] /\ len \in [Clients -> 0..MaxLen]
      /\ sent \in [Clients -> 0..MaxLen] /\ portion \in [Clients -> 0..MaxLen]
      /\ net \in [Clients -> Seq(Units)] /\ conn \in Clients \union {NoClient}
  BY DEF TypeInv, TypeOK
<1>4. CASE OpenSource(c) \/ ConnectFails(c) \/ SpinEnds(c) \/ BrokenPipe(c)
           \/ CloseClient(c) \/ Interrupt(c)
  <2>1. /\ UNCHANGED <<backlog, sent, portion, net>>
        /\ \A b \in Clients : b # c => cpc'[b] = cpc[b]
        /\ cpc[c] \notin Ended
    BY <1>3, <1>4 DEF OpenSource, ConnectFails, SpinEnds, BrokenPipe,
                      CloseClient, Interrupt, Ended
  <2>2. LengthOK' /\ PendingOK' /\ ReceivedOK'
    BY <1>1, <1>2, <2>1 DEF serverVars, LengthOK, PendingOK, ReceivedOK
  <2>3. DrainedOK'
    BY <1>1, <1>3, <2>1 DEF serverVars, DrainedOK
  <2>4. ReachedOK'
    <3>1. ASSUME c = conn \/ Queued(c)
          PROVE  cpc'[c] = "crashed" \/ (cpc[c] = "close" /\ cpc'[c] = "done")
      <4>1. cpc[c] \in {"read", "write", "close", "done", "crashed"}
        BY <3>1 DEF ReachedOK
      <4>2. ~OpenSource(c) /\ ~ConnectFails(c) /\ ~SpinEnds(c)
        BY <4>1 DEF OpenSource, ConnectFails, SpinEnds
      <4> QED
        BY <1>3, <1>4, <4>2 DEF BrokenPipe, CloseClient, Interrupt
    <3> QED
      BY <1>1, <2>1, <3>1 DEF serverVars, ReachedOK, Queued
  <2> QED
    BY <1>2, <2>2, <2>3, <2>4
<1>5. CASE Connect(c)
  <2>1. /\ UNCHANGED <<sent, portion, net>> /\ cpc[c] = "connect"
        /\ cpc'[c] = "read" /\ \A b \in Clients : b # c => cpc'[b] = cpc[b]
    BY <1>3, <1>5 DEF Connect
  <2>2. LengthOK' /\ PendingOK' /\ ReceivedOK'
    BY <1>1, <1>2, <2>1 DEF serverVars, LengthOK, PendingOK, ReceivedOK
  <2>3. DrainedOK'
    BY <1>1, <1>3, <2>1 DEF serverVars, DrainedOK, Ended
  <2>4. \A b \in Clients : Queued(b)' => b = c \/ Queued(b)
    <3> SUFFICES ASSUME NEW b \in Clients, NEW i \in 1..Len(backlog'),
                        backlog'[i] = b
                 PROVE  b = c \/ Queued(b)
      BY DEF Queued
    <3>1. backlog \in Seq(Clients) /\ backlog' = Append(backlog, c)
      BY <1>5 DEF Connect, TypeInv, TypeOK
    <3>2. /\ Len(backlog) \in Nat /\ Len(backlog') = Len(backlog) + 1
          /\ \A j \in 1..Len(backlog) : backlog'[j] = backlog[j]
          /\ backlog'[Len(backlog) + 1] = c
      BY <3>1, AppendProperties, LenProperties
    <3>3. i \in 1..Len(backlog) \/ i = Len(backlog) + 1
      BY <3>2
    <3> QED
      BY <3>2, <3>3 DEF Queued
  <2>5. ReachedOK'
    BY <1>1, <2>1, <2>4 DEF serverVars, ReachedOK
  <2> QED
    BY <1>2, <2>2, <2>3, <2>5
<1>6. CASE ReadSource(c)
  <2>1. /\ UNCHANGED <<backlog, sent, net>> /\ cpc[c] = "read"
        /\ cpc'[c] = IF sent[c] < len[c] THEN "write" ELSE "close"
        /\ \A b \in Clients : b # c => cpc'[b] = cpc[b] /\ portion'[b] = portion[b]
        /\ portion'[c] = Smaller(sent[c] + Chunk, len[c])
    BY <1>3, <1>6 DEF ReadSource
  <2>2. Smaller(sent[c] + Chunk, len[c]) <= len[c]
    BY <1>3, Sizes DEF Smaller
  <2>3. LengthOK' /\ PendingOK' /\ ReceivedOK'
    BY <1>1, <1>2, <2>1, <2>2 DEF serverVars, LengthOK, PendingOK, ReceivedOK
  <2>4. DrainedOK'
    BY <1>1, <1>3, <2>1 DEF serverVars, DrainedOK, Ended
  <2>5. cpc'[c] = "close" => sent[c] = len[c]
    BY <1>3, <2>1, Sizes DEF LengthOK
  <2>6. ReachedOK'
    BY <1>1, <2>1, <2>5 DEF serverVars, ReachedOK, Queued
  <2> QED
    BY <1>2, <2>3, <2>4, <2>6
<1>7. ASSUME NEW k \in 1..Chunk, WriteSource(c, k)
      PROVE  FlowInv'
  <2>1. /\ UNCHANGED <<backlog, portion>> /\ cpc[c] = "write"
        /\ cpc'[c] \in {"write", "read", "crashed"}
        /\ \A b \in Clients : b # c => /\ cpc'[b] = cpc[b] /\ sent'[b] = sent[b]
                                       /\ net'[b] = net[b]
        /\ sent'[c] = sent[c] + k
    BY <1>3, <1>7 DEF WriteSource
  <2>2. sent'[c] <= len[c]
    <3>1. k <= portion[c] - sent[c] /\ portion[c] <= len[c]
      BY <1>7 DEF WriteSource, LengthOK
    <3> QED
      BY <1>3, <2>1, <3>1, Sizes
  <2>3. LengthOK'
    BY <1>1, <2>1, <2>2 DEF LengthOK
  <2>4. DrainedOK'
    BY <1>1, <1>3, <2>1 DEF serverVars, DrainedOK, Ended
  <2>5. ReachedOK'
    BY <1>1, <2>1 DEF serverVars, ReachedOK, Queued
  <2>6. PendingOK'
    <3>1. c # conn => net'[c] = FirstUnits(c, sent'[c])
      <4> SUFFICES ASSUME c # conn
                   PROVE  net'[c] = FirstUnits(c, sent'[c])
        OBVIOUS
      <4>1. net[c] \in Seq(Units) /\ net[c] = FirstUnits(c, sent[c])
        BY <1>3 DEF PendingOK
      <4>2. <<>> \in Seq(Units) /\ <<>> \o net[c] = FirstUnits(c, sent[c])
        BY <4>1, ConcatEmptySeq
      <4>3. <<>> \o net'[c] = FirstUnits(c, sent'[c])
        BY <1>7, <4>2, WriteSourceFlows
      <4>4. net'[c] \in Seq(Units)
        BY ClientTypes DEF TypeInv, TypeOK
      <4> QED
        BY <4>3, <4>4, ConcatEmptySeq
    <3> QED
      BY <1>1, <2>1, <3>1 DEF serverVars, PendingOK
  <2>7. ReceivedOK'
    <3>1. CASE c # conn
      BY <1>1, <1>2, <2>1, <3>1 DEF serverVars, ReceivedOK, TypeInv, TypeOK
    <3>2. CASE c = conn
      <4> SUFFICES ASSUME faults = 0
                   PROVE  local \o Unwritten \o net'[c] = FirstUnits(c, sent'[c])
        BY <1>1, <1>2, <3>2 DEF serverVars, ReceivedOK
      <4> DEFINE s == local \o Unwritten
      <4>1. s \in Seq(Units)
        <5>1. local \in Seq(Units) /\ Unwritten \in Seq(Units)
          BY UnwrittenType DEF TypeInv, TypeOK
        <5> QED
          BY <5>1, ConcatProperties
      <4>2. s \o net[c] = FirstUnits(c, sent[c])
        BY <3>2, ClientsAssumption DEF ReceivedOK
      <4> HIDE DEF s
      <4>3. s \o net'[c] = FirstUnits(c, sent'[c])
        BY <1>7, <4>1, <4>2, WriteSourceFlows
      <4> QED
        BY <4>3 DEF s
    <3> QED
      BY <3>1, <3>2
  <2> QED
    BY <1>2, <2>3, <2>4, <2>5, <2>6, <2>7
<1> QED
  BY <1>4, <1>5, <1>6, <1>7 DEF TransmitterStep, ClientStep

LEMMA FlowInvariant == Spec => []FlowInv
<1>1. Init => FlowInv
  BY FlowInit
<1>2. TypeInv /\ FlowInv /\ [Next]_vars => FlowInv'
  <2> SUFFICES ASSUME TypeInv, FlowInv, [Next]_vars PROVE FlowInv'
    OBVIOUS
  <2>1. CASE Next
    BY <2>1, ServerFlows, ClientFlows DEF Next, ReceiverFails, TransmitterStep
  <2>2. CASE UNCHANGED vars
    BY <2>2 DEF vars, FlowInv, ConnOK, ReachedOK, Queued, LengthOK, PendingOK,
                ReceivedOK, Unwritten, DrainedOK
  <2> QED
    BY <2>1, <2>2
<1> QED
  BY <1>1, <1>2, TypeInvariant, PTL DEF Spec

-----------------------------------------------------------------------------

\* Until a write() fails, the receiver's file is made of what the accepted
\* transmitter sent, in order and each once, and is whole when both ended
\* well (server.c:62-70, client.c:49-56 of file_transfer).
THEOREM FileOfOneSender == Spec => []OneSender
<1>1. TypeInv /\ FlowInv => OneSender
  <2> SUFFICES ASSUME TypeInv, FlowInv, faults = 0, conn # NoClient
               PROVE  /\ local \o Unwritten \o net[conn]
                           = FirstUnits(conn, sent[conn])
                      /\ spc = "ended" /\ cpc[conn] = "done" =>
                           local = FirstUnits(conn, len[conn])
    BY DEF OneSender, FlowInv, ConnOK
  <2>1. local \o Unwritten \o net[conn] = FirstUnits(conn, sent[conn])
    BY DEF FlowInv, ReceivedOK
  <2>2. ASSUME spc = "ended", cpc[conn] = "done"
        PROVE  local = FirstUnits(conn, len[conn])
    <3>1. conn \in Clients /\ local \in Seq(Units)
      BY DEF TypeInv, TypeOK
    <3>2. Unwritten = <<>> /\ net[conn] = <<>>
      BY <2>2 DEF Unwritten, FlowInv, DrainedOK
    <3>3. sent[conn] = len[conn]
      BY <2>2, <3>1 DEF FlowInv, ReachedOK
    <3>4. local \o <<>> \o <<>> = local
      BY <3>1, ConcatEmptySeq
    <3> QED
      BY <2>1, <3>2, <3>3, <3>4
  <2> QED
    BY <2>1, <2>2
<1> QED
  BY <1>1, TypeInvariant, FlowInvariant, PTL

\* A transmitter that sent all of its file to a receiver that never accepted
\* it had a file no longer than the socket buffers (server.c:57, 79,
\* client.c:53 of file_transfer).
THEOREM OnlySmallLoss == Spec => []UnnoticedLossIsSmall
<1>1. TypeInv /\ FlowInv => UnnoticedLossIsSmall
  <2> SUFFICES ASSUME TypeInv, FlowInv, NEW c \in Clients, sent[c] = len[c], c # conn
               PROVE  len[c] <= Capacity
    BY DEF UnnoticedLossIsSmall
  <2>1. net[c] = FirstUnits(c, sent[c]) /\ sent[c] \in 0..MaxLen
    BY DEF FlowInv, PendingOK, TypeInv, TypeOK
  <2>2. Len(net[c]) = sent[c]
    BY <2>1, FirstUnitsType
  <2> QED
    BY <2>2 DEF TypeInv, TypeOK
<1> QED
  BY <1>1, TypeInvariant, FlowInvariant, PTL

-----------------------------------------------------------------------------
(***************************************************************************)
(* What failed writes do.  Each moves the place the next write() starts    *)
(* from one back, so that a unit too many is written, one of the buffer    *)
(* that was written already or one from before it.                         *)
(***************************************************************************)

\* Units of the file of the accepted transmitter that the receiver has read,
\* those it holds in its buffer, and those it believes it still has to write.
Taken == sent[conn] - Len(net[conn])
Buffered == IF spc = "write" THEN Len(readBuffer) ELSE 0
ToWrite == IF spc = "write" THEN Len(readBuffer) - totalWriteBytes ELSE 0

InFile(u, file) == \E j \in 1..Len(file) : file[j] = u

\* The buffer holds the last of the units taken, the connection those after.
StreamOK ==
  conn # NoClient =>
    /\ Buffered <= Taken
    /\ \A i \in 1..Len(net[conn]) : net[conn][i] = Unit(conn, Taken + i)
    /\ \A i \in 1..Buffered : readBuffer[i] = Unit(conn, Taken - Buffered + i)

\* The file holds what was taken before the buffer, and of the buffer what is
\* counted as written; it is longer than that by one for each failure.  That
\* is so until a write() never succeeds again.
WrittenOK ==
  IF conn = NoClient THEN faults = 0
  ELSE /\ Len(local) + ToWrite = Taken + faults
       /\ \A i \in 1..(Taken - Buffered) : InFile(Unit(conn, i), local)
       /\ spc = "write" => \A i \in 1..totalWriteBytes : InFile(readBuffer[i], local)

FaultInv == StreamOK /\ WrittenOK

FaultsOK == FaultInv \/ FullForGood

LEMMA FaultTypes ==
  ASSUME TypeInv
  PROVE  /\ readBuffer \in Seq(Units) /\ Len(readBuffer) \in Nat
         /\ local \in Seq(Units) /\ Len(local) \in Nat
         /\ totalWriteBytes \in Int /\ totalWriteBytes <= Len(readBuffer)
         /\ faults \in Nat
         /\ \A c \in Clients : /\ net[c] \in Seq(Units) /\ Len(net[c]) \in Nat
                               /\ sent[c] \in Nat
  BY LenProperties, Sizes DEF TypeInv, TypeOK

\* A connection is accepted: nothing of it was read before.
LEMMA AcceptFaults ==
  ASSUME TypeInv, TypeInv', FlowInv, FaultInv, WaitConnection
  PROVE  FaultInv'
<1>1. /\ conn = NoClient /\ local = <<>> /\ faults = 0 /\ spc' = "read"
      /\ UNCHANGED <<local, faults, sent, net>>
  BY DEF WaitConnection, FlowInv, ConnOK, FaultInv, WrittenOK, clientVars
<1>2. conn' \in Clients /\ conn' # conn
  BY <1>1, ClientsAssumption DEF TypeInv, TypeOK
<1> DEFINE n == net[conn']
<1>3. n = FirstUnits(conn', sent[conn']) /\ sent[conn'] \in 0..MaxLen
  BY <1>2 DEF FlowInv, PendingOK, TypeInv, TypeOK
<1>4. Len(n) = sent[conn'] /\ Len(n) \in Nat
  BY <1>2, <1>3, FirstUnitsType, FaultTypes
<1>5. Taken' = 0
  BY <1>1, <1>4 DEF Taken
<1>6. Buffered' = 0 /\ ToWrite' = 0
  BY <1>1 DEF Buffered, ToWrite
<1>7. \A i \in 1..Len(n) : n[i] = Unit(conn', 0 + i)
  BY <1>3, <1>4 DEF FirstUnits
<1>8. StreamOK'
  BY <1>1, <1>5, <1>6, <1>7 DEF StreamOK
<1>9. WrittenOK'
  <2>1. Len(local') = 0
    BY <1>1
  <2> QED
    BY <1>1, <1>2, <1>5, <1>6, <2>1, ClientsAssumption DEF WrittenOK
<1> QED
  BY <1>8, <1>9 DEF FaultInv

\* A portion moves from the connection to the buffer.
LEMMA ReadFaults ==
  ASSUME TypeInv, FaultInv, NEW k \in 1..Chunk, ReadPortion(k)
  PROVE  FaultInv'
<1> DEFINE n == net[conn]
           first == SubSeq(n, 1, k)
           rest == SubSeq(n, k + 1, Len(n))
<1>1. /\ conn \in Clients /\ conn # NoClient /\ spc = "read" /\ spc' = "write"
      /\ n \in Seq(Units) /\ Len(n) \in Nat /\ k \in Nat /\ 1 <= k /\ k <= Len(n)
      /\ sent[conn] \in Nat
  BY FaultTypes, ClientsAssumption DEF ReadPortion, TypeInv, TypeOK
<1>2. /\ readBuffer' = first /\ net'[conn] = rest /\ totalWriteBytes' = 0
      /\ UNCHANGED <<conn, local, faults, sent>>
  BY <1>1 DEF ReadPortion, TypeInv, TypeOK, clientVars
<1>3. /\ Len(first) = k /\ \A i \in 1..k : first[i] = n[i]
      /\ Len(rest) = Len(n) - k /\ \A i \in 1..(Len(n) - k) : rest[i] = n[k + i]
  <2>1. /\ Len(first) = IF 1 <= k THEN k - 1 + 1 ELSE 0
        /\ \A i \in 1..(k - 1 + 1) : first[i] = n[1 + i - 1]
    BY <1>1, PartType
  <2>2. /\ Len(rest) = IF k + 1 <= Len(n) THEN Len(n) - (k + 1) + 1 ELSE 0
        /\ \A i \in 1..(Len(n) - (k + 1) + 1) : rest[i] = n[(k + 1) + i - 1]
    <3>1. k + 1 \in Nat /\ 1 <= k + 1
      BY <1>1
    <3> QED
      BY <1>1, <3>1, PartType
  <2> HIDE DEF n, first, rest
  <2>3. Len(first) = k /\ Len(rest) = Len(n) - k
    BY <1>1, <2>1, <2>2, SMTT(30)
  <2>4. ASSUME NEW i \in 1..k
        PROVE  first[i] = n[i]
    BY <1>1, <2>1
  <2>5. ASSUME NEW i \in 1..(Len(n) - k)
        PROVE  rest[i] = n[k + i]
    <3>1. (k + 1) + i - 1 = k + i /\ i \in 1..(Len(n) - (k + 1) + 1)
      BY <1>1
    <3> QED
      BY <2>2, <3>1
  <2> QED
    BY <2>3, <2>4, <2>5
<1>4. Taken = sent[conn] - Len(n) /\ Buffered = 0 /\ ToWrite = 0
  BY <1>1 DEF Taken, Buffered, ToWrite
<1>5. Taken' = sent[conn] - Len(rest) /\ Buffered' = k /\ ToWrite' = k - 0
  BY <1>1, <1>2, <1>3 DEF Taken, Buffered, ToWrite
<1>6. /\ 0 <= Taken /\ \A i \in 1..Len(n) : n[i] = Unit(conn, Taken + i)
      /\ Len(local) + 0 = Taken + faults
      /\ \A i \in 1..(Taken - 0) : InFile(Unit(conn, i), local)
  BY <1>1, <1>4 DEF FaultInv, StreamOK, WrittenOK
<1> HIDE DEF n, first, rest
<1>7. Taken \in Int /\ Taken' = Taken + k
  BY <1>1, <1>3, <1>4, <1>5
<1>8. StreamOK'
  <2>1. Buffered' <= Taken'
    BY <1>1, <1>5, <1>6, <1>7
  <2>2. ASSUME NEW i \in 1..Len(rest)
        PROVE  rest[i] = Unit(conn, Taken' + i)
    <3>1. i \in 1..(Len(n) - k) /\ k + i \in 1..Len(n)
      BY <1>1, <1>3
    <3>2. rest[i] = Unit(conn, Taken + (k + i))
      BY <1>3, <1>6, <3>1
    <3>3. Taken + (k + i) = Taken' + i
      BY <1>1, <1>7
    <3> QED
      BY <3>2, <3>3
  <2>3. ASSUME NEW i \in 1..k
        PROVE  first[i] = Unit(conn, Taken' - k + i)
    <3>1. i \in 1..Len(n) /\ Taken' - k + i = Taken + i
      BY <1>1, <1>7
    <3> QED
      BY <1>3, <1>6, <3>1
  <2> QED
    BY <1>2, <1>5, <2>1, <2>2, <2>3 DEF StreamOK
<1>9. WrittenOK'
  <2>1. \A u : InFile(u, local') <=> InFile(u, local)
    BY <1>2
  <2>2. Taken' - Buffered' = Taken - 0 /\ Len(local) + (k - 0) = Taken' + faults
    <3>1. Len(local) \in Nat /\ faults \in Nat /\ Len(local) + 0 = Taken + faults
      BY <1>6, FaultTypes
    <3> QED
      BY <1>1, <1>5, <1>7, <3>1, SMTT(30)
  <2>3. \A i \in 1..(Taken' - Buffered') : InFile(Unit(conn, i), local')
    BY <1>2, <1>6, <2>1, <2>2
  <2>4. \A i \in 1..totalWriteBytes' : InFile(readBuffer'[i], local')
    BY <1>2
  <2> QED
    BY <1>1, <1>2, <1>5, <2>2, <2>3, <2>4 DEF WrittenOK, InFile
<1> QED
  BY <1>8, <1>9 DEF FaultInv

\* A part of the buffer, or of what comes before it, moves to the file.
LEMMA WriteFaults ==
  ASSUME TypeInv, FaultInv, NEW k \in 1..(Chunk + MaxFaults), WritePortion(k)
  PROVE  FaultInv'
<1> DEFINE b == readBuffer
           t == totalWriteBytes
           u == [i \in 1..k |-> IF t + i > 0 THEN b[t + i] ELSE Garbage]
<1>1. /\ conn \in Clients /\ conn # NoClient /\ spc = "write"
      /\ k \in Nat /\ 1 <= k /\ k <= Len(b) - t
      /\ t \in Int /\ Len(b) \in Nat /\ b \in Seq(Units)
      /\ local \in Seq(Units) /\ Len(local) \in Nat /\ Taken \in Int /\ faults \in Nat
  BY FaultTypes, Sizes, ClientsAssumption DEF WritePortion, TypeInv, TypeOK, Taken
<1>2. /\ local' = local \o u /\ totalWriteBytes' = t + k
      /\ spc' = IF t + k < Len(b) THEN "write" ELSE "read"
      /\ readBuffer' = b
      /\ UNCHANGED <<conn, faults, sent, net>>
  BY DEF WritePortion, clientVars
<1>3. u \in Seq(Units) /\ Len(u) = k
  <2>1. u \in Seq(Units)
    BY <1>1, WrittenType
  <2> QED
    BY <1>1, <2>1
<1>4. ASSUME NEW i \in 1..k, t + i > 0
      PROVE  u[i] = b[t + i]
  BY <1>4
<1> HIDE DEF u, b, t
<1>5. /\ Len(local') = Len(local) + k
      /\ \A j \in 1..Len(local) : local'[j] = local[j]
      /\ \A i \in 1..k : local'[Len(local) + i] = u[i]
  <2>1. /\ Len(local \o u) = Len(local) + Len(u)
        /\ \A j \in 1..(Len(local) + Len(u)) :
             (local \o u)[j] = IF j <= Len(local) THEN local[j] ELSE u[j - Len(local)]
    BY <1>1, <1>3, ConcatProperties
  <2>2. ASSUME NEW j \in 1..Len(local)
        PROVE  local'[j] = local[j]
    BY <1>1, <1>2, <1>3, <2>1
  <2>3. ASSUME NEW i \in 1..k
        PROVE  local'[Len(local) + i] = u[i]
    <3>1. /\ Len(local) + i \in 1..(Len(local) + Len(u))
          /\ ~(Len(local) + i <= Len(local)) /\ (Len(local) + i) - Len(local) = i
      BY <1>1, <1>3
    <3> QED
      BY <1>2, <2>1, <3>1
  <2> QED
    BY <1>2, <1>3, <2>1, <2>2, <2>3
<1>6. \A v : InFile(v, local) => InFile(v, local')
  BY <1>1, <1>5 DEF InFile
<1>7. /\ Taken' = Taken /\ Buffered = Len(b) /\ ToWrite = Len(b) - t
      /\ Buffered' = IF t + k < Len(b) THEN Len(b) ELSE 0
      /\ ToWrite' = IF t + k < Len(b) THEN Len(b) - (t + k) ELSE 0
  BY <1>1, <1>2 DEF Taken, Buffered, ToWrite, b, t
<1>8. /\ Len(b) <= Taken
      /\ \A i \in 1..Len(net[conn]) : net[conn][i] = Unit(conn, Taken + i)
      /\ \A i \in 1..Len(b) : b[i] = Unit(conn, Taken - Len(b) + i)
      /\ Len(local) + (Len(b) - t) = Taken + faults
      /\ \A i \in 1..(Taken - Len(b)) : InFile(Unit(conn, i), local)
      /\ \A i \in 1..t : InFile(b[i], local)
  BY <1>1, <1>7 DEF FaultInv, StreamOK, WrittenOK, b, t
<1>9. /\ Len(local') = Len(local) + k /\ Taken' = Taken /\ faults' = faults
      /\ Len(local) + (Len(b) - t) = Taken + faults
      /\ Len(local) \in Nat /\ Len(b) \in Nat /\ t \in Int /\ k \in Nat
      /\ Taken \in Int /\ faults \in Nat
  BY <1>1, <1>2, <1>5, <1>7, <1>8
<1>10. \A i \in 1..(t + k) : InFile(b[i], local')
  <2> SUFFICES ASSUME NEW i \in 1..(t + k)
               PROVE  InFile(b[i], local')
    OBVIOUS
  <2>1. CASE i \in 1..t
    BY <1>6, <1>8, <2>1
  <2>2. CASE i \notin 1..t
    <3> DEFINE m == i - t
    <3>1. m \in 1..k /\ t + m = i /\ t + m > 0
      BY <1>1, <2>2
    <3> HIDE DEF m
    <3>2. local'[Len(local) + m] = b[i]
      BY <1>4, <1>5, <3>1
    <3>3. Len(local) + m \in 1..Len(local')
      BY <1>1, <1>5, <3>1
    <3> QED
      BY <3>2, <3>3 DEF InFile
  <2> QED
    BY <2>1, <2>2
<1>11. CASE t + k < Len(b)
  <2>0. Buffered' = Len(b) /\ ToWrite' = Len(b) - (t + k) /\ spc' = "write"
    BY <1>2, <1>7, <1>11
  <2>1. StreamOK'
    BY <1>2, <1>7, <1>8, <2>0 DEF StreamOK
  <2>2. Len(local') + ToWrite' = Taken' + faults'
    BY <1>9, <2>0
  <2>3. \A i \in 1..(Taken' - Buffered') : InFile(Unit(conn, i), local')
    BY <1>6, <1>7, <1>8, <2>0
  <2>4. WrittenOK'
    BY <1>1, <1>2, <1>10, <2>0, <2>2, <2>3 DEF WrittenOK
  <2> QED
    BY <2>1, <2>4 DEF FaultInv
<1>12. CASE ~(t + k < Len(b))
  <2>1. t + k = Len(b) /\ Buffered' = 0 /\ ToWrite' = 0 /\ spc' = "read"
    BY <1>1, <1>2, <1>7, <1>12
  <2>2. StreamOK'
    <3>1. 0 <= Taken
      BY <1>1, <1>8
    <3>2. \A i \in 1..Buffered' : FALSE
      BY <2>1
    <3> QED
      BY <1>2, <1>7, <1>8, <2>1, <3>1, <3>2 DEF StreamOK
  <2>3. Len(local') + ToWrite' = Taken' + faults'
    BY <1>9, <2>1
  <2>4. ASSUME NEW i \in 1..(Taken' - Buffered')
        PROVE  InFile(Unit(conn, i), local')
    <3>1. i \in 1..Taken
      BY <1>1, <1>7, <2>1
    <3>2. CASE i <= Taken - Len(b)
      <4>1. i \in 1..(Taken - Len(b))
        BY <1>1, <3>1, <3>2
      <4> QED
        BY <1>6, <1>8, <4>1
    <3>3. CASE ~(i <= Taken - Len(b))
      <4> DEFINE m == i - (Taken - Len(b))
      <4>1. m \in 1..Len(b) /\ Taken - Len(b) + m = i
        BY <1>1, <3>1, <3>3
      <4> HIDE DEF m
      <4>2. b[m] = Unit(conn, i)
        BY <1>8, <4>1
      <4> QED
        BY <1>10, <2>1, <4>1, <4>2
    <3> QED
      BY <3>2, <3>3
  <2>5. WrittenOK'
    BY <1>1, <1>2, <2>1, <2>3, <2>4 DEF WrittenOK
  <2> QED
    BY <2>2, <2>5 DEF FaultInv
<1> QED
  BY <1>11, <1>12

\* Units are added to the connection.
LEMMA SourceFaults ==
  ASSUME TypeInv, FaultInv, NEW c \in Clients, NEW k \in 1..Chunk,
         WriteSource(c, k)
  PROVE  FaultInv'
<1>1. UNCHANGED <<spc, conn, readBuffer, totalWriteBytes, local, faults>>
  BY DEF WriteSource, serverVars
<1>2. CASE c # conn
  <2>1. conn # NoClient => conn \in Clients
    BY DEF TypeInv, TypeOK
  <2>2. conn # NoClient => net'[conn] = net[conn] /\ sent'[conn] = sent[conn]
    BY <1>2, <2>1 DEF WriteSource, TypeInv, TypeOK
  <2> QED
    BY <1>1, <2>2
       DEF FaultInv, StreamOK, WrittenOK, Taken, Buffered, ToWrite, InFile
<1>3. CASE c = conn
  <2> DEFINE n == net[conn]
             new == UnitsFrom(conn, sent[conn], k)
  <2>1. /\ n \in Seq(Units) /\ Len(n) \in Nat /\ sent[conn] \in Nat /\ k \in Nat
        /\ sent[conn] + k <= MaxLen /\ conn \in Clients /\ conn # NoClient
    <3>1. conn \in Clients /\ conn # NoClient
      BY <1>3, ClientsAssumption
    <3>2. n \in Seq(Units) /\ Len(n) \in Nat /\ sent[conn] \in Nat
      BY <3>1, FaultTypes
    <3>3. k <= portion[conn] - sent[conn] /\ portion[conn] \in 0..MaxLen
      BY <1>3, <3>1 DEF WriteSource, TypeInv, TypeOK
    <3> QED
      BY <3>1, <3>2, <3>3, Sizes
  <2>2. net'[conn] = n \o new /\ sent'[conn] = sent[conn] + k
    BY <1>3 DEF WriteSource, UnitsFrom, TypeInv, TypeOK
  <2>3. new \in Seq(Units) /\ Len(new) = k
    BY <2>1, UnitsFromType
  <2>4. \A i \in 1..k : new[i] = Unit(conn, sent[conn] + i)
    BY DEF UnitsFrom
  <2> HIDE DEF n, new
  <2>5. /\ Len(n \o new) = Len(n) + k
        /\ \A i \in 1..(Len(n) + k) :
             (n \o new)[i] = IF i <= Len(n) THEN n[i] ELSE new[i - Len(n)]
    BY <2>1, <2>3, ConcatProperties
  <2>6. Taken = sent[conn] - Len(n) /\ Taken \in Int /\ Taken' = Taken
    <3>1. Taken' = (sent[conn] + k) - (Len(n) + k)
      BY <1>1, <2>2, <2>5 DEF Taken
    <3>2. Taken = sent[conn] - Len(n)
      BY DEF Taken, n
    <3> QED
      BY <2>1, <3>1, <3>2
  <2>7. ASSUME NEW i \in 1..(Len(n) + k)
        PROVE  (n \o new)[i] = Unit(conn, Taken + i)
    <3>1. CASE i <= Len(n)
      <4>1. i \in 1..Len(n)
        BY <2>1, <3>1
      <4>2. n[i] = Unit(conn, Taken + i)
        BY <2>1, <4>1 DEF FaultInv, StreamOK, n
      <4> QED
        BY <2>5, <3>1, <4>2
    <3>2. CASE ~(i <= Len(n))
      <4> DEFINE m == i - Len(n)
      <4>1. m \in 1..k /\ sent[conn] + m = Taken + i
        BY <2>1, <2>6, <3>2
      <4>2. (n \o new)[i] = new[m]
        BY <2>5, <3>2
      <4> HIDE DEF m
      <4> QED
        BY <2>4, <4>1, <4>2
    <3> QED
      BY <3>1, <3>2
  <2>8. Buffered' = Buffered /\ ToWrite' = ToWrite
    BY <1>1 DEF Buffered, ToWrite
  <2>9. StreamOK'
    BY <1>1, <2>1, <2>2, <2>5, <2>6, <2>7, <2>8 DEF FaultInv, StreamOK
  <2>10. WrittenOK'
    BY <1>1, <2>6, <2>8 DEF FaultInv, WrittenOK, InFile
  <2> QED
    BY <2>9, <2>10 DEF FaultInv
<1> QED
  BY <1>2, <1>3

LEMMA FaultStep ==
  ASSUME TypeInv, TypeInv', FlowInv, FaultsOK, [Next]_vars
  PROVE  FaultsOK'
<1>0. SUFFICES ASSUME ~FullForGood'
               PROVE  FaultInv'
  BY DEF FaultsOK
<1>8. FaultInv /\ ~DiskFull /\ ~FullEnds
  <2>1. ~DiskFull
    BY <1>0 DEF DiskFull, FullForGood
  <2>2. ~FullForGood
    <3>1. faults' = faults \/ (faults < MaxFaults /\ faults \in Nat)
      BY <2>1, FaultTypes
         DEF Next, ServerStep, OpenServer, OpenFile, WaitConnection, ReadPortion,
             ReadEndOfStream, WritePortion, CloseAll, AcceptFails, WriteFails, FullEnds,
             ClientStep, OpenSource, Connect, ConnectFails, ReadSource, WriteSource,
             BrokenPipe, CloseClient, SpinEnds, Interrupt, serverVars, vars
    <3> QED
      BY <1>0, <3>1, Sizes DEF FullForGood
  <2>3. ~FullEnds
    BY <2>2 DEF FullEnds, TypeInv, CountOK
  <2> QED
    BY <2>1, <2>2, <2>3 DEF FaultsOK
<1> USE DEF FaultInv
<1>1. CASE OpenServer \/ OpenFile \/ AcceptFails
  <2>1. conn = NoClient /\ conn' = conn /\ faults' = faults
    BY <1>1 DEF OpenServer, OpenFile, AcceptFails, FlowInv, ConnOK
  <2> QED
    BY <1>8, <2>1 DEF StreamOK, WrittenOK
<1>2. CASE ReadEndOfStream \/ CloseAll
  <2>1. /\ spc \in {"read", "close"} /\ spc' \in {"close", "ended"}
        /\ UNCHANGED <<conn, readBuffer, totalWriteBytes, local, faults, sent, net>>
    BY <1>2 DEF ReadEndOfStream, CloseAll, clientVars
  <2>2. Taken' = Taken /\ Buffered' = Buffered /\ ToWrite' = ToWrite /\ spc # "write"
        /\ spc' # "write"
    BY <2>1 DEF Taken, Buffered, ToWrite
  <2> QED
    BY <1>8, <2>1, <2>2 DEF StreamOK, WrittenOK, InFile
<1>3. CASE WriteFails
  <2>1. /\ spc = "write" /\ faults' = faults + 1
        /\ totalWriteBytes' = totalWriteBytes - 1
        /\ UNCHANGED <<spc, conn, readBuffer, local, sent, net>>
    BY <1>3 DEF WriteFails, clientVars
  <2>2. conn # NoClient
    BY <2>1, ClientsAssumption DEF TypeInv, TypeOK
  <2>3. Taken' = Taken /\ Buffered' = Buffered /\ ToWrite' = ToWrite + 1
    <3>1. ToWrite = Len(readBuffer) - totalWriteBytes
          /\ ToWrite' = Len(readBuffer) - (totalWriteBytes - 1)
      BY <2>1 DEF ToWrite
    <3> QED
      BY <2>1, <3>1, FaultTypes DEF Taken, Buffered
  <2>4. Len(local') + ToWrite' = Taken' + faults'
    <3>1. Len(local) + ToWrite = Taken + faults
      BY <1>8, <2>2 DEF WrittenOK
    <3>2. conn \in Clients
      BY <2>2 DEF TypeInv, TypeOK
    <3>3. /\ Len(local) \in Nat /\ faults \in Nat /\ Taken \in Int
          /\ ToWrite \in Int
      BY <3>2, FaultTypes DEF Taken, ToWrite
    <3> QED
      BY <2>1, <2>3, <3>1, <3>3
  <2>5. \A i \in 1..totalWriteBytes' : i \in 1..totalWriteBytes
    BY <2>1, FaultTypes
  <2> QED
    BY <1>8, <2>1, <2>2, <2>3, <2>4, <2>5 DEF StreamOK, WrittenOK, InFile
<1>4. ASSUME NEW c \in Clients, TransmitterStep(c),
             ~(\E k \in 1..Chunk : WriteSource(c, k))
      PROVE  FaultInv'
  <2>1. UNCHANGED serverVars /\ sent' = sent /\ net' = net
    BY <1>4
       DEF TransmitterStep, ClientStep, OpenSource, Connect, ConnectFails,
           ReadSource, BrokenPipe, CloseClient, SpinEnds, Interrupt
  <2> QED
    BY <1>8, <2>1
       DEF serverVars, StreamOK, WrittenOK, Taken, Buffered, ToWrite, InFile
<1>5. CASE UNCHANGED vars
  BY <1>5, <1>8 DEF vars, StreamOK, WrittenOK, Taken, Buffered, ToWrite, InFile
<1>6. CASE WaitConnection \/ (\E k \in 1..Chunk : ReadPortion(k))
           \/ (\E k \in 1..(Chunk + MaxFaults) : WritePortion(k))
  BY <1>6, <1>8, AcceptFaults, ReadFaults, WriteFaults
<1>7. ASSUME NEW c \in Clients, NEW k \in 1..Chunk, WriteSource(c, k)
      PROVE  FaultInv'
  BY <1>7, <1>8, SourceFaults
<1> QED
  BY <1>1, <1>2, <1>3, <1>4, <1>5, <1>6, <1>7, <1>8 DEF Next, ServerStep, TransmitterStep

\* A failed write() to the file never loses data of the transmitter: each
\* leaves one unit too many in the file, a repeated one or one from before
\* the buffer; unless they have no end (server.c:64-68 of file_transfer).
THEOREM NoLossByFailedWrites == Spec => []FailedWritesOnlyAdd
<1>1. Init => FaultsOK
  BY DEF Init, FaultsOK, FaultInv, StreamOK, WrittenOK
<1>2. TypeInv /\ TypeInv' /\ FlowInv /\ FaultsOK /\ [Next]_vars => FaultsOK'
  BY FaultStep
<1>3. TypeInv /\ FaultsOK => FailedWritesOnlyAdd
  <2> SUFFICES ASSUME TypeInv, FaultInv, spc \in {"read", "close", "ended"},
                      conn # NoClient
               PROVE  /\ Len(local) = Taken + faults
                      /\ \A i \in 1..Taken :
                           \E j \in 1..Len(local) : local[j] = Unit(conn, i)
    BY DEF FailedWritesOnlyAdd, FaultsOK, Taken
  <2>1. Buffered = 0 /\ ToWrite = 0
    BY DEF Buffered, ToWrite
  <2>2. Len(local) + 0 = Taken + faults /\ \A i \in 1..(Taken - 0) : InFile(Unit(conn, i), local)
    BY <2>1 DEF FaultInv, WrittenOK
  <2>3. Len(local) \in Nat /\ Taken \in Int
    <3>1. conn \in Clients
      BY DEF TypeInv, TypeOK
    <3> QED
      BY <3>1, FaultTypes DEF Taken
  <2> QED
    BY <2>2, <2>3 DEF InFile
<1> QED
  BY <1>1, <1>2, <1>3, TypeInvariant, FlowInvariant, PTL DEF Spec

=============================================================================
