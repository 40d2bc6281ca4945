---------------------------- MODULE CommandLine -----------------------------
(***************************************************************************)
(* processArguments of the programs that have options, and what main or    *)
(* start does with its result.  The five functions are one loop over argv  *)
(* that differs in a few numbers and in the options it knows: one record   *)
(* each.                                                                   *)
(*                                                                         *)
(* An argument is the option it spells, or "word", and the number          *)
(* strtoimax() makes of it (0 of what is no number).  "-v" is one of the   *)
(* spellings -v[vvvv] that the help texts have, "any-v" any other argument *)
(* with -v in it, which strstr() does not tell from them.                  *)
(*                                                                         *)
(* The names that every module has are preceded by Parse here, so that one *)
(* module can speak of a program's command line and of its work.           *)
(***************************************************************************)
EXTENDS Integers, Sequences

CONSTANTS
  Numbers,    \* numbers that arguments spell
  MinPort,    \* MINPORT
  MaxPort,    \* MAXPORT
  UIntMod,    \* values of a u_int
  ExtraArgs   \* bound on the arguments beyond the mode and the names

ASSUME PortsAssumption ==
  /\ Numbers \subseteq Int /\ 0 \in Numbers
  /\ MinPort \in Nat /\ MaxPort \in Nat /\ UIntMod \in Nat
  /\ 0 < MinPort /\ MinPort <= MaxPort /\ MaxPort < UIntMod
  /\ ExtraArgs \in Nat

VARIABLES
  prog,     \* the program
  args,     \* argv[1] to argv[argc-1]
  pc,       \* where it is
  arg,      \* the argument that is next, by the i of the loops
  conf,     \* the option variables, by option
  names,    \* what was copied after the loop: addresses and file names
  helped,   \* the help was printed because of a -h
  iface     \* the address start_server is told to listen on

parseVars == <<prog, args, pc, arg, conf, names, helped, iface>>

\* min: the least argc.  modes: what argv[1] may be.  values: options that
\* take the argument after them.  stop: the loop goes on while arg < argc-stop.
\* names: how many arguments are copied after the loop.
Command(min, modes, values, stop, count) ==
  [min |-> min, modes |-> modes, values |-> values, stop |-> stop,
   names |-> count]

ServerCommand   == Command(1, {}, {"-p", "-d"}, 0, 0)
GetCommand      == Command(4, {}, {"-p"}, 3, 3)
ListCommand     == Command(2, {}, {"-p"}, 3, 1)
PingCommand     == Command(2, {"-s", "-c"}, {"-p", "-n", "-s", "-d"}, 0, 0)
TransferCommand == Command(3, {"-r", "-t"}, {"-p", "-d", "-i"}, 1, 1)

Programs == {"server", "get", "list", "ping", "transfer"}

CommandOf ==
  [server |-> ServerCommand, get |-> GetCommand, list |-> ListCommand,
   ping |-> PingCommand, transfer |-> TransferCommand]

cmd == CommandOf[prog]
argc == Len(args) + 1
Modal == cmd.modes # {}

Word(n) == [text |-> "word", num |-> n]
Spelled(o) == [text |-> o, num |-> 0]
Default == Word(0)
Nowhere == Spelled("none")
Options == {"-p", "-d", "-n", "-s", "-i"}
HasV == {"-v", "any-v"}
Args(c) == {Word(n) : n \in Numbers}
             \union {Spelled(o) : o \in c.values \union c.modes \union HasV \union {"-h"}}

ParseInit ==
  /\ prog \in Programs
  /\ \E n \in 0..(ExtraArgs + cmd.names + (IF Modal THEN 1 ELSE 0)) :
       args \in [1..n -> Args(cmd)]
  /\ pc = "start" /\ arg = 1
  /\ conf = [o \in Options |-> Default]
  /\ names = <<>>
  /\ helped = FALSE
  /\ iface = Nowhere

-----------------------------------------------------------------------------

\* What an option's argument is stored as, and whether it is accepted; only
\* the numbers are looked at, and cut to a u_int before they are.
Stored(o, a) ==
  IF o \in {"-p", "-n", "-s"} THEN Word(a.num % UIntMod) ELSE a

Accepts(o, a) ==
  CASE o = "-p"          -> Stored(o, a).num \in MinPort..MaxPort
    [] o \in {"-n", "-s"} -> Stored(o, a).num # 0
    [] OTHER             -> TRUE

\* The number of arguments and the mode.
Start ==
  /\ pc = "start"
  /\ IF argc < cmd.min \/ (Modal /\ args[1].text \notin cmd.modes)
     THEN pc' = "rejected" /\ UNCHANGED arg
     ELSE pc' = "loop" /\ arg' = IF Modal THEN 2 ELSE 1
  /\ UNCHANGED <<prog, args, conf, names, helped, iface>>

InLoop == pc = "loop" /\ arg < argc - cmd.stop

\* processArguments returns true for -h, and the program goes on.
Help ==
  /\ InLoop
  /\ args[arg].text = "-h"
  /\ helped' = TRUE
  /\ pc' = "accepted"
  /\ UNCHANGED <<prog, args, arg, conf, names, iface>>

\* Mutant: the option's argument is taken for an option again.
ValueOptionStays ==
  LET o == args[arg].text IN
  /\ InLoop
  /\ o \in cmd.values
  /\ IF arg + 1 = argc THEN pc' = "crashed" /\ UNCHANGED <<arg, conf>>
     ELSE IF ~Accepts(o, args[arg + 1])
     THEN pc' = "rejected" /\ UNCHANGED <<arg, conf>>
     ELSE /\ conf' = [conf EXCEPT ![o] = Stored(o, args[arg + 1])]
          /\ arg' = arg + 1
          /\ UNCHANGED pc
  /\ UNCHANGED <<prog, args, names, helped, iface>>

\* Mutant: the number is stored before it is compared with its bounds.
ValueOptionUnchecked ==
  LET o == args[arg].text IN
  /\ InLoop
  /\ o \in cmd.values
  /\ IF arg + 1 = argc THEN pc' = "crashed" /\ UNCHANGED <<arg, conf>>
     ELSE /\ conf' = [conf EXCEPT ![o] = args[arg + 1]]
          /\ arg' = arg + 2
          /\ UNCHANGED pc
  /\ UNCHANGED <<prog, args, names, helped, iface>>

\* An option and the argument after it, argv[++i].  At the end of argv that
\* is NULL, which strtoimax() and the string copies do not survive.
ValueOption ==
  LET o == args[arg].text IN
  /\ InLoop
  /\ o \in cmd.values
  /\ IF arg + 1 = argc THEN pc' = "crashed" /\ UNCHANGED <<arg, conf>>
     ELSE IF ~Accepts(o, args[arg + 1])
     THEN pc' = "rejected" /\ UNCHANGED <<arg, conf>>
     ELSE /\ conf' = [conf EXCEPT ![o] = Stored(o, args[arg + 1])]
          /\ arg' = arg + 2
          /\ UNCHANGED pc
  /\ UNCHANGED <<prog, args, names, helped, iface>>

Verbose ==
  /\ InLoop
  /\ args[arg].text \in HasV
  /\ arg' = arg + 1
  /\ UNCHANGED <<prog, args, pc, conf, names, helped, iface>>

UnknownOption ==
  /\ InLoop
  /\ args[arg].text \notin cmd.values \union HasV \union {"-h"}
  /\ pc' = "rejected"
  /\ UNCHANGED <<prog, args, arg, conf, names, helped, iface>>

\* After the loop the names are copied from argv[arg] on; a NULL among them is
\* not survived.
CopyNames ==
  /\ pc = "loop"
  /\ ~InLoop
  /\ IF arg + cmd.names > argc THEN pc' = "crashed" /\ UNCHANGED names
     ELSE /\ names' = SubSeq(args, arg, arg + cmd.names - 1)
          /\ pc' = "accepted"
  /\ UNCHANGED <<prog, args, arg, conf, helped, iface>>

\* start of file_transfer gives start_server the default interface.
StartServer ==
  /\ pc = "accepted"
  /\ prog = "transfer" /\ args[1].text = "-r"
  /\ iface = Nowhere
  /\ iface' = Default
  /\ UNCHANGED <<prog, args, pc, arg, conf, names, helped>>

ParseNext ==
  \/ Start
  \/ Help
  \/ ValueOption
  \/ Verbose
  \/ UnknownOption
  \/ CopyNames
  \/ StartServer

ParseSpec == ParseInit /\ [][ParseNext]_parseVars

-----------------------------------------------------------------------------
(***************************************************************************)
(* What the help texts say an argument list means, without the loop: the   *)
(* options, each with its argument, tile the places between the mode and   *)
(* the names, and the names are the last arguments.                        *)
(***************************************************************************)

OptionPlaces == (IF Modal THEN 2 ELSE 1)..(Len(args) - cmd.names)
Width(s) == IF args[s].text \in cmd.values THEN 2 ELSE 1

Tiles(S) ==
  /\ \A s \in S : s + Width(s) - 1 \in OptionPlaces
  /\ \A j \in OptionPlaces :
       \E s \in S : /\ s <= j /\ j < s + Width(s)
                    /\ \A t \in S \ {s} : j < t \/ j >= t + Width(t)

\* A number is one that its option may have.
InRange(o, n) ==
  CASE o = "-p"           -> n \in MinPort..MaxPort
    [] o \in {"-n", "-s"} -> n \in 1..(UIntMod - 1)
    [] OTHER              -> TRUE

\* An option of the help texts, with an argument that it may have.
AsDocumented(s) ==
  /\ args[s].text \in cmd.values \union {"-v"}
  /\ Width(s) = 2 => InRange(args[s].text, args[s + 1].num)

\* What the loops take for one: an argument with -v somewhere in it, and a
\* number that a u_int cannot hold and that is in range once it is cut.
Mistaken(s) ==
  \/ args[s].text = "any-v"
  \/ /\ Width(s) = 2
     /\ args[s + 1].num \notin 0..(UIntMod - 1)
     /\ InRange(args[s].text, args[s + 1].num % UIntMod)

Complete ==
  /\ Len(args) >= cmd.names + (IF Modal THEN 1 ELSE 0)
  /\ Modal => args[1].text \in cmd.modes

WellFormed ==
  Complete /\ \E S \in SUBSET OptionPlaces :
    Tiles(S) /\ \A s \in S : AsDocumented(s)

\* A list that is taken for one that is well formed.
Reads(S) == Tiles(S) /\ \A s \in S : AsDocumented(s) \/ Mistaken(s)

\* The last of several equal options counts.
Given(S, o) == {s \in S : args[s].text = o}
Meaning(S, o) ==
  IF Given(S, o) = {} THEN Default
  ELSE Stored(o,
         args[(CHOOSE s \in Given(S, o) : \A t \in Given(S, o) : t <= s) + 1])

-----------------------------------------------------------------------------
(***************************************************************************)
(* Correctness.                                                            *)
(***************************************************************************)

\* Every variable has its type; an option variable holds its default or what
\* passed the test of its option.
ParseTypeOK ==
  /\ prog \in Programs
  /\ args \in Seq(Args(cmd))
  /\ pc \in {"start", "loop", "accepted", "rejected", "crashed"}
  /\ arg \in 1..argc
  /\ \A o \in Options : conf[o] = Default \/ Accepts(o, conf[o])
  /\ names \in Seq(Args(cmd)) /\ Len(names) <= cmd.names
  /\ helped \in BOOLEAN

\* The loops, which skip over the arguments of options and stop some places
\* before the end, turn away no argument list that the help texts describe,
\* and an option that would take a name for its argument ends in a crash
\* instead of a shifted list.  What they accept is such a list, with the
\* meaning it has and the names at its end, but for two kinds of mistaken
\* options that they let pass one by one: numbers too wide for a u_int, and
\* what strstr() takes for a verbosity (main_server.c:58) that is not the
\* "-v[vvvv]" of the help texts (main_server.c:84): see Mistaken.  Not so for
\* main_list, which loses its address, and for what follows a -h, which is not
\* read.
ParsesAsDocumented ==
  prog # "list" /\ ~helped =>
    /\ pc \in {"rejected", "crashed"} => ~WellFormed
    /\ pc = "accepted" =>
         /\ Complete
         /\ \E S \in SUBSET OptionPlaces :
              Reads(S) /\ \A o \in cmd.values : conf[o] = Meaning(S, o)
         /\ names = SubSeq(args, argc - cmd.names, Len(args))

\* main_list.c:83 says of main_list "[options] IP_ADDR": of a list of options
\* and an address it takes the last argument for the address.
ListReadsItsAddress ==
  prog = "list" /\ pc = "accepted" /\ ~helped /\ WellFormed
    /\ args[Len(args)].text = "word" => names = <<args[Len(args)]>>

\* file_transfer.c:129 says of -i "Interface to listen on": the receiver
\* listens on the address that was given with it.
ListensWhereTold ==
  iface # Nowhere /\ conf["-i"].text = "word" => iface = conf["-i"]

=============================================================================
