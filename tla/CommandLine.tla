---------------------------- MODULE CommandLine ----------------------------
(***************************************************************************)
(* The options of mpipin: main() up to its sanity checks.  --exclude-cpus  *)
(* runs the parser of CpuList, whose result is cpus_excluded.              *)
(*                                                                         *)
(* An option has a name and an argument: a number as strtol() sees it, or  *)
(* a text.  Besides, a program that runs reads and prints CPU lists as in  *)
(* CpuList.                                                                *)
(***************************************************************************)
EXTENDS CpuList

CONSTANTS
  CommandLines,     \* the command lines: their options, and if a program follows them
  MAX_PROCESSES,
  IntSpan           \* 2^32: an int is one of that many numbers, half of them negative

ASSUME CommandLineAssumption ==
  /\ MAX_PROCESSES \in Nat /\ MAX_PROCESSES >= 2
  /\ IntSpan \in Nat /\ IntSpan % 2 = 0 /\ IntSpan > 2 * MAX_PROCESSES

\* What getopt_long() returns for an option.  It returns 0 for one that has a flag.
Returned(name) ==
  CASE name \in {"-p", "--ppn", "--processes-per-node", "--ranks-per-node"} -> "p"
    [] name = "-n" -> "n"
    [] name \in {"-t", "--tpp", "--cores-per-process", "--threads-per-process"} -> "t"
    [] name \in {"-e", "--exclude-cpus"} -> "e"
    [] name \in {"-v", "--verbose"} -> "v"
    [] name = "-h" -> "h"
    [] name \in {"--compact", "--scatter", "--help"} -> "0"
    [] OTHER -> "?"

\* An option has the argument that getopt_long() and strtol() make of it.
ASSUME OptionAssumption ==
  \A line \in CommandLines :
    /\ line.program \in BOOLEAN
    /\ line.options \in Seq(ToSet(line.options))
    /\ \A k \in DOMAIN line.options :
         LET option == line.options[k]
         IN  CASE Returned(option.name) \in {"p", "n", "t"} ->
                    option.arg \in [value : Int, rest : BOOLEAN]
               [] Returned(option.name) = "e" -> option.arg \in Seq(STRING)
               [] OTHER -> TRUE

VARIABLES
  argv, optind,     \* the command line, and the next of its options
  ppn, tpp, verbose,
  pc                \* "options", "exclude" while a list is parsed, "failed" after exit(),
                    \* "running" after the sanity checks

commandVars == << argv, optind, ppn, tpp, verbose, pc >>

NoCommand == [options |-> << >>, program |-> FALSE]

CommandInit ==
  /\ optind = 1 /\ ppn = 0 /\ tpp = 0 /\ verbose = FALSE
  /\ \/ Init /\ argv = NoCommand /\ pc = "running"
     \/ /\ Locals /\ text = << >> /\ mask = NoMask /\ ret = "idle"
        /\ argv \in CommandLines /\ pc = "options"

-----------------------------------------------------------------------------
\* long to int
int(n) == ((n + IntSpan \div 2) % IntSpan) - IntSpan \div 2

\* Slip: only 0 is refused.
NonZero(number) == ~number.rest /\ int(number.value) # 0

\* strtol() has read the whole argument, and the int is positive.
Valid(number) == ~number.rest /\ int(number.value) > 0

Option == argv.options[optind]

Take(chars) ==
  /\ pc = "options" /\ optind <= Len(argv.options)
  /\ Returned(Option.name) \in chars
  /\ optind' = optind + 1
  /\ UNCHANGED argv

Exit ==
  /\ pc' = "failed"
  /\ UNCHANGED << ppn, tpp, verbose, vars >>

ProcessesPerNode ==
  /\ Take({"p", "n"})
  /\ Valid(Option.arg)
  /\ ppn' = int(Option.arg.value)
  /\ UNCHANGED << tpp, verbose, pc, vars >>

ThreadsPerProcess ==
  /\ Take({"t"})
  /\ Valid(Option.arg)
  /\ tpp' = int(Option.arg.value)
  /\ UNCHANGED << ppn, verbose, pc, vars >>

BadNumber ==
  /\ Take({"p", "n", "t"})
  /\ ~Valid(Option.arg)
  /\ Exit

\* Slip: the CPUs of an earlier list stay excluded.
AddToEarlier == maskp

\* bitmap_zero()
FreshMask == {}

ExcludeCpus ==
  /\ Take({"e"})
  /\ text' = Option.arg
  /\ pos' = 0 /\ c' = Nul /\ totaldigits' = FALSE
  /\ NextItem
  /\ maskp' = FreshMask
  /\ ret' = "parse" /\ pc' = "exclude"
  /\ UNCHANGED << printVars, ppn, tpp, verbose >>

Excluded ==
  /\ pc = "exclude" /\ ret # "parse"
  /\ pc' = IF ret = "0" THEN "options" ELSE "failed"
  /\ UNCHANGED << argv, optind, ppn, tpp, verbose, vars >>

Verbose ==
  /\ Take({"v"})
  /\ verbose' = TRUE
  /\ UNCHANGED << ppn, tpp, pc, vars >>

\* "case 'h': default:", to which 0 leads, too.
Usage ==
  /\ Take({"h", "0", "?"})
  /\ Exit

Sane == argv.program /\ ppn # 0 /\ ppn # 1 /\ ppn <= MAX_PROCESSES

SanityChecks ==
  /\ pc = "options" /\ optind > Len(argv.options)
  /\ pc' = IF Sane THEN "running" ELSE "failed"
  /\ UNCHANGED << argv, optind, ppn, tpp, verbose, vars >>

CommandNext ==
  \/ pc \in {"exclude", "running"} /\ Next /\ UNCHANGED commandVars
  \/ ProcessesPerNode \/ ThreadsPerProcess \/ BadNumber
  \/ ExcludeCpus \/ Excluded \/ Verbose \/ Usage
  \/ SanityChecks

CommandSpec == CommandInit /\ [][CommandNext]_<< vars, commandVars >>
-----------------------------------------------------------------------------
CommandTypeOK ==
  /\ TypeOK
  /\ argv \in CommandLines \cup {NoCommand}
  /\ optind \in 1 .. Len(argv.options) + 1
  /\ ppn \in 0 .. (IntSpan \div 2) - 1 /\ tpp \in 0 .. (IntSpan \div 2) - 1
  /\ verbose \in BOOLEAN
  /\ pc \in {"options", "exclude", "failed", "running"}

Given(chars) == {k \in DOMAIN argv.options : Returned(argv.options[k].name) \in chars}

Asked(option) ==
  CASE Returned(option.name) \in {"p", "n", "t"} -> Valid(option.arg)
    [] Returned(option.name) = "e" -> WellFormed(option.arg) /\ Fits(option.arg)
    [] OTHER -> Returned(option.name) = "v"

\* What the last of several equal options says counts, and nothing of those before it.
LastArg(chars) == argv.options[Max(Given(chars))].arg
LastPpn == IF Given({"p", "n"}) = {} THEN 0 ELSE int(LastArg({"p", "n"}).value)
LastExcluded == IF Given({"e"}) = {} THEN {} ELSE MaskOf(LastArg({"e"}))

\* Options of the usage text (175-179) that are refused all the same: getopt_long() returns 0
\* for the first two, which have a flag, and the others are not in the table.
RefusedInSpite ==
  {"--compact", "--scatter", "--threads-per-processes", "--cores-per-processes"}

Plain(option) ==
  /\ option.name \notin RefusedInSpite
  /\ Returned(option.name) = "e" => Readable(option.arg)

\* mpipin goes on if and only if all of its options are understood, their arguments are valid
\* and the number of processes is in its limits; and then with the last number of processes
\* and without the CPUs of the last list, whatever was parsed before (1152-1218).  Nothing is
\* said of the options that the usage text promises and the code refuses, nor of lists with
\* numbers that are missing or too large for unsigned.
RunsAsAsked ==
  /\ argv # NoCommand /\ pc \in {"running", "failed"}
  /\ \A k \in DOMAIN argv.options : Plain(argv.options[k])
  =>
    /\ pc = "running" <=> /\ argv.program
                          /\ LastPpn \in 2 .. MAX_PROCESSES
                          /\ \A k \in DOMAIN argv.options : Asked(argv.options[k])
    /\ pc = "running" => ppn = LastPpn /\ maskp = LastExcluded
=============================================================================
