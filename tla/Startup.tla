-------------------------------- MODULE Startup --------------------------------
(***************************************************************************)
(* main() from the command line to the tasks: Config::parse, then          *)
(* intput_collect (InputFiles), then TaskPool::init (CpuBinding).  The     *)
(* other options have no part in this: -h has them shown, -l, -s and -b    *)
(* are read later, the rest only by code that nothing calls.               *)
(***************************************************************************)
EXTENDS Integers, Sequences

CONSTANTS Cpus, Names, File,  \* as in CpuBinding and InputFiles
          Argvs  \* command lines: sequences of Options

\* The value of -c has a number per character, its distance from '0'; that of
\* -d is one of Input!Forms, or empty, and of -f it counts whether it is empty.
Options == ({"c"} \X Seq(Int)) \cup ({"d"} \X {"", "slash", "bare"})
           \cup ({"f"} \X BOOLEAN)

ASSUME CpusAssumption == Cpus \subseteq Nat /\ Cpus # {}
ASSUME NamesAssumption == "." \notin Names /\ ".." \notin Names
ASSUME ArgvsAssumption == Argvs \subseteq Seq(Options)

VARIABLES argv,    \* the command line
          parsed,  \* how many of its options Config::parse has seen
          mpc,     \* where main is
          m_vecCore, m_sDirPath, m_sFilePath,  \* Config
          content, regular, cpc, unread, dirFailed, m_lstFiles, ppc, m_core_id, affinity

CB == INSTANCE CpuBinding
Input == INSTANCE InputFiles

configVars == <<m_vecCore, m_sDirPath, m_sFilePath>>
diskVars == <<content, regular>>
listVars == <<cpc, unread, dirFailed, m_lstFiles>>
cpuVars == <<ppc, m_core_id, affinity>>
vars == <<argv, parsed, mpc, configVars, diskVars, listVars, cpuVars>>

TypeOK == /\ argv \in Argvs
          /\ parsed \in 0..Len(argv)
          /\ mpc \in {"parse", "collect", "init", "noInput", "start"}
          /\ Input!TypeOK /\ CB!TypeOK

(***************************************************************************)
(* Config::parse.                                                          *)
(***************************************************************************)

\* Mutant: a second -c adds to the first.
CoresAdding(arg) == IF m_vecCore = <<1>> THEN arg ELSE m_vecCore \o arg

\* The entries after an option -c: m_vecCore is cleared first.
Cores(arg) == arg

ParseOption ==
  /\ mpc = "parse" /\ parsed < Len(argv)
  /\ parsed' = parsed + 1
  /\ LET opt == argv[parsed + 1]
     IN  /\ m_vecCore' = IF opt[1] = "c" THEN Cores(opt[2]) ELSE m_vecCore
         /\ m_sDirPath' = IF opt[1] = "d" THEN opt[2] ELSE m_sDirPath
         /\ m_sFilePath' = IF opt[1] = "f" THEN opt[2] ELSE m_sFilePath
  /\ UNCHANGED <<argv, mpc, diskVars, listVars, cpuVars>>

ParseEnd == /\ mpc = "parse" /\ parsed = Len(argv)
            /\ mpc' = "collect"
            /\ UNCHANGED <<argv, parsed, configVars, diskVars, listVars,
                           cpuVars>>

(***************************************************************************)
(* main().                                                                 *)
(***************************************************************************)

Collect == /\ mpc = "collect" /\ Input!Next
           /\ UNCHANGED <<argv, parsed, mpc, m_vecCore, cpuVars>>

\* main gives up without input files.
Collected == /\ mpc = "collect" /\ cpc = "done"
             /\ mpc' = IF m_lstFiles = <<>> THEN "noInput" ELSE "init"
             /\ UNCHANGED <<argv, parsed, configVars, diskVars, listVars,
                            cpuVars>>

PoolInit == /\ mpc = "init" /\ CB!Next
            /\ UNCHANGED <<argv, parsed, mpc, m_sDirPath, m_sFilePath, diskVars,
                           listVars>>

PoolReady == /\ mpc = "init" /\ ppc = "done"
             /\ mpc' = "start"
             /\ UNCHANGED <<argv, parsed, configVars, diskVars, listVars,
                            cpuVars>>

Init == /\ argv \in Argvs /\ parsed = 0
        /\ mpc = "parse"
        /\ m_vecCore = <<1>> /\ m_sDirPath = "" /\ m_sFilePath = FALSE
        /\ Input!Init /\ CB!Init

Over == mpc \in {"noInput", "start"} /\ UNCHANGED vars

Next == \/ ParseOption \/ ParseEnd \/ Collect \/ Collected \/ PoolInit \/ PoolReady
        \/ Over

Spec == Init /\ [][Next]_vars

(***************************************************************************)
(* Properties.                                                             *)
(***************************************************************************)

\* The last value of an option, or a default.
LastOf(opt, default) ==
  LET given == {k \in DOMAIN argv : argv[k][1] = opt}
  IN  IF given = {} THEN default
      ELSE argv[CHOOSE k \in given : \A j \in given : j <= k][2]

Named == LastOf("c", <<1>>)

\* However often -c is given, there is a task for each character of the last
\* one and for no other.  A thread named by a digit runs on that core alone if
\* it is one of the first eight and the process may use it, and wherever main
\* may if not; on its way there it is never pinned to another core.
PinnedAsNamed ==
  /\ mpc = "start" => Len(affinity) = Len(Named)
  /\ \A t \in DOMAIN affinity \cap DOMAIN Named :
       LET d == Named[t]
           bound == t < Len(affinity) \/ ppc \in {"new", "done"}
       IN  d \in 0..9 =>
             /\ affinity[t] \in {{}, Cpus, {d} \cap Cpus}
             /\ bound => affinity[t] = IF d \in Cpus \cap 0..7 THEN {d} ELSE Cpus

\* The tasks exist only with something to decode: in any order, but once each,
\* the regular files found under the text of the last -d and the name of an
\* entry of that directory, then the file of the last -f.  With a slash at its
\* end they are the directory's own.  Some may be missing only when opendir or
\* readdir failed, which main takes for the end of the directory.
CollectedExact ==
  mpc \in {"init", "start", "noInput"} =>
    LET dir == LastOf("d", "")
        found == {p \in regular : p[1] = dir /\ p[2] \in content}
        file == LastOf("f", FALSE)
        dirs == IF file THEN SubSeq(m_lstFiles, 1, Len(m_lstFiles) - 1)
                ELSE m_lstFiles
        listed == {dirs[k] : k \in DOMAIN dirs}
    IN  /\ m_lstFiles = <<>> <=> mpc = "noInput"
        /\ file => m_lstFiles[Len(m_lstFiles)] = File
        /\ listed \subseteq found
        /\ ~dirFailed => listed = found
        /\ \A j, k \in DOMAIN dirs : dirs[j] = dirs[k] => j = k
===============================================================================
