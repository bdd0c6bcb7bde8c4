------------------------------ MODULE MCStartup ------------------------------
(***************************************************************************)
(* Instances of Startup: options given once, twice, empty or not at all.   *)
(* Cores on both sides of the mask's width, one the machine has not, and   *)
(* the distances of '-', 'P' and 'h', whose shifts are undefined; a        *)
(* directory of two entries with and without a slash.                      *)
(***************************************************************************)
EXTENDS Startup, SequencesExt

MCCpus == {0, 1, 2, 3, 7, 8}
MCNames == {"a", "b"}
MCFile == <<"as given", "f">>
C(cores) == <<"c", cores>>
D(form) == <<"d", form>>
F == <<"f", TRUE>>
NoFile == <<"f", FALSE>>
CoreArgs == {<<>>} \cup {<<c>> : c \in {0, 6, -3, 56}}
            \cup {<<7, 8, 0>>, <<9, 32, 1>>, <<1, 1>>}
MCArgvs == {<<>>, <<F, D("bare")>>, <<D("slash"), F>>, <<D("bare"), D("slash")>>,
            <<F, D("slash"), NoFile>>, <<D("slash"), D("")>>, <<NoFile, D(""), F>>,
            <<D("slash"), D("bare"), C(<<2>>)>>}
           \cup {<<C(a), F>> : a \in CoreArgs}
           \cup {<<C(a), F, C(b)>> : a \in {<<2>>, <<3, 4, 5>>}, b \in CoreArgs}
===============================================================================
