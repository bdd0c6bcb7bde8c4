------------------------------ MODULE MCShareStack ------------------------------
(* Page size and minimum as on x86-64, an address space of 4 MiB, requests  *)
(* around every size at which the code decides, and copies of up to 168     *)
(* bytes and of almost the limit.                                          *)
EXTENDS ShareStack

MCModulus == 4 * 1024 * 1024
MCBases == {4096, 65536, 65552}
MCRequests == {0, 1, 4095, 4096, 4097, 4104, 8191, 8192, 8200, 12287}
              \cup {MCModulus - d : d \in {1, 4095, 4096, 4097, 8191, 8192, 8193, 80000}}
MCDepths == {8 * n : n \in 0..21}
===============================================================================
