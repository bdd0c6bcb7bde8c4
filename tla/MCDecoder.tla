------------------------------- MODULE MCDecoder -------------------------------
(* Decoder with a short input.                                             *)
EXTENDS Decoder

MCKind == [n \in 1..MaxItems |-> CASE n % 4 = 1 -> "key"
                                   [] n % 2 = 0 -> "nonref"
                                   [] OTHER -> "ref"]
===============================================================================
