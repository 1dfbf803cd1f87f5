------------------------------ MODULE MCRmdup -------------------------------
(***************************************************************************)
(* Rmdup for TLC: keys shorter than, as long as and longer than a buffer.  *)
(***************************************************************************)
EXTENDS Rmdup

(* anb stands for an a, a NUL and a b: a C string equal to a.              *)
MCKeys    == {"", "a", "bb", "anb", "eeee"}
MCKeyLen  == [k \in MCKeys |->
                CASE k = "" -> 0 [] k = "a" -> 1 [] k = "bb" -> 2
                  [] k = "anb" -> 3 [] k = "eeee" -> 4]
MCCKey == [k \in MCKeys |-> IF k = "anb" THEN "a" ELSE k]

MCInputs  == UNION {[1 .. n -> MCKeys \cup {Missing}] : n \in 0 .. 5}
=============================================================================
