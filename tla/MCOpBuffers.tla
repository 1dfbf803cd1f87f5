---------------------------- MODULE MCOpBuffers -----------------------------
(* Groups of up to MaxGroup values over buffers that grow by Batch cells:  *)
(* strings shorter and longer than the batch, equal ones, ones that differ *)
(* in case only, an empty one and one with a NUL.                          *)
EXTENDS OpBuffers

A == 65
a == 97
b == 98

MCInputs == {<< >>, <<a>>, <<A>>, <<b, NUL>>, <<b, a, b>>}

MCFold == [c \in {NUL, A, a, b} |-> IF c = A THEN a ELSE c]
=============================================================================
