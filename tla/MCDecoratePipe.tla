--------------------------- MODULE MCDecoratePipe ---------------------------
(***************************************************************************)
(* DecoratePipe for TLC: three keys, one of which cannot be converted.     *)
(***************************************************************************)
EXTENDS DecoratePipe

MCBody == {"x", Empty}

L(key, blanks, body) == [key |-> key, text |-> [blanks |-> blanks, body |-> body]]

Some(lines, n) == UNION {[1 .. k -> lines] : k \in 0 .. n}

MCInputs == Some({L(0, 0, "x"), L(1, 0, "x"), L(2, 0, "x")}, 3)

MCJobs == [header : 0 .. 2, check : BOOLEAN, unique : BOOLEAN]
=============================================================================
