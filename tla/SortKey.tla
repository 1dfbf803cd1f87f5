------------------------------ MODULE SortKey -------------------------------
(***************************************************************************)
(* What a key -kF.C[b],E.D[b] of sort means: the part of a line between    *)
(* two places, each given by a field and a character of it.  Stated with   *)
(* sets of positions and not by scanning, to compare begfield and limfield *)
(* with it.  A position p stands before the character t[p + 1].            *)
(***************************************************************************)
EXTENDS Integers, Sequences, FiniteSets

CONSTANTS Blank, NoTab

None == -1            \* no ,E: the key ends with the line

FieldStarts(tab, t) ==
  {0} \cup {p \in 1 .. Len(t) :
              IF tab # NoTab THEN t[p] = tab
              ELSE p < Len(t) /\ t[p] # Blank /\ t[p + 1] = Blank}

FieldStart(tab, t, f) ==
  LET starts == FieldStarts(tab, t)
  IN  IF f > Cardinality(starts) THEN Len(t)
      ELSE CHOOSE p \in starts : Cardinality({q \in starts : q < p}) = f - 1

FieldEnd(tab, t, f) ==
  IF f >= Cardinality(FieldStarts(tab, t)) THEN Len(t)
  ELSE FieldStart(tab, t, f + 1) - IF tab = NoTab THEN 0 ELSE 1

AfterBlanks(t, p) ==
  CHOOSE q \in p .. Len(t) :
    /\ \A r \in p + 1 .. q : t[r] = Blank
    /\ q = Len(t) \/ t[q + 1] # Blank

InLine(t, p) == IF p > Len(t) THEN Len(t) ELSE p

(* k.f, k.c: field and character it starts at, k.b: blanks before the      *)
(* character are not counted; k.e, k.d, k.eb: the same for its last        *)
(* character, k.d = 0 for the last character of the field.                 *)
KeyStart(tab, t, k) ==
  LET p == FieldStart(tab, t, k.f)
  IN  InLine(t, k.c - 1 + IF k.b THEN AfterBlanks(t, p) ELSE p)

KeyEnd(tab, t, k) ==
  LET p == FieldStart(tab, t, k.e)
  IN  IF k.e = None THEN Len(t)
      ELSE IF k.d = 0 THEN FieldEnd(tab, t, k.e)
      ELSE InLine(t, k.d + IF k.eb THEN AfterBlanks(t, p) ELSE p)

KeyText(tab, t, k) == SubSeq(t, KeyStart(tab, t, k) + 1, KeyEnd(tab, t, k))
=============================================================================
