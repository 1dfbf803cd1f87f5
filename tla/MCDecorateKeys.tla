--------------------------- MODULE MCDecorateKeys ---------------------------
(* One or two keys, and one job with three, for every line of at most      *)
(* MaxLen characters: a blank, a separator, a letter and a second letter.  *)
EXTENDS DecorateKeys, TLC

CONSTANTS Comma, Letter, Other, Zero, MaxLen

MCSizeMax == 15

MCDigit == [n \in 0 .. 9 |-> IF n = 0 THEN Zero ELSE Letter]

MCLines == UNION {[1 .. n -> {Blank, Comma, Letter, Other}] : n \in 0 .. MaxLen}

Plain == [f |-> 1, c |-> Absent, b |-> FALSE, e |-> Absent, d |-> 0,
          eb |-> FALSE, other |-> FALSE, conv |-> AsText]

Fld(f) == [Plain EXCEPT !.f = f, !.e = f]
Conv(k, conv) == [k EXCEPT !.conv = conv]

TextKeys ==
  {Plain, Fld(1), Fld(2), [Fld(2) EXCEPT !.b = TRUE], [Plain EXCEPT !.f = 2],
   [Fld(1) EXCEPT !.c = 2, !.d = 2], [Fld(2) EXCEPT !.c = 2, !.eb = TRUE, !.d = 1],
   [Fld(1) EXCEPT !.e = 2], [Fld(2) EXCEPT !.e = 1],
   [Fld(2) EXCEPT !.e = MCSizeMax], [Fld(1) EXCEPT !.f = MCSizeMax]}

ConvertedFields ==
  {Conv(Fld(1), "strlen"), Conv(Fld(2), "strlen"), Conv(Plain, "strlen"),
   Conv(Fld(2), "as-is"), Conv(Fld(1), "roman"), Conv(Fld(3), "strlen"),
   Conv([Fld(1) EXCEPT !.c = 2, !.d = 2], "strlen"),
   Conv([Plain EXCEPT !.f = 2], "roman")}

BadKeys ==
  {Fld(0), [Plain EXCEPT !.c = 0], [Plain EXCEPT !.e = 0],
   Conv([Plain EXCEPT !.b = TRUE], "roman"), Conv(Plain, "unknown")}

KeyLists ==
  {<<k>> : k \in {Plain} \cup BadKeys \cup ConvertedFields}
    \cup {<<k, t>> : k \in ConvertedFields, t \in TextKeys}
    \cup {<<t, k>> : k \in {Conv(Fld(2), "strlen")}, t \in TextKeys}
    \cup {<<k, l>> : k, l \in ConvertedFields}
    \cup {<<k, t, l>> : k, l \in {Conv(Fld(1), "strlen"), Conv(Fld(2), "roman")},
                        t \in TextKeys}

MCJobs == [tab : {NoTab, Comma, Blank}, keys : KeyLists]
=============================================================================
