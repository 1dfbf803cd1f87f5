--------------------------- MODULE MCSortedInput ----------------------------
(***************************************************************************)
(* SortedInput for TLC: lines of two columns named K and V in the header.  *)
(***************************************************************************)
EXTENDS SortedInput

MCText == {"K", "V", "a", "A", "b"}

MCRank == [t \in MCText |-> CASE t = "A" -> 1 [] t = "K" -> 2 [] t = "V" -> 3
                              [] t = "a" -> 4 [] t = "b" -> 5]

MCFold == [t \in MCText |-> IF t = "a" THEN "A" ELSE t]

L(b, s, t)  == [fields |-> <<[blanks |-> 0, text |-> s],
                             [blanks |-> b, text |-> t]>>, bad |-> FALSE]
Short(s)    == [fields |-> <<[blanks |-> 0, text |-> s]>>, bad |-> FALSE]
Bad(l)      == [l EXCEPT !.bad = TRUE]

Lines == {L(0, "b", "b"), L(0, "a", "a"), L(0, "A", "a"), Short("a"),
          Bad(L(0, "a", "b"))}

Some(lines, n) == UNION {[1 .. k -> lines] : k \in 0 .. n}

(* Lines whose second field stands further right or left.                  *)
BlankInputs == Some({L(b, "a", t) : b \in 0 .. 1, t \in {"a", "b"}}, 3)

(* With a header line, or without.                                         *)
MCInputs == Some(Lines, 4)
              \cup {<<h>> \o ls : h \in {L(0, "K", "V"), Short("K")},
                                 ls \in Some(Lines, 3)}
              \cup BlankInputs

At(n)     == [num |-> n, name |-> "K"]
ByName(t) == [num |-> 0, name |-> t]

Job(mode, sort, hdr, grps) ==
  [mode |-> mode, sort |-> sort, header_in |-> hdr, grps |-> grps,
   opnames |-> {}, whitespace |-> FALSE, case_sensitive |-> TRUE]

MCJobs ==
  { Job("groupby", TRUE, FALSE, <<At(1)>>),
    [Job("groupby", TRUE, TRUE, <<At(2), At(1)>>)
       EXCEPT !.case_sensitive = FALSE, !.opnames = {"V"}],
    Job("groupby", TRUE, TRUE, <<ByName("V")>>),
    Job("groupby", FALSE, TRUE, <<ByName("V")>>),
    Job("groupby", TRUE, TRUE, << >>),
    Job("rmdup", FALSE, TRUE, <<ByName("K")>>),
    Job("rmdup", TRUE, FALSE, <<At(2)>>),
    [Job("groupby", TRUE, FALSE, <<At(2)>>) EXCEPT !.whitespace = TRUE] }

RmdupHeaderJobs == { Job("rmdup", TRUE, TRUE, <<At(1)>>) }

NameInputs == Some({L(0, "K", "V"), L(0, "a", "b")}, 4)
=============================================================================
