----------------------------- MODULE MCGroupBy ------------------------------
(***************************************************************************)
(* GroupBy for TLC: texts, lines, inputs and command lines.                *)
(***************************************************************************)
EXTENDS GroupBy

-----------------------------------------------------------------------------
MCText   == {"a", "A", "b", "1", "12", "-2", "3", "NA", ""}
MCNA     == {"NA"}
MCNumber == "1" :> 1 @@ "12" :> 12 @@ "-2" :> -2 @@ "3" :> 3
MCBase64 == {"", "a"}
MCFold   == [t \in MCText |-> IF t = "A" THEN "a" ELSE t]

(* "1" and "12" stand for two long numbers that agree in all the arrays    *)
(* hold of them.                                                           *)
MCCut  == [t \in MCText |-> IF t = "12" THEN "1" ELSE t]
MCRank == [t \in MCText |-> SelectInSeq(<<"", "-2", "1", "12", "3", "A", "NA", "a", "b">>,
                                     LAMBDA s : s = t)]

UpTo(lines, n) == UNION {[1 .. k -> lines] : k \in 0 .. n}

(* A key and a value; a short line and the empty line among them.          *)
MCInputs ==
  UpTo({<<"a", "1">>, <<"A", "3">>, <<"b", "-2">>, <<"a", "NA">>, <<"b">>, << >>}, 4)
    \cup UpTo({<<"a", "1">>, <<"a", "12">>, <<"b", "12">>, <<"A", "1">>}, 4)

Op(o, f)   == [op |-> o, field |-> f, subordinate |-> FALSE, sub |-> 0]
Pair(f, g, i) == << [op |-> "pcov", field |-> f, subordinate |-> TRUE, sub |-> 0],
                    [op |-> "pcov", field |-> g, subordinate |-> FALSE, sub |-> i] >>

Job(specs) == [mode |-> "groupby", grps |-> <<1>>, ops |-> specs, full |-> FALSE,
             case_sensitive |-> TRUE, narm |-> FALSE, header_in |-> FALSE,
             header_out |-> FALSE]

(* Every accumulation, and each option, at least once.                     *)
PlainJobs ==
  { [Job(<<Op("sum", 2), Op("unique", 1)>>) EXCEPT !.narm = TRUE],
    [Job(<<Op("min", 2), Op("last", 2)>>) EXCEPT !.case_sensitive = FALSE],
    [Job(<<Op("max", 2), Op("count", 2)>>) EXCEPT !.narm = TRUE,
         !.case_sensitive = FALSE, !.header_in = TRUE, !.header_out = TRUE],
    [Job(<<Op("mean", 2), Op("range", 2)>>) EXCEPT !.grps = << >>,
         !.narm = TRUE, !.header_out = TRUE],
    [Job(<<Op("absmin", 2), Op("absmax", 2), Op("median", 2), Op("softmax", 2)>>)
       EXCEPT !.narm = TRUE, !.full = TRUE, !.case_sensitive = FALSE],
    [Job(<<Op("first", 2), Op("countunique", 1), Op("collapse", 2)>>)
       EXCEPT !.grps = <<2, 1>>, !.header_in = TRUE],
    [Job(<<Op("rand", 2)>> \o Pair(2, 2, 2)) EXCEPT !.narm = TRUE,
         !.header_out = TRUE, !.case_sensitive = FALSE],
    [Job(Pair(1, 2, 1)) EXCEPT !.narm = TRUE, !.grps = << >>],
    [Job(<<Op("round", 2), Op("md5", 1)>>) EXCEPT !.mode = "per_line",
         !.grps = << >>, !.full = TRUE, !.narm = TRUE],
    [Job(<<Op("debase64", 1)>>) EXCEPT !.mode = "per_line", !.grps = << >>] }

FullJobs ==
  { [Job(<<Op(o, 2)>>) EXCEPT !.full = TRUE, !.case_sensitive = FALSE,
                              !.grps = IF o = "rand" THEN << >> ELSE <<1>>] :
      o \in Extremal \cup {"first", "last", "rand"} }

CrossJobs ==
  { [Job(<<Op("count", 1)>>) EXCEPT !.mode = "crosstab", !.grps = <<1, 2>>,
                                    !.header_out = TRUE],
    [Job(<<Op("first", 2)>>) EXCEPT !.mode = "crosstab", !.grps = <<1, 2>>],
    [Job(<<Op("last", 2)>>) EXCEPT !.mode = "crosstab", !.grps = <<1, 2>>,
                                   !.case_sensitive = FALSE] }

MCJobs == PlainJobs \cup FullJobs \cup CrossJobs
=============================================================================
