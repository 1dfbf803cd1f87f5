---------------------------- MODULE GroupSummary ----------------------------
(***************************************************************************)
(* What datamash promises of grouping, stated on the whole input and not   *)
(* line by line: the output is, for each maximal run of consecutive lines  *)
(* with the same key, a line of that run (or its key) and the value of     *)
(* each operation over the run.  In crosstab mode nothing is printed before *)
(* the table.  GroupBy is shown to implement this.                         *)
(***************************************************************************)
EXTENDS FieldOps, SequencesExt

VARIABLES dm, input, out, status

vars == <<dm, input, out, status>>

-----------------------------------------------------------------------------
(* Runs of lines with equal keys.                                          *)

First == IF dm.header_in THEN 2 ELSE 1

HasAll(l, fields) == fields \subseteq DOMAIN l

KeyFields == Range(dm.grps)
OpFields  == {dm.ops[i].field : i \in DOMAIN dm.ops}

(* The key of a line; a field the line lacks counts as a value of its own. *)
KeyOf(n) == [i \in DOMAIN dm.grps |->
               IF dm.grps[i] \in DOMAIN input[n]
               THEN <<Folded(dm.case_sensitive, input[n][dm.grps[i]])>>
               ELSE << >>]

(* Whether the line after n belongs to another group than line n.          *)
Boundary(n) ==
  \/ n = Len(input)
  \/ dm.mode = "per_line"
  \/ dm.grps # << >> /\ KeyOf(n) # KeyOf(n + 1)

Ends == {n \in First .. Len(input) : Boundary(n)}

Runs == Cardinality(Ends)

(* The number of S that k numbers of S do not exceed.                      *)
Nth(S, k) == CHOOSE n \in S : Cardinality({m \in S : m <= n}) = k

Run(k) == (IF k = 1 THEN First ELSE Nth(Ends, k - 1) + 1) .. Nth(Ends, k)

-----------------------------------------------------------------------------
(* The value of an operation over a run.                                   *)

(* The texts of a field over a run, in order, without the skipped ones.    *)
Texts(f, run) ==
  LET lines == {n \in run : ~Skipped(dm.narm, input[n][f])}
  IN  [k \in 1 .. Cardinality(lines) |-> input[Nth(lines, k)][f]]

Numbers(ts) == [k \in DOMAIN ts |-> Number[ts[k]]]

Total(ns) ==
  LET sum[k \in 0 .. Len(ns)] == IF k = 0 THEN 0 ELSE sum[k - 1] + ns[k]
  IN  sum[Len(ns)]

(* The first of the numbers that are the nearest to zero, or the farthest. *)
Nearest(ns) ==
  ns[Min({k \in DOMAIN ns : \A m \in DOMAIN ns : Abs(ns[k]) <= Abs(ns[m])})]

Farthest(ns) ==
  ns[Min({k \in DOMAIN ns : \A m \in DOMAIN ns : Abs(ns[k]) >= Abs(ns[m])})]

(* The results an operation may have: one, but for a random choice.        *)
Values(o, ts) ==
  LET ns == Numbers(ts) IN
  CASE ts = << >>         -> {EmptyResult(o)}
    [] ts # << >> /\ o = "count"   -> {<<"number", Len(ts)>>}
    [] ts # << >> /\ o = "sum"     -> {<<"number", Total(ns)>>}
    [] ts # << >> /\ o = "mean"    -> {<<"mean", Total(ns), Len(ts)>>}
    [] ts # << >> /\ o = "min"     -> {<<"number", Min(Range(ns))>>}
    [] ts # << >> /\ o = "max"     -> {<<"number", Max(Range(ns))>>}
    [] ts # << >> /\ o = "absmin"  -> {<<"number", Nearest(ns)>>}
    [] ts # << >> /\ o = "absmax"  -> {<<"number", Farthest(ns)>>}
    [] ts # << >> /\ o = "range"   ->
         {<<"number", Max(Range(ns)) - Min(Range(ns))>>}
    [] ts # << >> /\ o = "round"   -> {<<"number", Last(ns)>>}
    [] ts # << >> /\ o = "median"  -> {<<"stat", ns>>}
    [] ts # << >> /\ o = "softmax" ->
         {<<"softmax", ns, Max({0} \cup Range(ns))>>}
    [] ts # << >> /\ o = "first"   -> {<<"string", Head(ts)>>}
    [] ts # << >> /\ o = "last"    -> {<<"string", Last(ts)>>}
    [] ts # << >> /\ o = "rand"    -> {<<"string", t>> : t \in Range(ts)}
    [] ts # << >> /\ o = "md5"     -> {<<"md5", Last(ts)>>}
    [] ts # << >> /\ o = "debase64" -> {<<"decoded", Last(ts)>>}
    [] ts # << >> /\ o = "unique"  ->
         {<<"set", Distinct(dm.case_sensitive, ts)>>}
    [] ts # << >> /\ o = "countunique" ->
         {<<"number", Cardinality(Distinct(dm.case_sensitive, ts))>>}
    [] ts # << >> /\ o = "collapse" -> {<<"list", ts>>}

(* A pair operation sees the two fields of each line of the run.  With     *)
(* --narm it sees the two columns, each without its own skipped values.    *)
PairValues(i, run) ==
  {<<"pairs", Numbers(Texts(dm.ops[i].field, run)),
              Numbers(Texts(dm.ops[dm.ops[i].sub].field, run))>>}

OpValues(i, run) ==
  IF dm.ops[i].op = "pcov" /\ Texts(dm.ops[i].field, run) # << >>
  THEN PairValues(i, run)
  ELSE Values(dm.ops[i].op, Texts(dm.ops[i].field, run))

(* The results of the operations that are printed, in their order.         *)
Printed == {i \in DOMAIN dm.ops : ~dm.ops[i].subordinate}

IsResultOf(g, run) ==
  /\ \E n \in run :
       g.fields = IF dm.full THEN input[n]
                  ELSE [i \in DOMAIN dm.grps |-> input[n][dm.grps[i]]]
  /\ Len(g.results) = Cardinality(Printed)
  /\ \A i \in Printed :
       g.results[Cardinality({k \in Printed : k <= i})] \in OpValues(i, run)

-----------------------------------------------------------------------------
(* Which inputs are refused.                                               *)

BadValue(n) ==
  \E i \in DOMAIN dm.ops :
    LET t == input[n][dm.ops[i].field]
    IN  ~Skipped(dm.narm, t) /\ Invalid(dm.ops[i].op, t)

(* Whether a line must be refused: an operation lacks its field or its     *)
(* value is bad, or the key that should be printed is not there.           *)
Unusable(n) ==
  \/ ~HasAll(input[n], OpFields)
  \/ BadValue(n)
  \/ ~dm.full /\ ~HasAll(input[n], KeyFields)

UnequalPairs(run) ==
  \E i \in Printed :
    /\ dm.ops[i].op = "pcov"
    /\ Len(Texts(dm.ops[i].field, run))
         # Len(Texts(dm.ops[dm.ops[i].sub].field, run))

UnknownHeader(fields) ==
  dm.header_out /\ input # << >> /\ ~HasAll(input[1], fields)

(* Whether some line before the end, or the header, justifies a refusal.   *)
MayRefuse ==
  \/ UnknownHeader(OpFields \cup KeyFields)
  \/ \E n \in First .. Len(input) :
       Unusable(n) \/ ~HasAll(input[n], KeyFields)
  \/ /\ \A n \in First .. Len(input) : HasAll(input[n], OpFields \cup KeyFields)
     /\ \E k \in 1 .. Runs : UnequalPairs(Run(k))

-----------------------------------------------------------------------------
Running == {"start", "reading"}

Init ==
  /\ out = << >>
  /\ status \in Running

(* A group is reported when the input shows where it ends.                 *)
Report ==
  /\ Len(out) < Runs
  /\ \E g \in {out'[Len(out) + 1]} :
       out' = Append(out, g) /\ IsResultOf(g, Run(Len(out) + 1))

Next ==
  /\ status \in Running
  /\ out' = out \/ Report
  /\ \/ status' \in Running
     \/ status' = "done"
          /\ Len(out') = (IF dm.mode = "crosstab" THEN 0 ELSE Runs)
          /\ \A n \in First .. Len(input) : ~Unusable(n)
          /\ ~UnknownHeader(OpFields)
     \/ status' \notin Running \cup {"done"} /\ MayRefuse
  /\ UNCHANGED <<dm, input>>

Spec == Init /\ [][Next]_vars
=============================================================================
