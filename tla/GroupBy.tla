------------------------------ MODULE GroupBy -------------------------------
(***************************************************************************)
(* The streaming core of datamash: process_file of datamash.c and what it  *)
(* calls, in the grouping, per-line and crosstab modes.  Lines arrive one  *)
(* at a time; a line whose key differs from the line kept for the current  *)
(* group closes the group.                                                 *)
(*                                                                         *)
(* A line is the sequence of its fields; the empty line has none.  A line  *)
(* record that the code keeps or swaps is represented by the position of   *)
(* its line in the input.  An action is one pass of the reading loop, with *)
(* everything that pass does, or what precedes or follows the loop.        *)
(* out and head hold whole lines: of a line in the middle of which the     *)
(* program dies, what was printed before is left out.                      *)
(***************************************************************************)
EXTENDS FieldOps, SequencesExt

CONSTANTS Jobs,       \* the command lines: what main leaves in dm and options
          Inputs,     \* the inputs, sequences of lines
          Cut,        \* each text cut to what char[512] holds of it
          Rank        \* the place of each text in the order of strcmp

Line == Seq(Text)

(* struct fieldop, the part fixed by the command line.  sub is the index   *)
(* of the subordinate operation of a pair, 0 when there is none.           *)
OpSpec == [op : OpName, field : Nat \ {0}, subordinate : BOOLEAN, sub : Nat]

Modes == {"groupby", "per_line", "crosstab"}

JobType == [mode : Modes, grps : Seq(Nat \ {0}), ops : Seq(OpSpec),
            full : BOOLEAN, case_sensitive : BOOLEAN, narm : BOOLEAN,
            header_in : BOOLEAN, header_out : BOOLEAN]

(* What op-parser.c guarantees: there is an operation, crosstab has two    *)
(* keys and one operation, a pair is a subordinate followed by its primary,*)
(* of the same operation.                                                  *)
ValidJob(j) ==
  /\ j \in JobType
  /\ j.ops # << >>
  /\ j.mode = "crosstab" => Len(j.grps) = 2 /\ Len(j.ops) = 1
  /\ \A i \in DOMAIN j.ops :
       /\ j.ops[i].subordinate =>
            i + 1 \in DOMAIN j.ops /\ j.ops[i+1].sub = i /\ j.ops[i].sub = 0
       /\ j.ops[i].sub \in 0 .. i - 1
       /\ j.ops[i].sub # 0 => j.ops[j.ops[i].sub].op = j.ops[i].op
       /\ j.ops[i].op = "pcov" => j.ops[i].subordinate \/ j.ops[i].sub # 0

ASSUME GroupByAssumption ==
  /\ \A j \in Jobs : ValidJob(j)
  /\ Inputs \subseteq Seq(Line)
  /\ Cut \in [Text -> Text]
  /\ \A t \in Text : Cut[Cut[t]] = Cut[t]
  /\ Rank \in [Text -> Nat]
  /\ \A s, t \in Text : Rank[Cut[s]] = Rank[Cut[t]] => Cut[s] = Cut[t]

VARIABLES
  dm,              \* the job
  input,           \* the whole input
  pos,             \* lines consumed: the header, and those that reached
                   \* process_line
  kept,            \* group_first_line: the position of its line, 0 if cleared
  lines_in_group,
  ops,             \* the accumulators, one for each operation of dm
  head,            \* the header line printed: a sequence of labels
  out,             \* the lines printed: keys or fields, and results
  ctab,            \* struct crosstab: the cells, by row and column name
  closed,          \* history: where each group that produced a result ended
  status           \* "start", "reading", "done", or why the program died

vars == <<dm, input, pos, kept, lines_in_group, ops, head, out, ctab, closed,
          status>>

Errors == {"missing field", "invalid value", "pair mismatch", "assertion"}
-----------------------------------------------------------------------------
(* different: the keys are compared in order, and the first that differs   *)
(* decides; a key that one of the lines lacks before that is fatal.        *)

Has(l, n) == n \in DOMAIN l

Key(l, n) == Folded(dm.case_sensitive, l[n])

BothHave(l1, l2, i) == Has(l1, dm.grps[i]) /\ Has(l2, dm.grps[i])

SameAt(l1, l2, i) ==
  BothHave(l1, l2, i) /\ Key(l1, dm.grps[i]) = Key(l2, dm.grps[i])

UnlikeNotLast(l1, l2) ==                  \* mutant: the loop misses the last key
  {i \in 1 .. Len(dm.grps) - 1 : ~SameAt(l1, l2, i)}

(* The keys at which two lines are not found to be the same.               *)
Unlike(l1, l2) == {i \in DOMAIN dm.grps : ~SameAt(l1, l2, i)}

Different(l1, l2) ==
  Unlike(l1, l2) # {} /\ BothHave(l1, l2, Min(Unlike(l1, l2)))

ComparisonDies(l1, l2) ==
  Unlike(l1, l2) # {} /\ ~BothHave(l1, l2, Min(Unlike(l1, l2)))

-----------------------------------------------------------------------------
(* process_line, and the guards of the loop of process_file                *)

Failing(l) ==
  {i \in DOMAIN dm.ops :
     LET o == dm.ops[i]
     IN  Has(l, o.field) =>
           ~Skipped(dm.narm, l[o.field]) /\ Invalid(o.op, l[o.field])}

(* The first operation that fails decides how the program dies.            *)
LineError(l) ==
  IF Has(l, dm.ops[Min(Failing(l))].field) THEN "invalid value"
  ELSE "missing field"

(* The accumulators before the line is collected are base; picks are the   *)
(* operations whose random draw was 0.                                     *)
CollectLine(l, base, picks) ==
  [i \in DOMAIN dm.ops |->
     IF Skipped(dm.narm, l[dm.ops[i].field]) THEN base[i]
     ELSE CollectOp(dm.ops[i].op, base[i], l[dm.ops[i].field], i \in picks)]

KeepLine(l, base, picks) ==
  \E i \in DOMAIN dm.ops :
    /\ ~Skipped(dm.narm, l[dm.ops[i].field])
    /\ KeepsLine(dm.ops[i].op, base[i], l[dm.ops[i].field], i \in picks)

LineMode == dm.mode = "per_line"

(* group_first_line->lbuf.length == 0                                      *)
NoGroupYet == kept # 0 => input[kept] = << >>

(* different is evaluated only when the tests before it are false.         *)
Compares == dm.grps # << >> /\ ~NoGroupYet /\ ~LineMode

NewGroupUnmarked(l) ==                      \* mutant: the mark is not tested
  \/ LineMode
  \/ Compares /\ Different(l, input[kept])

NewGroup(l) ==
  \/ NoGroupYet
  \/ LineMode
  \/ Compares /\ Different(l, input[kept])

(* With no keys the groups are never closed before the end of the input.   *)
ClosesGroup(l) == (dm.grps # << >> \/ LineMode) /\ NewGroup(l)

-----------------------------------------------------------------------------
(* process_group                                                           *)

SubValues(i) == IF dm.ops[i].sub = 0 THEN << >> ELSE ops[dm.ops[i].sub].values

(* The numbers of a set, the least first.                                  *)
Listed(S) ==
  CHOOSE s \in SetToSeqs(S) : \A i, k \in DOMAIN s : i < k => s[i] < s[k]

Primaries == Listed({i \in DOMAIN dm.ops : ~dm.ops[i].subordinate})

OpResult(i) ==
  SummarizeOp(dm.ops[i].op, ops[i], SubValues(i), dm.case_sensitive)

(* print_input_line                                                        *)
PrintedFields(l) == IF dm.full THEN l
                    ELSE [i \in DOMAIN dm.grps |-> l[dm.grps[i]]]

GroupError ==
  IF lines_in_group = 0 THEN "ok"
  ELSE IF /\ ~dm.full \/ dm.mode = "crosstab"
          /\ \E i \in DOMAIN dm.grps : ~Has(input[kept], dm.grps[i])
       THEN "missing field"
  ELSE IF \E i \in DOMAIN dm.ops :
            /\ ~dm.ops[i].subordinate
            /\ PairMismatch(dm.ops[i].op, ops[i], SubValues(i))
       THEN "pair mismatch" ELSE "ok"

(* The row and the column of a line: the names are copied to arrays of     *)
(* fixed size.                                                             *)
Cell(l) == <<Cut[l[dm.grps[1]]], Cut[l[dm.grps[2]]]>>

AddCellLast(l) ==                         \* mutant: the last result replaces
  [c \in DOMAIN ctab \cup {Cell(l)} |->
     IF c = Cell(l) THEN OpResult(1) ELSE ctab[c]]

(* crosstab_add_result: the first result of a cell stays.                  *)
AddCell(l) ==
  [c \in DOMAIN ctab \cup {Cell(l)} |->
     IF c \in DOMAIN ctab THEN ctab[c] ELSE OpResult(1)]

(* crosstab_print: the names in the order of strcmp, the filler where no   *)
(* group has that row and that column.                                     *)
Names(i) ==
  CHOOSE s \in SetToSeqs({c[i] : c \in DOMAIN ctab}) :
    \A m, n \in DOMAIN s : m < n => Rank[s[m]] < Rank[s[n]]

PrintedCell(row, column) ==
  IF <<row, column>> \in DOMAIN ctab THEN ctab[<<row, column>>] ELSE <<"filler">>

PrintedTable ==
  [columns |-> Names(2),
   rows    |-> Names(1),
   cells   |-> [r \in DOMAIN Names(1) |-> [c \in DOMAIN Names(2) |->
                  PrintedCell(Names(1)[r], Names(2)[c])]]]

PrintedGroup(l) == [fields  |-> PrintedFields(l),
                    results |-> [k \in DOMAIN Primaries |->
                                   OpResult(Primaries[k])]]

EmitGroupOfTwo ==                         \* mutant: lines_in_group > 1
  /\ closed' = IF lines_in_group > 1 THEN Append(closed, pos) ELSE closed
  /\ out' = IF lines_in_group > 1 /\ dm.mode # "crosstab"
            THEN Append(out, PrintedGroup(input[kept])) ELSE out
  /\ UNCHANGED ctab

(* What a group without an error leaves behind, its accumulators aside.    *)
EmitGroup ==
  /\ closed' = IF lines_in_group > 0 THEN Append(closed, pos) ELSE closed
  /\ out' = IF lines_in_group > 0 /\ dm.mode # "crosstab"
            THEN Append(out, PrintedGroup(input[kept])) ELSE out
  /\ ctab' = IF lines_in_group > 0 /\ dm.mode = "crosstab"
             THEN AddCell(input[kept]) ELSE ctab

-----------------------------------------------------------------------------
(* print_column_headers: n headers are known.  The check before a label is *)
(* made for the first operation of a pair; the name of the second is       *)
(* looked up by get_input_field_name, which asserts that it exists.        *)

LabelFields(i) == IF dm.ops[i].subordinate
                  THEN <<dm.ops[i].field, dm.ops[i+1].field>>
                  ELSE <<dm.ops[i].field>>

LabelStartsEach == [i \in DOMAIN dm.ops |-> i]   \* mutant: one label per field

(* The operations that start a label: a primary is part of its pair's.     *)
LabelStarts ==
  Listed({i \in DOMAIN dm.ops : i = 1 \/ ~dm.ops[i-1].subordinate})

BadLabels(n) == {k \in DOMAIN LabelStarts :
                   \E f \in Range(LabelFields(LabelStarts[k])) : f > n}

KeyUnlabelled(n) == ~dm.full /\ \E i \in DOMAIN dm.grps : dm.grps[i] > n

HeaderBad(n) == KeyUnlabelled(n) \/ BadLabels(n) # {}

HeaderError(n) ==
  IF KeyUnlabelled(n) \/ dm.ops[LabelStarts[Min(BadLabels(n))]].field > n
  THEN "missing field" ELSE "assertion"

HeaderLine(n) ==
  (IF dm.full THEN [i \in 1 .. n |-> <<"field", <<i>> >>]
   ELSE [i \in DOMAIN dm.grps |-> <<"GroupBy", <<dm.grps[i]>> >>])
  \o [k \in DOMAIN LabelStarts |->
        <<dm.ops[LabelStarts[k]].op, LabelFields(LabelStarts[k])>>]

-----------------------------------------------------------------------------
Init ==
  /\ dm \in Jobs
  /\ input \in Inputs
  /\ pos = 0 /\ kept = 0 /\ lines_in_group = 0
  /\ ops = [i \in DOMAIN dm.ops |-> ResetOp]
  /\ head = << >>
  /\ out = << >> /\ ctab = << >> /\ closed = << >>
  /\ status = "start"

(* Before the loop: the input header line is read, and printed on request. *)
Start ==
  /\ status = "start"
  /\ pos' = IF dm.header_in /\ input # << >> THEN 1 ELSE 0
  /\ IF dm.header_out /\ pos' = 1
     THEN LET n == Len(input[1]) IN
          /\ head' = IF HeaderBad(n) THEN head ELSE HeaderLine(n)
          /\ status' = IF HeaderBad(n) THEN HeaderError(n) ELSE "reading"
     ELSE head' = head /\ status' = "reading"
  /\ UNCHANGED <<dm, input, kept, lines_in_group, ops, out, ctab, closed>>

(* The first line, when it is data: dummy headers, "field-1" and so on.    *)
MakesHeader == pos = 0 /\ dm.header_out /\ ~dm.header_in

Reading == status = "reading" /\ pos < Len(input)

NextLine == input[pos + 1]

HeaderFails == MakesHeader /\ HeaderBad(Len(NextLine))

ComparisonFails == Compares /\ ComparisonDies(NextLine, input[kept])

GroupFails == ClosesGroup(NextLine) /\ GroupError # "ok"

(* The line that follows kills the program, before it is collected.        *)
Die ==
  /\ Reading
  /\ \/ HeaderFails /\ status' = HeaderError(Len(NextLine))
     \/ ~HeaderFails /\ ComparisonFails /\ status' = "missing field"
     \/ ~HeaderFails /\ ~ComparisonFails /\ GroupFails /\ status' = GroupError
  /\ UNCHANGED <<dm, input, pos, kept, lines_in_group, ops, head, out, ctab,
                 closed>>

(* The line gets as far as process_line, the previous group being closed   *)
(* and printed if the line starts a new one; if a value is bad the program *)
(* dies there, after that output.                                          *)
ReadLine ==
  /\ Reading /\ ~HeaderFails /\ ~ComparisonFails /\ ~GroupFails
  /\ head' = IF MakesHeader THEN HeaderLine(Len(NextLine)) ELSE head
  /\ IF ClosesGroup(NextLine) THEN EmitGroup ELSE UNCHANGED <<out, ctab, closed>>
  /\ pos' = pos + 1
  /\ lines_in_group' = (IF ClosesGroup(NextLine) THEN 0 ELSE lines_in_group) + 1
  /\ LET l    == NextLine
         base == IF ClosesGroup(l) THEN [i \in DOMAIN dm.ops |-> ResetOp] ELSE ops
     IN  IF Failing(l) # {}
         THEN /\ status' = LineError(l)
              /\ ops' = base
              /\ kept' = IF ClosesGroup(l) THEN 0 ELSE kept
         ELSE /\ \E picks \in SUBSET {i \in DOMAIN dm.ops :
                                        dm.ops[i].op = "rand"} :
                   /\ ops' = CollectLine(l, base, picks)
                   /\ kept' = IF NewGroup(l) \/ KeepLine(l, base, picks)
                              THEN pos + 1 ELSE kept
              /\ UNCHANGED status
  /\ UNCHANGED <<dm, input>>

FinishGood ==                             \* mutant: no exit on a bad last group
  /\ status = "reading" /\ pos = Len(input) /\ GroupError = "ok"
  /\ EmitGroup
  /\ lines_in_group' = 0
  /\ ops' = [i \in DOMAIN dm.ops |-> ResetOp]
  /\ status' = "done"
  /\ UNCHANGED <<dm, input, pos, kept, head>>

(* End of input: the last group is closed.                                 *)
Finish ==
  /\ status = "reading" /\ pos = Len(input)
  /\ IF GroupError = "ok"
     THEN /\ EmitGroup
          /\ lines_in_group' = 0
          /\ ops' = [i \in DOMAIN dm.ops |-> ResetOp]
          /\ status' = "done"
     ELSE /\ status' = GroupError
          /\ UNCHANGED <<out, ctab, closed, lines_in_group, ops>>
  /\ UNCHANGED <<dm, input, pos, kept, head>>

Next == Start \/ Die \/ ReadLine \/ Finish

Spec == Init /\ [][Next]_vars

FairSpec == Spec /\ WF_vars(Next)

-----------------------------------------------------------------------------
(* Properties                                                              *)

(* The type invariant.                                                     *)
TypeOK ==
  /\ dm \in Jobs
  /\ input \in Inputs
  /\ pos \in 0 .. Len(input)
  /\ kept \in 0 .. pos
  /\ lines_in_group \in 0 .. pos
  /\ ops \in [DOMAIN dm.ops -> OpState]
  /\ closed \in Seq(1 .. pos)
  /\ status \in {"start", "reading", "done"} \cup Errors

(* Each accumulator holds what its operation will read when the group is   *)
(* summarised: two numbers for a range, one string for each counted value  *)
(* of the operations that list strings, the string of those that keep one. *)
AccumulatorsReady == \A i \in DOMAIN ops : Ready(dm.ops[i].op, ops[i])

HeaderLines == IF dm.header_in /\ input # << >> THEN 1 ELSE 0

GroupStart(k) == IF k = 1 THEN HeaderLines + 1 ELSE closed[k - 1] + 1

SameKey(n, m) == \A i \in DOMAIN dm.grps : SameAt(input[n], input[m], i)

(* The groups that process_group has reported tile the lines read so far,  *)
(* up to the current group.                                                *)
GroupsTile ==
  status # "start" =>
    /\ pos - lines_in_group = GroupStart(Len(closed) + 1) - 1
    /\ \A k \in DOMAIN closed : GroupStart(k) <= closed[k]

(* No group mixes keys: any two lines that follow each other in a reported *)
(* group have the same key, although a line is only ever compared with the *)
(* line kept for the group, which the operations may have replaced.        *)
GroupsAreUniform ==
  \A k \in DOMAIN closed :
    \A n \in GroupStart(k) .. closed[k] - 1 : SameKey(n, n + 1)

(* No group is cut in two: the line after a reported group, if any, has a  *)
(* key different from that of the last line of the group.  Per-line mode,  *)
(* where each line is a group, is the exception.                           *)
GroupsAreMaximal ==
  ~LineMode =>
    \A k \in DOMAIN closed :
      closed[k] < Len(input) =>
        Different(input[closed[k] + 1], input[closed[k]])

(* The reported groups are the runs of lines with one key.                 *)
GroupsAreRuns == GroupsAreUniform /\ GroupsAreMaximal

(* group_first_line->lbuf.length == 0 is the code's mark for "no group is  *)
(* open": it must agree with lines_in_group whatever line was kept, the    *)
(* empty line included.                                                    *)
EmptyMeansNoGroup == status = "reading" => (NoGroupYet <=> lines_in_group = 0)

(* Without --full, the header line has a label for each column of every    *)
(* output line, also when an operation takes a pair of fields.             *)
HeaderMatchesColumns ==
  head # << >> /\ ~dm.full =>
    \A k \in DOMAIN out :
      Len(head) = Len(out[k].fields) + Len(out[k].results)

(* The line that --full prints for a group is the line whose value the     *)
(* operation reports.  Under --narm this is only so when a value was found *)
(* on the group's first line, and it is stated without --narm.             *)
FullLineShowsResult ==
  dm.full /\ ~dm.narm /\ Len(dm.ops) = 1 =>
    \A k \in DOMAIN out :
      LET t == out[k].fields[dm.ops[1].field]
          r == out[k].results[1]
      IN  /\ dm.ops[1].op \in Extremal => r = <<"number", Number[t]>>
          /\ dm.ops[1].op \in {"first", "last", "rand"} => r = <<"string", t>>

(* GroupBy implements GroupSummary: see there.                             *)
Summary == INSTANCE GroupSummary

(* The name that the line shown for a group gives to its row, or column.   *)
NameShown(shown, k, i) == Cut[input[shown[k]][dm.grps[i]]]

RunsNamed(shown, row, column) ==
  {k \in DOMAIN closed : NameShown(shown, k, 1) = row
                           /\ NameShown(shown, k, 2) = column}

TableShows(shown) ==
  LET table      == PrintedTable
      InOrder(s) == \A m, n \in DOMAIN s : m < n => Rank[s[m]] < Rank[s[n]]
  IN  /\ InOrder(table.rows) /\ InOrder(table.columns)
      /\ Range(table.rows)    = {NameShown(shown, k, 1) : k \in DOMAIN closed}
      /\ Range(table.columns) = {NameShown(shown, k, 2) : k \in DOMAIN closed}
      /\ \A r \in DOMAIN table.rows, c \in DOMAIN table.columns :
           LET runs == RunsNamed(shown, table.rows[r], table.columns[c])
           IN  IF runs = {} THEN table.cells[r][c] = <<"filler">>
               ELSE table.cells[r][c]
                      \in Summary!OpValues(1, GroupStart(Min(runs))
                                               .. closed[Min(runs)])

(* The table that crosstab prints names its rows and columns after a line  *)
(* of each run (with -i the lines of a run may differ), in strictly        *)
(* increasing order, so none twice; the cell of a row and a column is the  *)
(* value of the operation over the first run with these names, and the     *)
(* filler when there is none.  Names that agree in what the arrays hold    *)
(* are one name.                                                           *)
TableIsRight ==
  status = "done" /\ dm.mode = "crosstab" =>
    \E shown \in [DOMAIN closed -> 1 .. Len(input)] :
      /\ \A k \in DOMAIN closed : shown[k] \in GroupStart(k) .. closed[k]
      /\ TableShows(shown)

(* The streamed output is, at every moment, the reports of the first runs  *)
(* of equal keys of the whole input, computed by definition; the program   *)
(* ends well only after reporting every run of an input without bad lines, *)
(* and badly only when a line, a pair or the header justifies it.          *)
ImplementsSummary == Summary!Spec

(* The program ends on every input.                                        *)
Terminates == <>(status \in {"done"} \cup Errors)
=============================================================================
