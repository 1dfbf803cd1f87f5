----------------------------- MODULE FileModes -----------------------------
(***************************************************************************)
(* The modes of datamash that handle a whole file without operations on    *)
(* columns: transpose, reverse, noop (with --full a copy) and check.  Each *)
(* is one loop over the lines of the input; a step reads a line, prints a  *)
(* row or ends.                                                            *)
(*                                                                         *)
(* A line is the sequence of its fields, as the line reader splits it      *)
(* (LineReader); transpose keeps all of them, the others only the number   *)
(* of fields of the line before, and check the line before.                *)
(***************************************************************************)
EXTENDS Integers, Sequences, SequencesExt

CONSTANTS Cell,       \* the contents of fields
          Filler,     \* --filler
          MaxFields,  \* a line has at most so many fields
          FieldName,  \* FieldName[i]: the text field-i
          Jobs,       \* the command lines
          Inputs      \* the inputs: sequences of lines

Line == Seq(Cell)

(* n_lines and n_fields: 0 when not given to check.                        *)
JobType == [mode : {"transpose", "reverse", "noop", "check"},
            strict : BOOLEAN, full : BOOLEAN,
            header_in : BOOLEAN, header_out : BOOLEAN, vnlog : BOOLEAN,
            n_lines : Nat, n_fields : Nat]

(* --vnlog insists on header lines.                                        *)
ValidJob(j) == j \in JobType /\ (j.vnlog => j.header_in /\ j.header_out)

ASSUME FileModesAssumption ==
  /\ Filler \in Cell
  /\ MaxFields \in Nat
  /\ FieldName \in [1 .. MaxFields -> Cell]
  /\ \A j \in Jobs : ValidJob(j)
  /\ Inputs \subseteq Seq(Line)
  /\ \A ls \in Inputs : \A j \in DOMAIN ls : Len(ls[j]) <= MaxFields

VARIABLES
  job, input,
  broken,            \* the stream ends with a read error
  line_number, prev_num_fields,
  max_num_fields,
  lines,             \* transpose: every line, and a record for the last read
  buffer,            \* check: its two lines
  this,              \* check: the one to read into, the other is prevline
  out,               \* the rows on the standard output
  report,            \* what check says: lines with their number and size
  status

vars == <<job, input, broken, line_number, prev_num_fields, max_num_fields,
          lines, buffer, this, out, report, status>>

(* How datamash ends.                                                      *)
Refused == {"ragged", "wrong size", "wrong length"}
Ended   == {"done", "read error"} \cup Refused

Row(mark, cells) == [mark |-> mark, cells |-> cells]

Entry(n, l) == [line |-> n, num_fields |-> Len(l), text |-> l]
-----------------------------------------------------------------------------
Init ==
  /\ job \in Jobs /\ input \in Inputs /\ broken \in BOOLEAN
  /\ line_number = 0 /\ prev_num_fields = 0 /\ max_num_fields = 0
  /\ lines = << >> /\ buffer = << << >>, << >> >> /\ this = 1
  /\ out = << >> /\ report = << >>
  /\ status = "reading"

More   == line_number < Len(input)
Thisline == input[line_number + 1]

ReadsIn(mode) == status = "reading" /\ job.mode = mode

DiffersLater ==               \* mutant: line_number>2
  line_number > 1 /\ Len(Thisline) # prev_num_fields

(* line_number>1 && num_fields != prev_num_fields, line_number counting    *)
(* this line.                                                              *)
Differs == line_number > 0 /\ Len(Thisline) # prev_num_fields

-----------------------------------------------------------------------------
(* transpose                                                               *)

StoreLine ==
  /\ ReadsIn("transpose") /\ More
  /\ line_number' = line_number + 1
  /\ lines' = Append(lines, Thisline)
  /\ IF job.strict /\ Differs
     THEN status' = "ragged" /\ UNCHANGED <<prev_num_fields, max_num_fields>>
     ELSE /\ status' = status
          /\ prev_num_fields' = Len(Thisline)
          /\ max_num_fields' = IF Len(Thisline) > max_num_fields
                               THEN Len(Thisline) ELSE max_num_fields
  /\ UNCHANGED <<job, input, broken, buffer, this, out, report>>

(* The end of the input: the record meant for one more line is empty.      *)
StoreEnds ==
  /\ ReadsIn("transpose") /\ ~More
  /\ lines' = Append(lines, << >>)
  /\ status' = "printing"
  /\ UNCHANGED <<job, input, broken, line_number, prev_num_fields,
                 max_num_fields, buffer, this, out, report>>

FieldOrFiller(l, i) == IF i \in DOMAIN l THEN l[i] ELSE Filler

ColumnAll(i) ==               \* mutant: j < num_lines
  [j \in DOMAIN lines |-> FieldOrFiller(lines[j], i)]

(* Field i of every line.                                                  *)
Column(i) == [j \in 1 .. line_number |-> FieldOrFiller(lines[j], i)]

PrintColumn ==
  /\ status = "printing" /\ Len(out) < max_num_fields
  /\ out' = Append(out, Row("", Column(Len(out) + 1)))
  /\ UNCHANGED <<job, input, broken, line_number, prev_num_fields,
                 max_num_fields, lines, buffer, this, report, status>>

PrintEnds ==
  /\ status = "printing" /\ Len(out) = max_num_fields
  /\ status' = "closing"
  /\ UNCHANGED <<job, input, broken, line_number, prev_num_fields,
                 max_num_fields, lines, buffer, this, out, report>>

-----------------------------------------------------------------------------
(* reverse                                                                 *)

FirstRowsOnce(l) ==           \* mutant: continue after the dummy header
  CASE job.vnlog -> <<Row("#", Reverse(l))>>
    [] ~job.vnlog /\ job.header_in /\ ~job.header_out -> << >>
    [] ~job.header_in /\ job.header_out ->
         <<Row("", Reverse([i \in DOMAIN l |-> FieldName[i]]))>>
    [] OTHER -> <<Row("", Reverse(l))>>

(* What is printed of the first line.                                      *)
FirstRows(l) ==
  CASE job.vnlog -> <<Row("#", Reverse(l))>>
    [] ~job.vnlog /\ job.header_in /\ ~job.header_out -> << >>
    [] ~job.header_in /\ job.header_out ->
         <<Row("", Reverse([i \in DOMAIN l |-> FieldName[i]])),
           Row("", Reverse(l))>>
    [] OTHER -> <<Row("", Reverse(l))>>

ReverseLine ==
  /\ ReadsIn("reverse") /\ More
  /\ line_number' = line_number + 1
  /\ IF job.strict /\ Differs
     THEN status' = "ragged" /\ UNCHANGED <<prev_num_fields, out>>
     ELSE /\ status' = status
          /\ prev_num_fields' = Len(Thisline)
          /\ out' = out \o IF line_number = 0 THEN FirstRows(Thisline)
                           ELSE <<Row("", Reverse(Thisline))>>
  /\ UNCHANGED <<job, input, broken, max_num_fields, lines, buffer, this,
                 report>>

-----------------------------------------------------------------------------
(* noop                                                                    *)

CopyLine ==
  /\ ReadsIn("noop") /\ More
  /\ line_number' = line_number + 1
  /\ out' = IF job.full THEN Append(out, Row("", Thisline)) ELSE out
  /\ UNCHANGED <<job, input, broken, prev_num_fields, max_num_fields, lines,
                 buffer, this, report, status>>

(* The end of the loops of reverse and noop.                               *)
LoopEnds ==
  /\ ReadsIn("reverse") \/ ReadsIn("noop")
  /\ ~More
  /\ status' = "closing"
  /\ UNCHANGED <<job, input, broken, line_number, prev_num_fields,
                 max_num_fields, lines, buffer, this, out, report>>

-----------------------------------------------------------------------------
(* check                                                                   *)

KeepThis(b) == b              \* mutant: the lines are not swapped
(* SWAP_LINES                                                              *)
Swapped(b) == 3 - b

CheckLine ==
  /\ ReadsIn("check") /\ More
  /\ line_number' = line_number + 1
  /\ buffer' = [buffer EXCEPT ![this] = Thisline]
  /\ LET bad == Entry(line_number + 1, Thisline)
     IN \/ /\ job.n_fields > 0 /\ job.n_fields # Len(Thisline)
           /\ status' = "wrong size" /\ report' = <<bad>>
           /\ UNCHANGED <<prev_num_fields, this>>
        \/ /\ job.n_fields = 0 \/ job.n_fields = Len(Thisline)
           /\ Differs
           /\ status' = "ragged"
           /\ report' = <<[line |-> line_number,
                           num_fields |-> prev_num_fields,
                           text |-> buffer[3 - this]], bad>>
           /\ UNCHANGED <<prev_num_fields, this>>
        \/ /\ job.n_fields = 0 \/ job.n_fields = Len(Thisline)
           /\ ~Differs
           /\ prev_num_fields' = Len(Thisline)
           /\ this' = Swapped(this)
           /\ UNCHANGED <<status, report>>
  /\ UNCHANGED <<job, input, broken, max_num_fields, lines, out>>

LengthWanted == job.n_lines = 0 \/ job.n_lines = line_number

(* The number of lines is looked at when all are read; then the summary.   *)
CheckEnds ==
  /\ ReadsIn("check") /\ ~More
  /\ IF LengthWanted
     THEN /\ status' = "closing"
          /\ report' = <<[line |-> line_number,
                          num_fields |-> prev_num_fields, text |-> << >>]>>
     ELSE status' = "wrong length" /\ UNCHANGED report
  /\ UNCHANGED <<job, input, broken, line_number, prev_num_fields,
                 max_num_fields, lines, buffer, this, out>>

-----------------------------------------------------------------------------
(* close_input: a read error is noticed after the mode has run.            *)
CloseInput ==
  /\ status = "closing"
  /\ status' = IF broken THEN "read error" ELSE "done"
  /\ UNCHANGED <<job, input, broken, line_number, prev_num_fields,
                 max_num_fields, lines, buffer, this, out, report>>

(* The process has exited.                                                 *)
Exited == status \in Ended /\ UNCHANGED vars

Next ==
  \/ StoreLine \/ StoreEnds \/ PrintColumn \/ PrintEnds
  \/ ReverseLine \/ CopyLine \/ LoopEnds
  \/ CheckLine \/ CheckEnds
  \/ CloseInput
  \/ Exited

Spec == Init /\ [][Next]_vars

-----------------------------------------------------------------------------
(* Properties                                                              *)

(* The type invariant.                                                     *)
TypeOK ==
  /\ job \in Jobs /\ input \in Inputs /\ broken \in BOOLEAN
  /\ line_number \in 0 .. Len(input)
  /\ prev_num_fields \in 0 .. MaxFields /\ max_num_fields \in 0 .. MaxFields
  /\ lines \in Seq(Line)
  /\ buffer \in Seq(Line) /\ Len(buffer) = 2 /\ this \in {1, 2}
  /\ out \in Seq([mark : {"", "#"}, cells : Line])
  /\ report \in Seq([line : Nat, num_fields : Nat, text : Line])
  /\ status \in {"reading", "printing", "closing"} \cup Ended

AllRead == status \in {"closing", "done", "read error"}

(* The modes that want all lines to have the same number of fields.        *)
Compares == \/ job.mode = "check"
            \/ job.mode \in {"transpose", "reverse"} /\ job.strict

(* "By default, transpose verifies the input has the same number of fields *)
(* in each line, and fails with an error otherwise": a line is refused if  *)
(* and only if it is the first whose size is not that of the first line,   *)
(* although each is compared with the line before it only.                 *)
RefusedIsFirstRagged ==
  status = "ragged" =>
    /\ line_number > 1
    /\ \A k \in 1 .. line_number - 1 : Len(input[k]) = Len(input[1])
    /\ Len(input[line_number]) # Len(input[1])

(* What is accepted has lines of one size, that asked for, and the length  *)
(* asked for.                                                              *)
AcceptedIsRectangular ==
  AllRead /\ Compares =>
    /\ \A k \in DOMAIN input : Len(input[k]) = Len(input[1])
    /\ job.mode = "check" =>
         /\ job.n_fields # 0 =>
              \A k \in DOMAIN input : Len(input[k]) = job.n_fields
         /\ job.n_lines \in {0, Len(input)}

(* Raggedness is found on the first line that shows it, and is never missed. *)
RaggedIsRefused == RefusedIsFirstRagged /\ AcceptedIsRectangular

(* The columns of what transpose prints are the lines of the input, the    *)
(* missing fields at their ends filled, and no row is there for nothing.   *)
TransposedBack ==
  job.mode = "transpose" /\ AllRead =>
    /\ \A i \in DOMAIN out : Len(out[i].cells) = Len(input)
    /\ \A j \in DOMAIN input :
         /\ Len(input[j]) <= Len(out)
         /\ \A i \in DOMAIN out :
              out[i].cells[j] = IF i <= Len(input[j]) THEN input[j][i]
                                ELSE Filler
    /\ out # << >> => \E j \in DOMAIN input : Len(input[j]) = Len(out)

(* Every line with its fields in reverse; the names of the columns in      *)
(* front of lines that have none, or the line that has them left out.      *)
ReversedInput ==
  LET rows == [j \in DOMAIN input |->
                 Row(IF job.vnlog /\ j = 1 THEN "#" ELSE "", Reverse(input[j]))]
      names == IF input = << >> THEN << >>
               ELSE <<Row("", Reverse(SubSeq(FieldName, 1, Len(input[1]))))>>
  IN CASE job.header_in = job.header_out -> rows
       [] job.header_out /\ ~job.header_in -> names \o rows
       [] job.header_in /\ ~job.header_out -> SubSeq(rows, 2, Len(rows))

(* reverse prints as it reads: what it has printed when it refuses a line  *)
(* is right as far as it goes, and it has printed all when it ends.        *)
ReversedSoFar ==
  job.mode = "reverse" =>
    /\ IsPrefix(out, ReversedInput)
    /\ AllRead => out = ReversedInput
    /\ status = "ragged" /\ job.header_in = job.header_out =>
         Len(out) = line_number - 1

(* check shows the line it refuses and, when it compared the two, the line *)
(* before it, though a record is read over every second line; or it tells  *)
(* the size of the whole input.                                            *)
ReportIsTrue ==
  LET Shown(n) == Entry(n, input[n])
  IN /\ status = "wrong size" => report = <<Shown(line_number)>>
     /\ job.mode = "check" /\ status = "ragged" =>
          report = <<Shown(line_number - 1), Shown(line_number)>>
     /\ job.mode = "check" /\ AllRead =>
          /\ report[1].line = Len(input)
          /\ \A k \in DOMAIN input : report[1].num_fields = Len(input[k])
=============================================================================
