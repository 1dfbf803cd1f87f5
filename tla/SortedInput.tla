---------------------------- MODULE SortedInput -----------------------------
(***************************************************************************)
(* Where the lines of the grouping modes come from: open_input, the header *)
(* line, the sort child-process and close_input of datamash.c.  With       *)
(* --sort, datamash reads the header itself from the standard input it     *)
(* shares with the child, starts the child and reads the sorted lines from *)
(* a pipe; without it, datamash reads the standard input to the end.       *)
(*                                                                         *)
(* What is done with a data line belongs to GroupBy and Rmdup; here it is  *)
(* recorded.  Lines are named by their position in the input.  Two         *)
(* processes take steps: datamash and sort (external, modelled from how    *)
(* datamash calls it: sort -s [-f] [-t X] -kN,N ..., in the C locale).     *)
(***************************************************************************)
EXTENDS Integers, Sequences, FiniteSets, SequencesExt

CONSTANTS Text,       \* the field contents
          Rank,       \* the order of texts in the C locale: Text -> Nat \ {0}
          Fold,       \* the upper-case form of a text
          MaxBlanks,  \* at most so many blanks precede a field
          Jobs,       \* the command lines
          Inputs,     \* the inputs: sequences of lines
          PipeSize    \* how many lines the pipe holds

(* A field with the blanks before it; they are no part of the field, and   *)
(* there are some only with --whitespace.                                  *)
Field == [blanks : 0 .. MaxBlanks, text : Text]

(* bad marks a line on which the mode's loop gives up.                     *)
Line == [fields : Seq(Field), bad : BOOLEAN]

(* struct group_column_t: num is 0 for a column given by name.             *)
Column == [num : Nat, name : Text]

JobType == [mode : {"groupby", "rmdup"}, sort : BOOLEAN, header_in : BOOLEAN,
            grps : Seq(Column), opnames : SUBSET Text, whitespace : BOOLEAN,
            case_sensitive : BOOLEAN]

Named(j) == {i \in DOMAIN j.grps : j.grps[i].num = 0}

(* Named columns need --header-in; rmdup has one key.                      *)
ValidJob(j) ==
  /\ j \in JobType
  /\ Named(j) # {} \/ j.opnames # {} => j.header_in
  /\ j.mode = "rmdup" => Len(j.grps) = 1 /\ j.opnames = {}

ASSUME SortedInputAssumption ==
  /\ Rank \in [Text -> Nat \ {0}]
  /\ \A s, t \in Text : Rank[s] = Rank[t] => s = t
  /\ Fold \in [Text -> Text]
  /\ MaxBlanks \in Nat /\ PipeSize \in Nat \ {0}
  /\ \A j \in Jobs : ValidJob(j)
  /\ Inputs \subseteq Seq(Line)

VARIABLES
  job, input,
  off,           \* the offset of the standard input both processes share
  columns,       \* dm->grps[i].num: 0 until a name is resolved
  line_number,
  header,        \* the lines read as header lines
  data,          \* the lines that reached the mode's loop
  status,        \* of datamash
  child,         \* the sort process: not there, at work, or how it ended
  sorted,        \* what it has yet to write
  pipe

vars == <<job, input, off, columns, line_number, header, data, status, child,
          sorted, pipe>>

Errors == {"unknown column", "bad line", "read error on close"}
Ended  == {"done"} \cup Errors

(* refused: sort did not accept its arguments; failed: anything else.      *)
ChildEnded == {"exited", "refused", "failed"}
-----------------------------------------------------------------------------
(* Header lines.                                                           *)

UsesSort == job.sort /\ job.grps # << >>

Texts(l) == {l.fields[f].text : f \in DOMAIN l.fields}

(* get_input_field_number: the first column with the name.                 *)
FieldNumber(l, name) ==
  Min({f \in DOMAIN l.fields : l.fields[f].text = name})

Resolved(l) ==
  [i \in DOMAIN columns |->
     IF columns[i] = 0 THEN FieldNumber(l, job.grps[i].name) ELSE columns[i]]

(* The names that the header line l must have.                             *)
Wanted == {job.grps[i].name : i \in {k \in DOMAIN columns : columns[k] = 0}}
            \cup job.opnames

(* process_input_header once a line was read, and its copy in rmdup.       *)
TakeHeader(n, next) ==
  /\ header' = Append(header, n)
  /\ line_number' = line_number + 1
  /\ IF Wanted \subseteq Texts(input[n])
     THEN columns' = Resolved(input[n]) /\ status' = next
     ELSE columns' = columns /\ status' = "unknown column"

-----------------------------------------------------------------------------
(* The stream that the mode's loop reads.                                  *)

CanRead == IF UsesSort THEN pipe # << >> ELSE off < Len(input)

AtEofExited ==                  \* mutant: a failed child is no end of input
  IF UsesSort THEN pipe = << >> /\ child = "exited" ELSE off = Len(input)

AtEof == IF UsesSort THEN pipe = << >> /\ child \in ChildEnded
         ELSE off = Len(input)

NextPos == IF UsesSort THEN Head(pipe) ELSE off + 1

Consume == IF UsesSort THEN pipe' = Tail(pipe) /\ UNCHANGED off
           ELSE off' = off + 1 /\ UNCHANGED pipe

-----------------------------------------------------------------------------
(* sort: lines in the order of their keys, lines with equal keys in their  *)
(* order.                                                                  *)

Letters(t) == IF job.case_sensitive THEN t ELSE Fold[t]

SortKeyExact(l, n) ==            \* mutant: sort is called without -f
  IF n \notin DOMAIN l.fields THEN << -MaxBlanks - 1, 0>>
  ELSE << -l.fields[n].blanks, Rank[l.fields[n].text]>>

(* Without -t a key includes the blanks before its field, and a blank is   *)
(* smaller than any other character; a missing key is empty, comes first.  *)
SortKey(l, n) ==
  IF n \notin DOMAIN l.fields THEN << -MaxBlanks - 1, 0>>
  ELSE << -l.fields[n].blanks, Rank[Letters(l.fields[n].text)]>>

(* What sort compares of a line: two numbers for each key.                 *)
Weight(n) == [i \in DOMAIN columns |-> SortKey(input[n], columns[i])]

Less(v, w) == v[1] < w[1] \/ (v[1] = w[1] /\ v[2] < w[2])

Before(a, b) ==
  \/ \E k \in DOMAIN columns :
       /\ Less(Weight(a)[k], Weight(b)[k])
       /\ \A m \in 1 .. k - 1 : Weight(a)[m] = Weight(b)[m]
  \/ Weight(a) = Weight(b) /\ a < b

(* There is one.                                                           *)
Sortings(lines) ==
  {s \in SetToSeqs(lines) : \A i, k \in DOMAIN s : i < k => Before(s[i], s[k])}

-----------------------------------------------------------------------------
HasBlanks(inp) ==
  \E n \in DOMAIN inp : \E f \in DOMAIN inp[n].fields : inp[n].fields[f].blanks > 0

Init ==
  /\ job \in Jobs
  /\ input \in {inp \in Inputs : HasBlanks(inp) => job.whitespace}
  /\ off = 0 /\ line_number = 0
  /\ columns = [i \in DOMAIN job.grps |-> job.grps[i].num]
  /\ header = << >> /\ data = << >>
  /\ status = "start"
  /\ child = "none" /\ sorted = << >> /\ pipe = << >>

OpenBuffered ==                  \* mutant: the header is read without setbuf
  /\ status = "start"
  /\ IF UsesSort /\ job.header_in /\ input # << >>
     THEN off' = Len(input) /\ TakeHeader(1, "header")
     ELSE status' = "header" /\ UNCHANGED <<off, columns, line_number, header>>
  /\ child' = IF UsesSort /\ status' = "header" THEN "reading" ELSE "none"
  /\ UNCHANGED <<job, input, data, sorted, pipe>>

(* open_input.  The header is read without buffering, so that the child    *)
(* finds the line after it.                                                *)
OpenInput ==
  /\ status = "start"
  /\ IF UsesSort /\ job.header_in /\ input # << >>
     THEN off' = 1 /\ TakeHeader(1, "header")
     ELSE status' = "header" /\ UNCHANGED <<off, columns, line_number, header>>
  /\ child' = IF UsesSort /\ status' = "header" THEN "reading" ELSE "none"
  /\ UNCHANGED <<job, input, data, sorted, pipe>>

(* The start of process_file and of remove_dups_in_file.  Only the former  *)
(* asks whether the header line was read already.                          *)
ReadsHeader == job.header_in /\ (job.mode = "groupby" => line_number = 0)

ReadHeader ==
  /\ status = "header"
  /\ \/ /\ ReadsHeader /\ CanRead
        /\ Consume
        /\ TakeHeader(NextPos, "reading")
     \/ /\ ~ReadsHeader \/ AtEof
        /\ status' = "reading"
        /\ UNCHANGED <<off, pipe, header, line_number, columns>>
  /\ UNCHANGED <<job, input, data, child, sorted>>

ReadLine ==
  /\ status = "reading" /\ CanRead
  /\ Consume
  /\ line_number' = line_number + 1
  /\ data' = Append(data, NextPos)
  /\ status' = IF input[NextPos].bad THEN "bad line" ELSE "reading"
  /\ UNCHANGED <<job, input, columns, header, child, sorted>>

(* close_input: pclose waits for the child and returns its exit status.    *)
CloseInput ==
  /\ status = "reading" /\ AtEof
  /\ status' = IF child \in {"refused", "failed"}
               THEN "read error on close" ELSE "done"
  /\ UNCHANGED <<job, input, off, columns, line_number, header, data, child,
                 sorted, pipe>>

-----------------------------------------------------------------------------
(* The sort process.                                                       *)

(* It reads all of its input before it writes; -k0,0 is refused.           *)
SortReads ==
  /\ child = "reading"
  /\ IF 0 \in Range(columns)
     THEN child' = "refused" /\ UNCHANGED <<off, sorted>>
     ELSE /\ child' = "writing"
          /\ off' = Len(input)
          /\ sorted' \in Sortings(off + 1 .. Len(input))
  /\ UNCHANGED <<job, input, columns, line_number, header, data, status, pipe>>

SortWrites ==
  /\ child = "writing" /\ status \notin Ended
  /\ sorted # << >> /\ Len(pipe) < PipeSize
  /\ pipe' = Append(pipe, Head(sorted))
  /\ sorted' = Tail(sorted)
  /\ UNCHANGED <<job, input, off, columns, line_number, header, data, status,
                 child>>

SortExits ==
  /\ child = "writing" /\ sorted = << >>
  /\ child' = "exited"
  /\ UNCHANGED <<job, input, off, columns, line_number, header, data, status,
                 sorted, pipe>>

(* No memory, no room for temporary files, a signal.                       *)
SortBreaks ==
  /\ child \in {"reading", "writing"}
  /\ child' = "failed"
  /\ sorted' = << >>
  /\ UNCHANGED <<job, input, off, columns, line_number, header, data, status,
                 pipe>>

(* datamash has exited: a write to the pipe kills the child.               *)
SortIsKilled ==
  /\ child = "writing" /\ sorted # << >> /\ status \in Ended
  /\ child' = "failed"
  /\ sorted' = << >>
  /\ UNCHANGED <<job, input, off, columns, line_number, header, data, status,
                 pipe>>

-----------------------------------------------------------------------------
Datamash == OpenInput \/ ReadHeader \/ ReadLine \/ CloseInput
Sort     == SortReads \/ SortWrites \/ SortExits \/ SortIsKilled

Next == Datamash \/ Sort \/ SortBreaks

Spec == Init /\ [][Next]_vars

FairSpec == Spec /\ WF_vars(Datamash) /\ WF_vars(Sort)

-----------------------------------------------------------------------------
(* Properties                                                              *)

(* The type invariant.                                                     *)
TypeOK ==
  /\ job \in Jobs
  /\ input \in Inputs
  /\ off \in 0 .. Len(input)
  /\ columns \in [DOMAIN job.grps -> Nat]
  /\ line_number = Len(header) + Len(data)
  /\ header \in Seq(1 .. Len(input))
  /\ data \in Seq(1 .. Len(input))
  /\ status \in {"start", "header", "reading"} \cup Ended
  /\ child \in {"none", "reading", "writing"} \cup ChildEnded
  /\ sorted \in Seq(1 .. Len(input))
  /\ pipe \in Seq(1 .. Len(input)) /\ Len(pipe) <= PipeSize

HeaderCount == IF job.header_in /\ input # << >> THEN 1 ELSE 0

(* "Indicates the first input line is column headers, and should not be    *)
(* used for any calculations": when all went well, the first line was the  *)
(* header and every other line has reached the loop once, whatever the     *)
(* sort process did; and sort is at fault when an error is reported on     *)
(* closing, but for an input without the line that would turn the names of *)
(* the keys into numbers.                                                  *)
DataDelivered ==
  /\ status = "done" =>
       /\ header = [i \in 1 .. HeaderCount |-> 1]
       /\ IsInjective(data)
       /\ Range(data) = HeaderCount + 1 .. Len(input)
  /\ status = "read error on close" =>
       child = "failed" \/ (input = << >> /\ Named(job) # {})

(* The key that different () compares, for lines that have it.             *)
GroupKey(n) == [i \in DOMAIN columns |->
                  Letters(input[n].fields[columns[i]].text)]

HasKey(n) == Range(columns) \subseteq DOMAIN input[n].fields

(* The blanks before its fields, which sort compares with them under -W.   *)
BlanksBefore(n) == [i \in DOMAIN columns |-> input[n].fields[columns[i]].blanks]

Alike(m, n) ==
  /\ HasKey(m) /\ HasKey(n) /\ GroupKey(m) = GroupKey(n)
  /\ job.whitespace => BlanksBefore(m) = BlanksBefore(n)

(* "Use --sort to automatically sort the input": the lines of a group      *)
(* reach the loop one after the other, in the order they had.  With -W     *)
(* sort tells lines apart that have other blanks before their keys; those  *)
(* that have the same blanks stay together there too, whatever blanks the  *)
(* other lines have.                                                       *)
GroupsTogether ==
  UsesSort =>
    \A i, k \in DOMAIN data :
      i < k /\ Alike(data[i], data[k])
      => /\ data[i] < data[k]
         /\ \A j \in i .. k : Alike(data[i], data[j])

(* Both processes end: datamash on every input and whatever sort does, and *)
(* sort also when datamash has left it alone.                              *)
BothEnd == <>[](status \in Ended /\ child \notin {"reading", "writing"})
=============================================================================
