----------------------------- MODULE LineReader ----------------------------
(***************************************************************************)
(* text-lines.c: reading a line, passing over comments and the beginning   *)
(* of a vnlog file, and splitting the line into fields.  A step reads one  *)
(* line or finds one field.                                                *)
(*                                                                         *)
(* A character is what the reader tells apart; a field is the positions    *)
(* beg .. end - 1 of its line, as its buf and len are.                     *)
(***************************************************************************)
EXTENDS Integers, Sequences

CONSTANTS Char,           \* the characters
          Blank,          \* those of them that are space or tab
          InitialFields,  \* the fields that a record has room for at first
          Jobs,           \* the command lines
          Inputs          \* the inputs: sequences of lines

(* Besides any others: the characters that begin comments.                 *)
Hash == "#"
Semicolon == ";"
Bang == "!"

(* What the NUL after the line reads as.                                   *)
NUL == "NUL"

(* in_tab: --field-separator, unless whitespace.  named: the mode asks for *)
(* a vnlog header; transpose, noop and check do not.                       *)
JobType == [whitespace : BOOLEAN, in_tab : Char, skip_comments : BOOLEAN,
            vnlog : BOOLEAN, named : BOOLEAN]

ValidJob(j) ==
  j \in JobType /\ (j.vnlog => j.whitespace /\ j.skip_comments)

ASSUME LineReaderAssumption ==
  /\ Blank \subseteq Char \ {Hash, Semicolon, Bang}
  /\ {Hash, Semicolon, Bang} \subseteq Char /\ NUL \notin Char
  /\ InitialFields \in Nat \ {0}
  /\ \A j \in Jobs : ValidJob(j)
  /\ Inputs \subseteq Seq(Seq(Char))

VARIABLES
  job, input,
  lines,         \* how many lines were read
  from,          \* where the part to be split begins
  pos,           \* fptr: the next position to look at
  fields,        \* lr->fields, and lr->num_fields its length
  alloc_fields,
  records,       \* what the calls returned
  status

vars == <<job, input, lines, from, pos, fields, alloc_fields, records, status>>

FieldType == [beg : Nat \ {0}, end : Nat \ {0}]

Ended == {"eof", "data before header"}
-----------------------------------------------------------------------------
(* Characters of a line.                                                   *)

At(l, p) == IF p \in DOMAIN l THEN l[p] ELSE NUL

(* strspn and the scanning loops: the first position from p on, that of    *)
(* the NUL included, whose character is not in S.                          *)
Past(l, p, S) ==
  CHOOSE q \in p .. Len(l) + 1 :
    /\ At(l, q) \notin S
    /\ \A r \in p .. q - 1 : l[r] \in S

Line == input[lines]

NextLine == input[lines + 1]

(* The first call wants the header, when the file is a vnlog one.          *)
vnlog_prologue == job.vnlog /\ job.named /\ records = << >>

First(l) == At(l, Past(l, 1, Blank))

(* line_record_is_comment                                                  *)
IsComment(l) == First(l) \in {Hash, Semicolon}

CountSingle(l) ==             \* mutant: ## and #! begin a single comment
  CASE First(l) = NUL -> 2 [] First(l) = Hash -> 1 [] OTHER -> 0

(* line_leading_comment_count                                              *)
LeadingCommentCount(l) ==
  LET c == Past(l, 1, Blank)
  IN CASE At(l, c) = NUL -> 2
       [] At(l, c) \notin {Hash, NUL} -> 0
       [] At(l, c) = Hash /\ At(l, c + 1) \in {Hash, Bang} -> 2
       [] OTHER -> 1

(* Where the names of a vnlog header begin: after '^\s*#\s*'.              *)
Legend(l) == Past(l, Past(l, Past(l, 1, Blank), {Hash}), Blank)

-----------------------------------------------------------------------------
Init ==
  /\ job \in Jobs /\ input \in Inputs
  /\ lines = 0 /\ from = 1 /\ pos = 1
  /\ fields = << >> /\ alloc_fields = InitialFields
  /\ records = << >>
  /\ status = "reading"

Passed(l) ==
  IF vnlog_prologue
  THEN \/ LeadingCommentCount(l) = 2
       \/ LeadingCommentCount(l) = 1 /\ At(l, Legend(l)) = NUL
  ELSE IF job.vnlog THEN First(l) \in {Hash, NUL}
       ELSE job.skip_comments /\ IsComment(l)

(* The loop of line_record_fread goes on.                                  *)
PassOver ==
  /\ status = "reading" /\ lines < Len(input)
  /\ Passed(NextLine)
  /\ lines' = lines + 1
  /\ UNCHANGED <<job, input, from, pos, fields, alloc_fields, records, status>>

Start(p) ==
  /\ from' = p /\ pos' = p
  /\ fields' = << >>
  /\ status' = "splitting"

TakeHeader ==
  /\ status = "reading" /\ lines < Len(input)
  /\ vnlog_prologue /\ ~Passed(NextLine)
  /\ lines' = lines + 1
  /\ IF LeadingCommentCount(NextLine) = 1
     THEN Start(Legend(NextLine))
     ELSE /\ status' = "data before header"
          /\ UNCHANGED <<from, pos, fields>>
  /\ UNCHANGED <<job, input, alloc_fields, records>>

TakeLine ==
  /\ status = "reading" /\ lines < Len(input)
  /\ ~vnlog_prologue /\ ~Passed(NextLine)
  /\ lines' = lines + 1
  /\ Start(1)
  /\ UNCHANGED <<job, input, alloc_fields, records>>

EndOfInput ==
  /\ status = "reading" /\ lines = Len(input)
  /\ status' = "eof"
  /\ UNCHANGED <<job, input, lines, from, pos, fields, alloc_fields, records>>

-----------------------------------------------------------------------------
(* line_record_parse_fields                                                *)

(* ignore_trailing_comments: not in the header.                            *)
Comments == IF job.vnlog /\ ~vnlog_prologue THEN {Hash} ELSE {}

(* ignore_trailing_whitespace                                              *)
DropsEmpty == job.vnlog

AddLate(f) ==                 \* mutant: room is made for num_fields - 1
  /\ fields' = Append(fields, f)
  /\ alloc_fields' = IF alloc_fields < Len(fields)
                     THEN 2 * Len(fields) ELSE alloc_fields

(* line_record_reserve_fields, then the new field.                         *)
Add(f) ==
  /\ fields' = Append(fields, f)
  /\ alloc_fields' = IF alloc_fields <= Len(fields)
                     THEN 2 * Len(fields) ELSE alloc_fields

MoreDelimitedStrict ==        \* mutant: pos < buflen
  pos <= Len(Line)

(* buflen && pos<=buflen && !IS_TRAILING_COMMENT                           *)
MoreDelimited ==
  /\ Len(Line) >= from
  /\ pos <= Len(Line) + 1
  /\ At(Line, pos) \notin Comments

SplitDelimited ==
  /\ status = "splitting" /\ ~job.whitespace /\ MoreDelimited
  /\ LET e == Past(Line, pos, Char \ ({job.in_tab} \cup Comments))
     IN /\ Add([beg |-> pos, end |-> e])
        /\ pos' = IF At(Line, e) \in Comments THEN Len(Line) + 2 ELSE e + 1
  /\ UNCHANGED <<job, input, lines, from, records, status>>

MoreWords == pos <= Len(Line) /\ At(Line, pos) \notin Comments

SplitWords ==
  /\ status = "splitting" /\ job.whitespace /\ MoreWords
  /\ LET b == Past(Line, pos, Blank)
         e == Past(Line, b, Char \ (Blank \cup Comments))
     IN /\ IF DropsEmpty /\ e = b THEN UNCHANGED <<fields, alloc_fields>>
           ELSE Add([beg |-> b, end |-> e])
        /\ pos' = e
  /\ UNCHANGED <<job, input, lines, from, records, status>>

Return ==
  /\ status = "splitting"
  /\ IF job.whitespace THEN ~MoreWords ELSE ~MoreDelimited
  /\ records' = Append(records, [line |-> lines, from |-> from,
                                 fields |-> fields])
  /\ status' = "reading"
  /\ UNCHANGED <<job, input, lines, from, pos, fields, alloc_fields>>

Stopped == status \in Ended /\ UNCHANGED vars

Next ==
  \/ PassOver \/ TakeHeader \/ TakeLine \/ EndOfInput
  \/ SplitDelimited \/ SplitWords \/ Return
  \/ Stopped

Spec == Init /\ [][Next]_vars

-----------------------------------------------------------------------------
(* Properties                                                              *)

(* The type invariant; no position behind the NUL is ever looked at.       *)
TypeOK ==
  /\ job \in Jobs /\ input \in Inputs
  /\ lines \in 0 .. Len(input)
  /\ status \in {"reading", "splitting"} \cup Ended
  /\ status = "splitting" =>
       /\ lines > 0
       /\ from \in 1 .. Len(Line) + 1 /\ pos \in from .. Len(Line) + 2
  /\ fields \in Seq(FieldType)
  /\ alloc_fields \in Nat
  /\ \A k \in DOMAIN records :
       records[k] \in [line : 1 .. lines, from : Nat \ {0},
                       fields : Seq(FieldType)]

(* There is room for the fields of the record, whatever lines it held      *)
(* before.                                                                 *)
HasRoom == Len(fields) <= alloc_fields

(* The field f is a part of the line l, an empty one at its end included.  *)
Within(f, l) == f.beg <= f.end /\ f.end <= Len(l) + 1

FieldsWithin ==
  /\ status = "splitting" => \A k \in DOMAIN fields : Within(fields[k], Line)
  /\ \A n \in DOMAIN records : \A k \in DOMAIN records[n].fields :
       Within(records[n].fields[k], input[records[n].line])

(* A record never has more fields than there is room for, whatever lines   *)
(* it held before, and the buf and len of each stay within its own line.   *)
FieldsFit == HasRoom /\ FieldsWithin

(* "Every tab separates two fields.  A line starting with a tab thus       *)
(* starts with an empty field, and a line ending with a tab ends with an   *)
(* empty field": the fields tile the line, one delimiter between two.      *)
DelimitedRight(l, fs) ==
  IF l = << >> THEN fs = << >>
  ELSE /\ fs # << >>
       /\ fs[1].beg = 1 /\ fs[Len(fs)].end = Len(l) + 1
       /\ \A k \in DOMAIN fs :
            /\ fs[k].beg <= fs[k].end
            /\ \A p \in fs[k].beg .. fs[k].end - 1 : l[p] # job.in_tab
       /\ \A k \in 1 .. Len(fs) - 1 :
            /\ fs[k + 1].beg = fs[k].end + 1
            /\ l[fs[k].end] = job.in_tab

(* The maximal runs of characters that are not blank, in l from b to e-1.  *)
Words(l, b, e) ==
  {w \in [beg : b .. e, end : b .. e] :
     /\ w.beg < w.end
     /\ \A p \in w.beg .. w.end - 1 : l[p] \notin Blank
     /\ w.beg = b \/ l[w.beg - 1] \in Blank
     /\ w.end = e \/ l[w.end] \in Blank}

(* "Leading whitespace is ignored, trailing whitespace results in an empty *)
(* field"; not so in vnlog, where a comment may end the line.              *)
WordsRight(l, b, e, fs) ==
  LET trailing == ~job.vnlog /\ e > b /\ l[e - 1] \in Blank
      words == {k \in DOMAIN fs : fs[k].beg < fs[k].end}
  IN /\ {fs[k] : k \in words} = Words(l, b, e)
     /\ \A k \in 1 .. Len(fs) - 1 : fs[k].end < fs[k + 1].beg
     /\ DOMAIN fs \ words = IF trailing THEN {Len(fs)} ELSE {}

(* Each record has the fields that the documents promise.                  *)
FieldsRight ==
  \A k \in DOMAIN records :
    LET l == input[records[k].line]
        header == job.vnlog /\ job.named /\ k = 1
        end == IF job.vnlog /\ ~header
               THEN Past(l, 1, Char \ {Hash}) ELSE Len(l) + 1
    IN IF job.whitespace
       THEN WordsRight(l, records[k].from, end, records[k].fields)
       ELSE DelimitedRight(l, records[k].fields)

(* A line whose first character that is not blank is in S.                 *)
Begins(l, S) ==
  \E p \in 1 .. Len(l) : l[p] \in S /\ \A q \in 1 .. p - 1 : l[q] \in Blank

BlankLine(l) == \A p \in DOMAIN l : l[p] \in Blank

(* The names of a vnlog header begin at b in the line l: behind one #,     *)
(* which neither another # nor ! follows, and behind blanks.               *)
NamesAt(l, b) ==
  \E p \in 1 .. b - 1 :
    /\ l[p] = Hash /\ \A q \in (1 .. b - 1) \ {p} : l[q] \in Blank
    /\ l[b] \notin Blank
    /\ b = p + 1 => l[b] \notin {Hash, Bang}

IsLegend(l) == \E b \in DOMAIN l : NamesAt(l, b)

(* "Skip comment lines (starting with '#' or ';' and optional whitespace)";*)
(* in a vnlog file the first line with a single # and a name is the header *)
(* and its names are what is split; comments and empty lines are left out; *)
(* every other line becomes a record, once and in order, and none may come *)
(* before the header.                                                      *)
RightLines ==
  LET Left(l) == IF job.vnlog THEN BlankLine(l) \/ Begins(l, {Hash})
                 ELSE job.skip_comments /\ Begins(l, {Hash, Semicolon})
      taken == {records[k].line : k \in DOMAIN records}
      read == 1 .. IF status = "splitting" THEN lines - 1 ELSE lines
      header == {n \in read : /\ job.vnlog /\ job.named /\ IsLegend(input[n])
                              /\ \A m \in 1 .. n - 1 : ~IsLegend(input[m])}
  IN /\ \A k \in 1 .. Len(records) - 1 : records[k].line < records[k + 1].line
     /\ status # "data before header" =>
          taken = header \cup {n \in read : ~Left(input[n])}
     /\ status = "data before header" =>
          records = << >> /\ header = {} /\ ~Left(input[lines])
     /\ \A n \in header : /\ records[1].line = n /\ records[1].fields # << >>
                           /\ NamesAt(input[n], records[1].from)
     /\ job.vnlog /\ job.named /\ records # << >> => header # {}
=============================================================================
