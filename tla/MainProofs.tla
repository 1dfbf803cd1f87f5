----------------------------- MODULE MainProofs -----------------------------
(***************************************************************************)
(* Proofs about what datamash does with whole files (FileModes): for every *)
(* command line, every input and every set of field contents; and about    *)
(* what it reads out of texts (MCUtils): its options, the extension of a   *)
(* file name and a format for numbers.                                     *)
(***************************************************************************)
EXTENDS FileModes, MCUtils, FiniteSetTheorems, SequenceTheorems,
        WellFoundedInduction, TLAPS

-----------------------------------------------------------------------------
(* Whole files.                                                            *)

Entries == [line : Nat, num_fields : Nat, text : Line]

Rows == [mark : {"", "#"}, cells : Line]

LEMMA OneMore ==
  ASSUME NEW S, NEW q \in Seq(S), NEW r \in S
  PROVE  /\ Append(q, r) \in Seq(S) /\ Len(Append(q, r)) = Len(q) + 1
         /\ <<r>> \in Seq(S)
OBVIOUS

LEMMA OutType ==
  ASSUME TypeOK
  PROVE  out \in Seq(Rows) /\ Len(out) \in Nat
PROOF
  <1>1. out \in Seq(Rows)
    BY DEF TypeOK, Rows
  <1> QED BY <1>1

(* The values behind the variables.                                        *)
LEMMA JobTypes ==
  ASSUME TypeOK
  PROVE  /\ job \in JobType /\ MaxFields \in Nat
         /\ Len(input) \in Nat /\ DOMAIN input = 1 .. Len(input)
         /\ line_number \in Nat /\ line_number <= Len(input)
         /\ \A j \in 1 .. Len(input) :
              input[j] \in Line /\ Len(input[j]) \in 0 .. MaxFields
         /\ lines \in Seq(Line) /\ Len(lines) \in Nat
         /\ prev_num_fields \in 0 .. MaxFields
         /\ max_num_fields \in 0 .. MaxFields
PROOF
  <1>1. input \in Seq(Line) /\ job \in JobType /\ MaxFields \in Nat
    BY FileModesAssumption DEF TypeOK, ValidJob
  <1>2. Len(input) \in Nat /\ DOMAIN input = 1 .. Len(input)
    BY <1>1
  <1>3. line_number \in Nat /\ line_number <= Len(input)
    <2>1. line_number \in 0 .. Len(input)
      BY DEF TypeOK
    <2> QED BY <1>2, <2>1
  <1>4. \A j \in 1 .. Len(input) : input[j] \in Line
    BY <1>1
  <1>5. \A j \in 1 .. Len(input) : Len(input[j]) \in Nat
    BY <1>4 DEF Line
  <1>6. \A j \in 1 .. Len(input) : Len(input[j]) <= MaxFields
    BY <1>2, FileModesAssumption DEF TypeOK
  <1>7. /\ lines \in Seq(Line) /\ prev_num_fields \in 0 .. MaxFields
        /\ max_num_fields \in 0 .. MaxFields
    BY DEF TypeOK
  <1>8. Len(lines) \in Nat
    BY <1>7
  <1>9. \A j \in 1 .. Len(input) : Len(input[j]) \in 0 .. MaxFields
    BY <1>1, <1>5, <1>6
  <1> QED BY <1>1, <1>2, <1>3, <1>4, <1>7, <1>8, <1>9

(* What is known of a line that is still to be read.                       *)
LEMMA ThislineType ==
  ASSUME TypeOK, More
  PROVE  /\ Thisline = input[line_number + 1]
         /\ Thisline \in Line
         /\ Len(Thisline) \in 0 .. MaxFields
         /\ line_number + 1 \in 1 .. Len(input)
PROOF
  <1>1. line_number + 1 \in 1 .. Len(input)
    BY JobTypes DEF More
  <1> QED BY <1>1, JobTypes DEF Thisline

LEMMA ReverseType ==
  ASSUME NEW l \in Line
  PROVE  Row("", Reverse(l)) \in Rows /\ Row("#", Reverse(l)) \in Rows
PROOF
  <1>1. Reverse(l) \in Line
    BY DEF Reverse, Line
  <1> QED BY <1>1 DEF Row, Rows

LEMMA FirstRowsType ==
  ASSUME job \in JobType, NEW l \in Line, Len(l) <= MaxFields
  PROVE  FirstRows(l) \in Seq(Rows)
PROOF
  <1> DEFINE names == [i \in DOMAIN l |-> FieldName[i]]
  <1>1. names \in Line
    <2>1. DOMAIN l = 1 .. Len(l) /\ Len(l) \in Nat
      BY DEF Line
    <2>2. \A i \in 1 .. Len(l) : FieldName[i] \in Cell
      BY <2>1, FileModesAssumption
    <2> QED BY <2>1, <2>2 DEF Line
  <1>2. Row("", Reverse(names)) \in Rows
    BY <1>1, ReverseType
  <1>3. Row("", Reverse(l)) \in Rows /\ Row("#", Reverse(l)) \in Rows
    BY ReverseType
  <1> HIDE DEF names
  <1> DEFINE r == Row("", Reverse(l))
             h == Row("#", Reverse(l))
             d == Row("", Reverse(names))
  <1>4. FirstRows(l) = CASE job.vnlog -> <<h>>
                         [] ~job.vnlog /\ job.header_in /\ ~job.header_out -> << >>
                         [] ~job.header_in /\ job.header_out -> <<d, r>>
                         [] OTHER -> <<r>>
    BY DEF FirstRows, names
  <1>5. r \in Rows /\ h \in Rows /\ d \in Rows
    BY <1>2, <1>3
  <1> HIDE DEF r, h, d
  <1>6. job.vnlog \in BOOLEAN /\ job.header_in \in BOOLEAN /\ job.header_out \in BOOLEAN
    BY DEF JobType
  <1>7. FirstRows(l) \in {<<h>>, << >>, <<d, r>>, <<r>>}
    BY <1>4, <1>6, Zenon
  <1>8. /\ << >> \in Seq(Rows) /\ <<h>> \in Seq(Rows) /\ <<r>> \in Seq(Rows)
        /\ <<d, r>> \in Seq(Rows)
    BY <1>5
  <1> QED BY <1>7, <1>8

LEMMA ColumnType ==
  ASSUME TypeOK, line_number <= Len(lines), NEW i \in Nat \ {0}
  PROVE  Column(i) \in Line /\ Row("", Column(i)) \in Rows
PROOF
  <1>1. line_number \in Nat /\ lines \in Seq(Line)
    BY JobTypes
  <1>2. \A j \in 1 .. line_number : lines[j] \in Line
    BY <1>1
  <1>3. \A j \in 1 .. line_number : FieldOrFiller(lines[j], i) \in Cell
    BY <1>2, FileModesAssumption DEF FieldOrFiller, Line
  <1>4. Column(i) \in Line
    BY <1>1, <1>3 DEF Column, Line
  <1> QED BY <1>4 DEF Row, Rows

-----------------------------------------------------------------------------
(* The inductive invariant.                                                *)

(* How many of the lines read were accepted.                               *)
Accepted == IF status \in {"ragged", "wrong size"} THEN line_number - 1
            ELSE line_number

(* The only thing remembered of the lines before stands for all of them.   *)
Sizes ==
  /\ Compares => \A k \in 1 .. Accepted : Len(input[k]) = prev_num_fields
  /\ job.mode = "check" /\ job.n_fields # 0 =>
       \A k \in 1 .. Accepted : Len(input[k]) = job.n_fields
  /\ status \in {"ragged", "wrong size"} => line_number > 0
  /\ status = "ragged" =>
       Compares /\ line_number > 1 /\ Len(input[line_number]) # prev_num_fields

Finished ==
  /\ status = "printing" \/ AllRead => line_number = Len(input)
  /\ job.mode = "check" /\ AllRead => job.n_lines \in {0, Len(input)}

Kept ==
  job.mode = "transpose" =>
    /\ line_number <= Len(lines)
    /\ status = "reading" => Len(lines) = line_number
    /\ \A j \in 1 .. line_number : lines[j] = input[j]

Widest ==
  job.mode = "transpose" /\ status # "ragged" =>
    /\ \A j \in 1 .. line_number : Len(input[j]) <= max_num_fields
    /\ max_num_fields # 0 =>
         \E j \in 1 .. line_number : Len(input[j]) = max_num_fields

Printed ==
  /\ status = "printing" => job.mode = "transpose"
  /\ job.mode = "transpose" =>
       /\ Len(out) <= max_num_fields
       /\ \A i \in DOMAIN out : out[i].cells = Column(i)
       /\ status = "reading" => out = << >>
       /\ AllRead => Len(out) = max_num_fields

IInv == TypeOK /\ Sizes /\ Finished /\ Kept /\ Widest /\ Printed

LEMMA InitIInv == Init => IInv
PROOF
  <1> SUFFICES ASSUME Init PROVE IInv
    OBVIOUS
  <1>1. TypeOK
    <2>1. line_number \in 0 .. Len(input)
      BY FileModesAssumption DEF Init
    <2>2. buffer \in Seq(Line) /\ Len(buffer) = 2
      BY DEF Init, Line
    <2> QED BY <2>1, <2>2, FileModesAssumption DEF Init, TypeOK, Ended
  <1>2. Sizes /\ Finished /\ Kept /\ Widest /\ Printed
    BY DEF Init, Sizes, Finished, Kept, Widest, Printed, Accepted, AllRead
  <1> QED BY <1>1, <1>2 DEF IInv

(* No action changes the job or the input.                                 *)
LEMMA Fixed ==
  [Next]_vars => job' = job /\ input' = input /\ broken' = broken
BY DEF Next, vars, StoreLine, StoreEnds, PrintColumn, PrintEnds, ReverseLine,
       CopyLine, LoopEnds, CheckLine, CheckEnds, CloseInput, Exited

LEMMA StoreLineIInv ==
  ASSUME IInv, StoreLine
  PROVE  IInv'
PROOF
  <1>1. /\ Thisline \in Line /\ Len(Thisline) \in 0 .. MaxFields
        /\ line_number + 1 \in 1 .. Len(input)
    BY ThislineType DEF IInv, StoreLine
  <1>2. /\ job \in JobType
        /\ lines \in Seq(Line) /\ Len(lines) \in Nat
        /\ line_number \in Nat /\ Len(input) \in Nat
        /\ prev_num_fields \in 0 .. MaxFields /\ max_num_fields \in 0 .. MaxFields
        /\ MaxFields \in Nat
    BY JobTypes DEF IInv
  <1>3. job' = job /\ input' = input /\ Thisline = input[line_number + 1]
    BY DEF StoreLine, Thisline
  <1>4. TypeOK'
    <2>1. lines' \in Seq(Line)
      BY <1>1, <1>2 DEF StoreLine
    <2>2. line_number' \in 0 .. Len(input')
      BY <1>1, <1>2, <1>3 DEF StoreLine
    <2>3. /\ prev_num_fields' \in 0 .. MaxFields /\ max_num_fields' \in 0 .. MaxFields
          /\ status' \in {"reading", "ragged"}
      BY <1>1, <1>2 DEF StoreLine, ReadsIn
    <2> QED BY <2>1, <2>2, <2>3 DEF StoreLine, IInv, TypeOK, Ended, Refused
  <1>5. /\ job.mode = "transpose" /\ status = "reading" /\ Compares = job.strict
        /\ Compares' = Compares
    BY <1>2, <1>3 DEF StoreLine, ReadsIn, Compares, JobType
  <1>6. Accepted = line_number
    BY <1>5 DEF Accepted
  <1>9. /\ Len(Append(lines, Thisline)) = line_number + 1
        /\ \A j \in 1 .. line_number + 1 : Append(lines, Thisline)[j] = input[j]
    <2>1. /\ Len(lines) = line_number
          /\ \A j \in 1 .. line_number : lines[j] = input[j]
      BY <1>5 DEF IInv, Kept
    <2> QED BY <1>1, <1>2, <1>3, <2>1
  <1>7. CASE job.strict /\ Differs
    <2>1. /\ status' = "ragged" /\ line_number' = line_number + 1
          /\ prev_num_fields' = prev_num_fields /\ max_num_fields' = max_num_fields
          /\ lines' = Append(lines, Thisline) /\ out' = out
      BY <1>7 DEF StoreLine
    <2>2. Accepted' = line_number
      BY <1>2, <2>1 DEF Accepted
    <2>3. Sizes'
      BY <1>2, <1>3, <1>5, <1>6, <1>7, <2>1, <2>2 DEF IInv, Sizes, Differs
    <2>4. Finished' /\ Widest'
      BY <1>3, <1>5, <2>1 DEF Finished, Widest, AllRead
    <2>5. Kept'
      BY <1>2, <1>3, <1>9, <2>1 DEF Kept
    <2>6. Printed'
      BY <1>3, <1>5, <1>2, <2>1 DEF IInv, Printed, AllRead
    <2> QED BY <1>4, <2>3, <2>4, <2>5, <2>6 DEF IInv
  <1>8. CASE ~(job.strict /\ Differs)
    <2>1. /\ status' = "reading" /\ line_number' = line_number + 1
          /\ prev_num_fields' = Len(Thisline)
          /\ max_num_fields' = IF Len(Thisline) > max_num_fields
                               THEN Len(Thisline) ELSE max_num_fields
          /\ lines' = Append(lines, Thisline) /\ out' = out
      BY <1>5, <1>8 DEF StoreLine
    <2>2. Accepted' = line_number + 1
      BY <2>1 DEF Accepted
    <2>3. Sizes'
      <3>1. Compares => \A k \in 1 .. line_number : Len(input[k]) = Len(Thisline)
        BY <1>2, <1>5, <1>6, <1>8 DEF IInv, Sizes, Differs
      <3>2. Compares => \A k \in 1 .. line_number + 1 : Len(input[k]) = Len(Thisline)
        BY <1>2, <1>3, <3>1
      <3> QED BY <1>3, <1>5, <2>1, <2>2, <3>2 DEF Sizes
    <2>4. Finished'
      BY <1>3, <1>5, <2>1 DEF Finished, AllRead
    <2>5. Kept'
      BY <1>2, <1>3, <1>9, <2>1 DEF Kept
    <2>6. Widest'
      <3>1. \A j \in 1 .. line_number : Len(input[j]) <= max_num_fields
        BY <1>5 DEF IInv, Widest
      <3>2. \A j \in 1 .. line_number : Len(input[j]) \in Nat
        BY <1>1, <1>2, JobTypes DEF IInv
      <3>3. max_num_fields # 0 =>
              \E j \in 1 .. line_number : Len(input[j]) = max_num_fields
        BY <1>5 DEF IInv, Widest
      <3>4. \A j \in 1 .. line_number + 1 : Len(input[j]) <= max_num_fields'
        BY <1>1, <1>2, <1>3, <2>1, <3>1, <3>2
      <3>5. max_num_fields' # 0 =>
              \E j \in 1 .. line_number + 1 : Len(input[j]) = max_num_fields'
        BY <1>1, <1>2, <1>3, <2>1, <3>3
      <3> QED BY <1>3, <2>1, <3>4, <3>5 DEF Widest
    <2>7. Printed'
      <3>1. out = << >>
        BY <1>5 DEF IInv, Printed
      <3> QED BY <1>1, <1>2, <1>3, <1>5, <2>1, <3>1 DEF Printed, AllRead
    <2> QED BY <1>4, <2>3, <2>4, <2>5, <2>6, <2>7 DEF IInv
  <1> QED BY <1>7, <1>8

LEMMA StoreEndsIInv ==
  ASSUME IInv, StoreEnds
  PROVE  IInv'
PROOF
  <1>1. /\ job.mode = "transpose" /\ status = "reading" /\ status' = "printing"
        /\ lines' = Append(lines, << >>)
        /\ UNCHANGED <<job, input, broken, line_number, prev_num_fields,
                       max_num_fields, buffer, this, out, report>>
    BY DEF StoreEnds, ReadsIn
  <1>2. /\ lines \in Seq(Line) /\ line_number = Len(input) /\ line_number \in Nat
        /\ Len(lines) \in Nat
    BY JobTypes DEF IInv, StoreEnds, More
  <1>3. /\ Len(lines) = line_number
        /\ \A j \in 1 .. line_number : lines[j] = input[j]
    BY <1>1 DEF IInv, Kept
  <1>4. lines' \in Seq(Line) /\ Len(lines') = line_number + 1
    <2>1. << >> \in Line
      BY DEF Line
    <2> QED BY <1>1, <1>2, <1>3, <2>1
  <1>5. TypeOK'
    BY <1>1, <1>4 DEF IInv, TypeOK
  <1>6. Sizes'
    BY <1>1 DEF IInv, Sizes, Accepted, Compares
  <1>7. Finished'
    BY <1>1, <1>2 DEF Finished, AllRead
  <1>8. Kept'
    BY <1>1, <1>2, <1>3, <1>4 DEF Kept
  <1>9. Widest'
    BY <1>1 DEF IInv, Widest
  <1>10. Printed'
    <2>1. out = << >>
      BY <1>1 DEF IInv, Printed
    <2>2. Len(out) <= max_num_fields
      BY <1>1 DEF IInv, Printed
    <2> QED BY <1>1, <2>1, <2>2 DEF Printed, AllRead
  <1> QED BY <1>5, <1>6, <1>7, <1>8, <1>9, <1>10 DEF IInv

LEMMA PrintColumnIInv ==
  ASSUME IInv, PrintColumn
  PROVE  IInv'
PROOF
  <1> DEFINE r == Row("", Column(Len(out) + 1))
  <1>1. /\ status = "printing" /\ out' = Append(out, r)
        /\ Len(out) < max_num_fields
        /\ UNCHANGED <<job, input, broken, line_number, prev_num_fields,
                       max_num_fields, lines, buffer, this, report, status>>
    BY DEF PrintColumn
  <1>2. job.mode = "transpose"
    BY <1>1 DEF IInv, Printed
  <1>3. out \in Seq(Rows) /\ Len(out) \in Nat
    BY OutType DEF IInv
  <1>4. r \in Rows /\ r.cells = Column(Len(out) + 1)
    <2>1. line_number <= Len(lines)
      BY <1>2 DEF IInv, Kept
    <2>2. Len(out) + 1 \in Nat \ {0}
      BY <1>3
    <2>3. r \in Rows
      BY <2>1, <2>2, ColumnType DEF IInv
    <2> QED BY <2>3 DEF Row
  <1> HIDE DEF r
  <1>5. out' \in Seq(Rows) /\ Len(out') = Len(out) + 1
    BY <1>1, <1>3, <1>4
  <1>6. TypeOK'
    BY <1>1, <1>5 DEF IInv, TypeOK, Rows
  <1>7. Sizes' /\ Finished' /\ Kept' /\ Widest'
    BY <1>1 DEF IInv, Sizes, Finished, Kept, Widest, Accepted, Compares, AllRead
  <1>8. Printed'
    <2>1. \A i \in DOMAIN out : out[i].cells = Column(i)
      BY <1>2 DEF IInv, Printed
    <2>2. \A i \in DOMAIN out' : out'[i].cells = Column(i)
      BY <1>1, <1>3, <1>4, <1>5, <2>1
    <2>3. \A i : Column(i)' = Column(i)
      BY <1>1 DEF Column
    <2>4. Len(out') <= max_num_fields
      BY <1>1, <1>3, <1>5, JobTypes DEF IInv
    <2> QED BY <1>1, <1>2, <2>2, <2>3, <2>4 DEF Printed, AllRead
  <1> QED BY <1>6, <1>7, <1>8 DEF IInv

LEMMA PrintEndsIInv ==
  ASSUME IInv, PrintEnds
  PROVE  IInv'
PROOF
  <1>1. /\ status = "printing" /\ status' = "closing"
        /\ Len(out) = max_num_fields
        /\ UNCHANGED <<job, input, broken, line_number, prev_num_fields,
                       max_num_fields, lines, buffer, this, out, report>>
    BY DEF PrintEnds
  <1>2. job.mode = "transpose" /\ job.mode # "check"
    BY <1>1 DEF IInv, Printed
  <1>3. TypeOK'
    BY <1>1 DEF IInv, TypeOK
  <1>4. Sizes' /\ Finished' /\ Kept' /\ Widest'
    BY <1>1, <1>2 DEF IInv, Sizes, Finished, Kept, Widest, Accepted, Compares, AllRead
  <1>5. Printed'
    BY <1>1, <1>2 DEF IInv, Printed, Column
  <1> QED BY <1>3, <1>4, <1>5 DEF IInv

LEMMA ReverseLineIInv ==
  ASSUME IInv, ReverseLine
  PROVE  IInv'
PROOF
  <1>1. /\ Thisline \in Line /\ Len(Thisline) \in 0 .. MaxFields
        /\ line_number + 1 \in 1 .. Len(input)
        /\ Thisline = input[line_number + 1]
    BY ThislineType DEF IInv, ReverseLine
  <1>2. /\ job \in JobType /\ line_number \in Nat /\ Len(input) \in Nat
        /\ prev_num_fields \in 0 .. MaxFields /\ MaxFields \in Nat
    BY JobTypes DEF IInv
  <1>3. /\ job.mode = "reverse" /\ status = "reading"
        /\ line_number' = line_number + 1
        /\ UNCHANGED <<job, input, broken, max_num_fields, lines, buffer, this,
                       report>>
    BY DEF ReverseLine, ReadsIn
  <1>4. Compares = job.strict /\ Compares' = Compares /\ Accepted = line_number
    BY <1>2, <1>3 DEF Compares, JobType, Accepted
  <1>5. Kept' /\ Widest'
    BY <1>3 DEF Kept, Widest
  <1>6. CASE job.strict /\ Differs
    <2>1. /\ status' = "ragged" /\ prev_num_fields' = prev_num_fields /\ out' = out
      BY <1>6 DEF ReverseLine
    <2>2. TypeOK'
      <3>1. line_number' \in 0 .. Len(input)
        BY <1>1, <1>2, <1>3
      <3> QED BY <1>3, <2>1, <3>1 DEF IInv, TypeOK, Ended, Refused
    <2>3. Accepted' = line_number
      BY <1>2, <1>3, <2>1 DEF Accepted
    <2>4. Sizes'
      BY <1>1, <1>2, <1>3, <1>4, <1>6, <2>1, <2>3 DEF IInv, Sizes, Differs
    <2>5. Finished' /\ Printed'
      BY <1>3, <2>1 DEF Finished, Printed, AllRead
    <2> QED BY <1>5, <2>2, <2>4, <2>5 DEF IInv
  <1>7. CASE ~(job.strict /\ Differs)
    <2> DEFINE rows == IF line_number = 0 THEN FirstRows(Thisline)
                       ELSE <<Row("", Reverse(Thisline))>>
    <2>1. /\ status' = status /\ prev_num_fields' = Len(Thisline)
          /\ out' = out \o rows
      BY <1>7 DEF ReverseLine
    <2>2. rows \in Seq(Rows)
      <3>1. FirstRows(Thisline) \in Seq(Rows)
        BY <1>1, <1>2, FirstRowsType
      <3>2. Row("", Reverse(Thisline)) \in Rows
        BY <1>1, ReverseType
      <3>3. <<Row("", Reverse(Thisline))>> \in Seq(Rows)
        <4> DEFINE r == Row("", Reverse(Thisline))
        <4>1. r \in Rows
          BY <3>2
        <4> HIDE DEF r
        <4>2. <<r>> \in Seq(Rows)
          BY <4>1
        <4> QED BY <4>2 DEF r
      <3> QED BY <3>1, <3>3
    <2> HIDE DEF rows
    <2>3. out' \in Seq(Rows)
      <3>1. out \in Seq(Rows)
        BY OutType DEF IInv
      <3> QED BY <2>1, <2>2, <3>1
    <2>4. TypeOK'
      <3>1. line_number' \in 0 .. Len(input)
        BY <1>1, <1>2, <1>3
      <3> QED BY <1>1, <1>3, <2>1, <2>3, <3>1 DEF IInv, TypeOK, Rows
    <2>5. Accepted' = line_number + 1
      BY <1>3, <2>1 DEF Accepted
    <2>6. Sizes'
      <3>1. Compares => \A k \in 1 .. line_number : Len(input[k]) = Len(Thisline)
        <4> SUFFICES ASSUME Compares
                     PROVE  \A k \in 1 .. line_number : Len(input[k]) = Len(Thisline)
          OBVIOUS
        <4>1. ~Differs
          BY <1>3, <1>7 DEF Compares
        <4>2. \A k \in 1 .. line_number : Len(input[k]) = prev_num_fields
          BY <1>4 DEF IInv, Sizes
        <4> QED BY <1>2, <4>1, <4>2 DEF Differs
      <3>2. Compares => \A k \in 1 .. line_number + 1 : Len(input[k]) = Len(Thisline)
        BY <1>1, <1>2, <3>1
      <3>3. status' = "reading" /\ job'.mode = "reverse"
        BY <1>3, <2>1
      <3> QED BY <1>3, <1>4, <2>1, <2>5, <3>2, <3>3 DEF Sizes
    <2>7. Finished' /\ Printed'
      BY <1>3, <2>1 DEF Finished, Printed, AllRead
    <2> QED BY <1>5, <2>4, <2>6, <2>7 DEF IInv
  <1> QED BY <1>6, <1>7

LEMMA CopyLineIInv ==
  ASSUME IInv, CopyLine
  PROVE  IInv'
PROOF
  <1>1. /\ Thisline \in Line /\ line_number + 1 \in 1 .. Len(input)
    BY ThislineType DEF IInv, CopyLine
  <1>2. /\ job.mode = "noop" /\ status = "reading" /\ status' = status
        /\ line_number' = line_number + 1
        /\ out' \in {out, Append(out, Row("", Thisline))}
        /\ UNCHANGED <<job, input, broken, prev_num_fields, max_num_fields,
                       lines, buffer, this, report>>
    BY DEF CopyLine, ReadsIn
  <1>3. out' \in Seq(Rows)
    <2>1. out \in Seq(Rows)
      BY OutType DEF IInv
    <2>2. Row("", Thisline) \in Rows
      BY <1>1 DEF Row, Rows
    <2>3. Append(out, Row("", Thisline)) \in Seq(Rows)
      BY <2>1, <2>2, OneMore
    <2> QED BY <1>2, <2>1, <2>3
  <1>4. TypeOK'
    <2>1. line_number' \in 0 .. Len(input)
      <3>1. line_number \in Nat /\ Len(input) \in Nat
        BY JobTypes DEF IInv
      <3>2. line_number' = line_number + 1
        BY <1>2
      <3>3. line_number + 1 \in 1 .. Len(input)
        BY <1>1
      <3> QED BY <3>1, <3>2, <3>3
    <2> QED BY <1>2, <1>3, <2>1 DEF IInv, TypeOK, Rows
  <1>5. Sizes' /\ Finished' /\ Kept' /\ Widest' /\ Printed'
    BY <1>2 DEF Sizes, Finished, Kept, Widest, Printed, Compares, AllRead
  <1> QED BY <1>4, <1>5 DEF IInv

LEMMA LoopEndsIInv ==
  ASSUME IInv, LoopEnds
  PROVE  IInv'
PROOF
  <1>1. /\ job.mode \in {"reverse", "noop"} /\ status = "reading"
        /\ status' = "closing" /\ ~More
        /\ UNCHANGED <<job, input, broken, line_number, prev_num_fields,
                       max_num_fields, lines, buffer, this, out, report>>
    BY DEF LoopEnds, ReadsIn
  <1>2. line_number = Len(input)
    BY <1>1, JobTypes DEF IInv, More
  <1>3. TypeOK'
    BY <1>1 DEF IInv, TypeOK
  <1>4. Sizes'
    BY <1>1 DEF IInv, Sizes, Accepted, Compares
  <1>5. Finished' /\ Kept' /\ Widest' /\ Printed'
    BY <1>1, <1>2 DEF Finished, Kept, Widest, Printed, AllRead
  <1> QED BY <1>3, <1>4, <1>5 DEF IInv

LEMMA CheckLineIInv ==
  ASSUME IInv, CheckLine
  PROVE  IInv'
PROOF
  <1>1. /\ Thisline \in Line /\ Len(Thisline) \in 0 .. MaxFields
        /\ line_number + 1 \in 1 .. Len(input)
        /\ Thisline = input[line_number + 1]
    BY ThislineType DEF IInv, CheckLine
  <1>2. /\ job \in JobType /\ line_number \in Nat /\ Len(input) \in Nat
        /\ prev_num_fields \in 0 .. MaxFields /\ MaxFields \in Nat
    BY JobTypes DEF IInv
  <1>3. /\ job.mode = "check" /\ status = "reading"
        /\ line_number' = line_number + 1
        /\ buffer' = [buffer EXCEPT ![this] = Thisline]
        /\ UNCHANGED <<job, input, broken, max_num_fields, lines, out>>
    BY DEF CheckLine, ReadsIn
  <1>4. Compares /\ Compares' /\ Accepted = line_number
    BY <1>3 DEF Compares, Accepted
  <1>5. buffer' \in Seq(Line) /\ Len(buffer') = 2 /\ this \in {1, 2} /\ 3 - this \in {1, 2}
    <2>1. buffer \in Seq(Line) /\ Len(buffer) = 2 /\ this \in {1, 2}
      BY DEF IInv, TypeOK
    <2>2. this \in 1 .. Len(buffer) /\ 3 - this \in {1, 2}
      BY <2>1
    <2> DEFINE b == [buffer EXCEPT ![this] = Thisline]
    <2>3. b \in Seq(Line) /\ Len(b) = Len(buffer)
      <3>1. \A i \in 1 .. Len(buffer), e \in Line :
              /\ [buffer EXCEPT ![i] = e] \in Seq(Line)
              /\ Len([buffer EXCEPT ![i] = e]) = Len(buffer)
        BY <2>1, ExceptSeq
      <3>2. Thisline \in Line
        BY <1>1
      <3> HIDE DEF Thisline
      <3> QED BY <2>2, <3>1, <3>2
    <2>4. buffer' = b
      BY <1>3
    <2> HIDE DEF b
    <2> QED BY <2>1, <2>2, <2>3, <2>4
  <1>6. line_number' \in 0 .. Len(input)
    <2>1. line_number + 1 \in 1 .. Len(input)
      BY <1>1
    <2>2. line_number' = line_number + 1
      BY <1>3
    <2> QED BY <1>2, <2>1, <2>2
  <1>7. Kept' /\ Widest' /\ (status' # "printing" => Printed')
    BY <1>3 DEF Kept, Widest, Printed
  <1> DEFINE bad == Entry(line_number + 1, Thisline)
             prev == [line |-> line_number, num_fields |-> prev_num_fields,
                      text |-> buffer[3 - this]]
  <1>8. bad \in Entries /\ prev \in Entries
    <2>1. buffer[3 - this] \in Line
      <3>1. buffer \in Seq(Line) /\ Len(buffer) = 2
        BY DEF IInv, TypeOK
      <3>2. buffer[1] \in Line /\ buffer[2] \in Line
        BY <3>1
      <3>3. 3 - this = 1 \/ 3 - this = 2
        BY <1>5
      <3> QED BY <3>2, <3>3
    <2>2. bad \in Entries
      BY <1>1, <1>2 DEF Entry, Entries
    <2>3. prev \in Entries
      BY <1>2, <2>1 DEF Entries
    <2> QED BY <2>2, <2>3
  <1>9. \A k \in 1 .. line_number : Len(input[k]) = prev_num_fields
    BY <1>4 DEF IInv, Sizes
  <1>10. job.n_fields # 0 => \A k \in 1 .. line_number : Len(input[k]) = job.n_fields
    BY <1>3, <1>4 DEF IInv, Sizes
  <1>11. CASE /\ status' = "wrong size" /\ report' = <<bad>>
              /\ UNCHANGED <<prev_num_fields, this>>
    <2> HIDE DEF bad, prev
    <2>0. /\ report' = <<bad>> /\ status' = "wrong size"
          /\ prev_num_fields' = prev_num_fields /\ this' = this
      BY <1>11
    <2>1. report' \in Seq(Entries)
      <3>1. <<bad>> \in Seq(Entries) /\ <<prev, bad>> \in Seq(Entries)
        BY <1>8
      <3> QED BY <2>0, <3>1
    <2>2. TypeOK'
      BY <1>3, <1>5, <1>6, <1>11, <2>1 DEF IInv, TypeOK, Ended, Refused, Entries
    <2>3. Accepted' = line_number
      <3>1. line_number' - 1 = line_number
        BY <1>2, <1>3
      <3> QED BY <2>0, <3>1 DEF Accepted
    <2>4. Sizes'
      <3>1. job' = job /\ input' = input /\ line_number' > 0
        BY <1>2, <1>3
      <3> QED BY <1>9, <1>10, <2>0, <2>3, <3>1 DEF Sizes
    <2>5. Finished'
      BY <1>11 DEF Finished, AllRead
    <2> QED BY <1>7, <1>11, <2>2, <2>4, <2>5 DEF IInv
  <1>12. CASE /\ Differs /\ status' = "ragged" /\ report' = <<prev, bad>>
              /\ UNCHANGED <<prev_num_fields, this>>
    <2> HIDE DEF bad, prev
    <2>0. /\ report' = <<prev, bad>> /\ status' = "ragged"
          /\ prev_num_fields' = prev_num_fields /\ this' = this
      BY <1>12
    <2>1. report' \in Seq(Entries)
      <3>1. <<bad>> \in Seq(Entries) /\ <<prev, bad>> \in Seq(Entries)
        BY <1>8
      <3> QED BY <2>0, <3>1
    <2>2. TypeOK'
      BY <1>3, <1>5, <1>6, <1>12, <2>1 DEF IInv, TypeOK, Ended, Refused, Entries
    <2>3. Accepted' = line_number
      <3>1. line_number' - 1 = line_number
        BY <1>2, <1>3
      <3> QED BY <2>0, <3>1 DEF Accepted
    <2>4. Sizes'
      BY <1>1, <1>2, <1>3, <1>4, <1>9, <1>10, <1>12, <2>3 DEF Sizes, Differs
    <2>5. Finished'
      BY <1>12 DEF Finished, AllRead
    <2> QED BY <1>7, <1>12, <2>2, <2>4, <2>5 DEF IInv
  <1>13. CASE /\ job.n_fields = 0 \/ job.n_fields = Len(Thisline)
              /\ ~Differs
              /\ prev_num_fields' = Len(Thisline)
              /\ this' = Swapped(this)
              /\ status' = status /\ report' = report
    <2>1. this' \in {1, 2}
      BY <1>5, <1>13 DEF Swapped
    <2>2. TypeOK'
      BY <1>1, <1>3, <1>5, <1>6, <1>13, <2>1 DEF IInv, TypeOK
    <2>3. Accepted' = line_number + 1
      BY <1>3, <1>13 DEF Accepted
    <2>4. \A k \in 1 .. line_number + 1 : Len(input[k]) = Len(Thisline)
      BY <1>1, <1>2, <1>9, <1>13 DEF Differs
    <2>5. Sizes'
      <3>1. status' = "reading" /\ job' = job /\ input' = input
        BY <1>3, <1>13
      <3>2. job.n_fields # 0 =>
              \A k \in 1 .. line_number + 1 : Len(input[k]) = job.n_fields
        BY <1>13, <2>4
      <3> QED BY <1>13, <2>3, <2>4, <3>1, <3>2 DEF Sizes
    <2>6. Finished'
      BY <1>3, <1>13 DEF Finished, AllRead
    <2>7. status' # "printing"
      BY <1>3, <1>13
    <2> QED BY <1>7, <2>2, <2>5, <2>6, <2>7 DEF IInv
  <1> HIDE DEF bad, prev
  <1>14. \/ /\ status' = "wrong size" /\ report' = <<bad>>
            /\ UNCHANGED <<prev_num_fields, this>>
         \/ /\ Differs /\ status' = "ragged" /\ report' = <<prev, bad>>
            /\ UNCHANGED <<prev_num_fields, this>>
         \/ /\ job.n_fields = 0 \/ job.n_fields = Len(Thisline)
            /\ ~Differs
            /\ prev_num_fields' = Len(Thisline)
            /\ this' = Swapped(this)
            /\ status' = status /\ report' = report
    BY Zenon DEF CheckLine, bad, prev
  <1> QED BY <1>11, <1>12, <1>13, <1>14

LEMMA CheckEndsIInv ==
  ASSUME IInv, CheckEnds
  PROVE  IInv'
PROOF
  <1>1. /\ job.mode = "check" /\ status = "reading" /\ ~More
        /\ UNCHANGED <<job, input, broken, line_number, prev_num_fields,
                       max_num_fields, lines, buffer, this, out>>
    BY DEF CheckEnds, ReadsIn
  <1>2. line_number = Len(input) /\ line_number \in Nat /\ prev_num_fields \in Nat
    BY <1>1, JobTypes DEF IInv, More
  <1>3. \/ /\ LengthWanted /\ status' = "closing"
           /\ report' = <<[line |-> line_number, num_fields |-> prev_num_fields,
                           text |-> << >>]>>
        \/ status' = "wrong length" /\ report' = report
    BY DEF CheckEnds
  <1>4. TypeOK'
    <2> DEFINE e == [line |-> line_number, num_fields |-> prev_num_fields,
                     text |-> << >>]
    <2>1. e \in Entries
      <3>1. << >> \in Line
        BY DEF Line
      <3> QED BY <1>2, <3>1 DEF Entries
    <2>2. report \in Seq(Entries)
      BY DEF IInv, TypeOK, Entries
    <2>3. report' = <<e>> \/ report' = report
      BY <1>3
    <2> HIDE DEF e
    <2>4. <<e>> \in Seq(Entries)
      BY <2>1
    <2>5. report' \in Seq(Entries)
      BY <2>2, <2>3, <2>4
    <2> QED BY <1>1, <1>3, <2>5 DEF IInv, TypeOK, Ended, Refused, Entries
  <1>5. Sizes'
    BY <1>1, <1>3 DEF IInv, Sizes, Accepted, Compares
  <1>6. Finished'
    BY <1>1, <1>2, <1>3 DEF Finished, AllRead, LengthWanted
  <1>7. Kept' /\ Widest' /\ Printed'
    BY <1>1, <1>3 DEF Kept, Widest, Printed, AllRead
  <1> QED BY <1>4, <1>5, <1>6, <1>7 DEF IInv

LEMMA CloseInputIInv ==
  ASSUME IInv, CloseInput
  PROVE  IInv'
PROOF
  <1>1. /\ status = "closing" /\ status' \in {"read error", "done"}
        /\ UNCHANGED <<job, input, broken, line_number, prev_num_fields,
                       max_num_fields, lines, buffer, this, out, report>>
    BY DEF CloseInput
  <1>2. TypeOK'
    BY <1>1 DEF IInv, TypeOK, Ended
  <1>3. Sizes' /\ Finished' /\ Kept' /\ Widest'
    BY <1>1 DEF IInv, Sizes, Finished, Kept, Widest, Accepted, Compares, AllRead
  <1>4. Printed'
    BY <1>1 DEF IInv, Printed, AllRead, Column
  <1> QED BY <1>2, <1>3, <1>4 DEF IInv

LEMMA NextIInv == IInv /\ [Next]_vars => IInv'
PROOF
  <1> SUFFICES ASSUME IInv, [Next]_vars PROVE IInv'
    OBVIOUS
  <1>1. CASE UNCHANGED vars
    <2>1. TypeOK' /\ Sizes' /\ Finished'
      BY <1>1 DEF vars, IInv, TypeOK, Sizes, Finished, Accepted, Compares, AllRead
    <2>2. Kept' /\ Widest' /\ Printed'
      BY <1>1 DEF vars, IInv, Kept, Widest, Printed, AllRead, Column
    <2> QED BY <2>1, <2>2 DEF IInv
  <1>2. CASE Next
    BY <1>1, <1>2, StoreLineIInv, StoreEndsIInv, PrintColumnIInv, PrintEndsIInv,
       ReverseLineIInv, CopyLineIInv, LoopEndsIInv, CheckLineIInv,
       CheckEndsIInv, CloseInputIInv DEF Next, Exited
  <1> QED BY <1>1, <1>2

LEMMA Invariance == Spec => []IInv
BY InitIInv, NextIInv, PTL DEF Spec

-----------------------------------------------------------------------------
(* The type invariant, for every set of command lines and inputs.          *)
THEOREM TypeCorrect == Spec => []TypeOK
PROOF
  <1>1. IInv => TypeOK
    BY DEF IInv
  <1> QED BY <1>1, Invariance, PTL

(* A line is refused only as the first whose size differs from that of the *)
(* first line, whatever lines came between them.                           *)
LEMMA RefusesFirstRagged == Spec => []RefusedIsFirstRagged
PROOF
  <1>1. IInv => RefusedIsFirstRagged
    <2> SUFFICES ASSUME IInv, status = "ragged"
                 PROVE  /\ line_number > 1
                        /\ \A k \in 1 .. line_number - 1 : Len(input[k]) = Len(input[1])
                        /\ Len(input[line_number]) # Len(input[1])
      BY DEF RefusedIsFirstRagged
    <2>1. Accepted = line_number - 1 /\ line_number \in Nat
      BY JobTypes DEF IInv, Accepted
    <2>2. /\ \A k \in 1 .. line_number - 1 : Len(input[k]) = prev_num_fields
          /\ line_number > 1 /\ Len(input[line_number]) # prev_num_fields
      BY <2>1 DEF IInv, Sizes
    <2>3. Len(input[1]) = prev_num_fields
      BY <2>1, <2>2
    <2> QED BY <2>2, <2>3
  <1> QED BY <1>1, Invariance, PTL

(* Comparing neighbours is enough: input that strict transpose, strict     *)
(* reverse or check accepts has lines of one size.                         *)
LEMMA AcceptsRectangular == Spec => []AcceptedIsRectangular
PROOF
  <1>1. IInv => AcceptedIsRectangular
    <2> SUFFICES ASSUME IInv, AllRead, Compares
                 PROVE  /\ \A k \in DOMAIN input : Len(input[k]) = Len(input[1])
                        /\ job.mode = "check" =>
                             /\ job.n_fields # 0 =>
                                  \A k \in DOMAIN input : Len(input[k]) = job.n_fields
                             /\ job.n_lines \in {0, Len(input)}
      BY DEF AcceptedIsRectangular
    <2>1. /\ Accepted = Len(input) /\ DOMAIN input = 1 .. Len(input)
          /\ Len(input) \in Nat
      BY JobTypes DEF IInv, Accepted, Finished, AllRead
    <2>2. \A k \in 1 .. Len(input) : Len(input[k]) = prev_num_fields
      BY <2>1 DEF IInv, Sizes
    <2>3. \A k \in 1 .. Len(input) : Len(input[k]) = Len(input[1])
      BY <2>1, <2>2
    <2>4. job.mode = "check" =>
            /\ job.n_fields # 0 => \A k \in 1 .. Len(input) : Len(input[k]) = job.n_fields
            /\ job.n_lines \in {0, Len(input)}
      BY <2>1 DEF IInv, Sizes, Finished
    <2> QED BY <2>1, <2>3, <2>4
  <1> QED BY <1>1, Invariance, PTL

(* Strict modes and check refuse exactly the ragged inputs.                *)
THEOREM RefusesRagged == Spec => []RaggedIsRefused
  <1>1. RefusedIsFirstRagged /\ AcceptedIsRectangular => RaggedIsRefused
    BY DEF RaggedIsRefused
  <1> QED BY <1>1, RefusesFirstRagged, AcceptsRectangular, PTL

(* transpose prints the whole matrix, and nothing else, for every input.   *)
THEOREM TransposesBack == Spec => []TransposedBack
PROOF
  <1>1. IInv => TransposedBack
    <2> SUFFICES ASSUME IInv, job.mode = "transpose", AllRead
                 PROVE  /\ \A i \in DOMAIN out : Len(out[i].cells) = Len(input)
                        /\ \A j \in DOMAIN input :
                             /\ Len(input[j]) <= Len(out)
                             /\ \A i \in DOMAIN out :
                                  out[i].cells[j] =
                                    IF i <= Len(input[j]) THEN input[j][i] ELSE Filler
                        /\ out # << >> => \E j \in DOMAIN input : Len(input[j]) = Len(out)
      BY DEF TransposedBack
    <2>1. /\ line_number = Len(input) /\ DOMAIN input = 1 .. Len(input)
          /\ Len(input) \in Nat
          /\ \A j \in 1 .. Len(input) : input[j] \in Line /\ Len(input[j]) \in Nat
      BY JobTypes DEF IInv, Finished
    <2>2. out \in Seq(Rows) /\ Len(out) \in Nat /\ Len(out) = max_num_fields
      BY OutType DEF IInv, Printed
    <2>3. \A i \in DOMAIN out : out[i].cells = Column(i)
      BY DEF IInv, Printed
    <2>4. \A j \in 1 .. Len(input) : lines[j] = input[j]
      BY <2>1 DEF IInv, Kept
    <2>5. \A i \in DOMAIN out : Len(out[i].cells) = Len(input)
      <3> SUFFICES ASSUME NEW i \in DOMAIN out
                   PROVE  Len(out[i].cells) = Len(input)
        OBVIOUS
      <3>1. out[i].cells = [j \in 1 .. Len(input) |-> FieldOrFiller(lines[j], i)]
        BY <2>1, <2>3 DEF Column
      <3> QED BY <2>1, <3>1
    <2>6. ASSUME NEW j \in 1 .. Len(input), NEW i \in DOMAIN out
          PROVE  out[i].cells[j] = IF i <= Len(input[j]) THEN input[j][i] ELSE Filler
      <3>1. i \in Nat \ {0}
        BY <2>2
      <3>2. DOMAIN input[j] = 1 .. Len(input[j])
        BY <2>1 DEF Line
      <3>3. out[i].cells[j] = FieldOrFiller(input[j], i)
        <4>1. out[i].cells = [k \in 1 .. Len(input) |-> FieldOrFiller(lines[k], i)]
          BY <2>1, <2>3 DEF Column
        <4>2. out[i].cells[j] = FieldOrFiller(lines[j], i)
          BY <4>1
        <4> QED BY <2>4, <4>2
      <3> QED BY <2>1, <3>1, <3>2, <3>3 DEF FieldOrFiller
    <2>7. status # "ragged"
      BY DEF AllRead
    <2>8. /\ \A j \in 1 .. Len(input) : Len(input[j]) <= Len(out)
          /\ Len(out) # 0 => \E j \in 1 .. Len(input) : Len(input[j]) = Len(out)
      BY <2>1, <2>2, <2>7 DEF IInv, Widest
    <2>9. out # << >> => Len(out) # 0
      BY <2>2
    <2> QED BY <2>1, <2>5, <2>6, <2>8, <2>9
  <1> QED BY <1>1, Invariance, PTL

-----------------------------------------------------------------------------
(* reverse: what is printed of so many lines.                              *)

Mark(j, i) == IF j.vnlog /\ i = 1 THEN "#" ELSE ""

LineRow(j, inp, i) == Row(Mark(j, i), Reverse(inp[i]))

NameRow(inp) == Row("", Reverse(SubSeq(FieldName, 1, Len(inp[1]))))

(* The k-th row that is printed for the input inp.                         *)
RowNo(j, inp, k) ==
  IF j.header_in = j.header_out THEN LineRow(j, inp, k)
  ELSE IF j.header_in THEN LineRow(j, inp, k + 1)
       ELSE IF k = 1 THEN NameRow(inp) ELSE LineRow(j, inp, k - 1)

(* How many rows are printed for n lines.                                  *)
RowCount(j, n) ==
  IF n = 0 \/ j.header_in = j.header_out THEN n
  ELSE IF j.header_in THEN n - 1 ELSE n + 1

Backward ==
  job.mode = "reverse" =>
    /\ Len(out) = RowCount(job, Accepted)
    /\ \A k \in 1 .. Len(out) : out[k] = RowNo(job, input, k)

-----------------------------------------------------------------------------
(* check: the line before is in the buffer that is not read into.          *)

Reported ==
  /\ status = "wrong size" => report = <<Entry(line_number, input[line_number])>>
  /\ job.mode = "check" =>
       /\ status = "reading" /\ line_number > 0 => buffer[3 - this] = input[line_number]
       /\ status = "ragged" =>
            report = <<Entry(line_number - 1, input[line_number - 1]),
                       Entry(line_number, input[line_number])>>
       /\ AllRead => report[1].line = line_number /\ report[1].num_fields = prev_num_fields

-----------------------------------------------------------------------------
(* Both parts are inductive on top of IInv.                                *)

(* The first line gives as many rows as it should, and the right ones.     *)
LEMMA FirstRowsAre ==
  ASSUME job \in JobType, ValidJob(job), NEW inp, inp[1] \in Line,
         Len(inp[1]) <= MaxFields
  PROVE  /\ FirstRows(inp[1]) \in Seq(Rows)
         /\ Len(FirstRows(inp[1])) = RowCount(job, 1)
         /\ \A k \in 1 .. RowCount(job, 1) : FirstRows(inp[1])[k] = RowNo(job, inp, k)
PROOF
  <1> DEFINE l == inp[1]
             names == [i \in DOMAIN l |-> FieldName[i]]
             r == Row("", Reverse(l))
             h == Row("#", Reverse(l))
             d == Row("", Reverse(names))
  <1>1. FirstRows(l) \in Seq(Rows)
    BY FirstRowsType
  <1>2. names = SubSeq(FieldName, 1, Len(l))
    <2>1. DOMAIN l = 1 .. Len(l) /\ Len(l) \in Nat
      BY DEF Line
    <2>2. \A i \in 1 .. Len(l) : FieldName[i] \in Cell
      BY <2>1, FileModesAssumption
    <2>3. /\ SubSeq(FieldName, 1, Len(l)) \in Seq(Cell)
          /\ Len(SubSeq(FieldName, 1, Len(l))) = IF 1 <= Len(l) THEN Len(l) - 1 + 1 ELSE 0
          /\ \A i \in 1 .. Len(l) - 1 + 1 : SubSeq(FieldName, 1, Len(l))[i] = FieldName[1 + i - 1]
      BY <2>1, <2>2, SubSeqProperties
    <2> DEFINE s == SubSeq(FieldName, 1, Len(l))
    <2>4. Len(s) = Len(l) /\ \A i \in 1 .. Len(l) : s[i] = FieldName[i]
      BY <2>1, <2>3
    <2>5. names \in Seq(Cell) /\ Len(names) = Len(l)
      BY <2>1, <2>2
    <2>6. \A i \in 1 .. Len(l) : names[i] = FieldName[i]
      BY <2>1
    <2> HIDE DEF s, names
    <2>7. s \in Seq(Cell)
      BY <2>3 DEF s
    <2>8. Len(names) = Len(s) /\ \A i \in 1 .. Len(names) : names[i] = s[i]
      BY <2>4, <2>5, <2>6
    <2>9. names = s
      BY <2>5, <2>7, <2>8, SeqEqual
    <2> QED BY <2>9 DEF s
  <1>3. d = NameRow(inp)
    BY <1>2 DEF NameRow
  <1>4. LineRow(job, inp, 1) = IF job.vnlog THEN h ELSE r
    BY DEF LineRow, Mark
  <1>5. FirstRows(l) = CASE job.vnlog -> <<h>>
                         [] ~job.vnlog /\ job.header_in /\ ~job.header_out -> << >>
                         [] ~job.header_in /\ job.header_out -> <<d, r>>
                         [] OTHER -> <<r>>
    BY DEF FirstRows, names
  <1>6. /\ job.vnlog \in BOOLEAN /\ job.header_in \in BOOLEAN
        /\ job.header_out \in BOOLEAN
        /\ job.vnlog => job.header_in /\ job.header_out
    BY DEF JobType, ValidJob
  <1> HIDE DEF r, h, d, names
  <1>7. CASE job.header_in = job.header_out
    <2>1. FirstRows(l) = <<LineRow(job, inp, 1)>>
      BY <1>4, <1>5, <1>6, <1>7
    <2>2. RowCount(job, 1) = 1 /\ RowNo(job, inp, 1) = LineRow(job, inp, 1)
      BY <1>7 DEF RowCount, RowNo
    <2> QED BY <1>1, <2>1, <2>2
  <1>8. CASE job.header_in /\ ~job.header_out
    <2>0. ~(job.header_in = job.header_out)
      BY <1>8, Zenon
    <2>2. RowCount(job, 1) = 0
      BY <1>8, <2>0 DEF RowCount
    <2>1. FirstRows(l) = << >> /\ RowCount(job, 1) = 0
      BY <1>5, <1>6, <1>8, <2>2
    <2> QED BY <1>1, <2>1
  <1>9. CASE ~job.header_in /\ job.header_out
    <2>1. FirstRows(l) = <<NameRow(inp), LineRow(job, inp, 1)>>
      BY <1>3, <1>4, <1>5, <1>6, <1>9
    <2>0. ~(job.header_in = job.header_out)
      BY <1>9, Zenon
    <2>2. /\ RowCount(job, 1) = 2 /\ RowNo(job, inp, 1) = NameRow(inp)
          /\ RowNo(job, inp, 2) = LineRow(job, inp, 1)
      BY <1>9, <2>0 DEF RowCount, RowNo
    <2> QED BY <1>1, <2>1, <2>2
  <1> QED BY <1>6, <1>7, <1>8, <1>9

LEMMA ReverseLineBackward ==
  ASSUME IInv, Backward, ReverseLine
  PROVE  Backward'
PROOF
  <1>1. /\ job.mode = "reverse" /\ status = "reading" /\ More
        /\ line_number' = line_number + 1
        /\ UNCHANGED <<job, input>>
    BY DEF ReverseLine, ReadsIn
  <1>2. /\ Thisline = input[line_number + 1] /\ Thisline \in Line
        /\ Len(Thisline) \in 0 .. MaxFields
    BY <1>1, ThislineType DEF IInv
  <1>3. job \in JobType /\ ValidJob(job) /\ line_number \in Nat /\ MaxFields \in Nat
    BY JobTypes, FileModesAssumption DEF IInv, TypeOK
  <1>4. Accepted = line_number
    BY <1>1 DEF Accepted
  <1>5. /\ Len(out) = RowCount(job, line_number)
        /\ \A k \in 1 .. Len(out) : out[k] = RowNo(job, input, k)
    BY <1>1, <1>4 DEF Backward
  <1>6. out \in Seq(Rows) /\ Len(out) \in Nat
    BY OutType DEF IInv
  <1>7. CASE job.strict /\ Differs
    <2>1. status' = "ragged" /\ out' = out
      BY <1>7 DEF ReverseLine
    <2>2. Accepted' = line_number
      BY <1>1, <1>3, <2>1 DEF Accepted
    <2> QED BY <1>1, <1>5, <2>1, <2>2 DEF Backward
  <1>8. CASE ~(job.strict /\ Differs)
    <2> DEFINE new == IF line_number = 0 THEN FirstRows(Thisline)
                      ELSE <<Row("", Reverse(Thisline))>>
    <2>1. status' = "reading" /\ out' = out \o new
      BY <1>1, <1>8 DEF ReverseLine
    <2>2. Accepted' = line_number + 1
      BY <1>1, <2>1 DEF Accepted
    <2> HIDE DEF new
    <2>3. CASE line_number = 0
      <3>1. new = FirstRows(input[1]) /\ input[1] = Thisline
        BY <1>2, <2>3 DEF new
      <3>2. /\ new \in Seq(Rows) /\ Len(new) = RowCount(job, 1)
            /\ \A k \in 1 .. RowCount(job, 1) : new[k] = RowNo(job, input, k)
        <4>1. input[1] \in Line /\ Len(input[1]) <= MaxFields
          BY <1>2, <1>3, <3>1
        <4> QED BY <1>3, <3>1, <4>1, FirstRowsAre
      <3>3. out = << >>
        <4>1. Len(out) = 0
          BY <1>5, <2>3 DEF RowCount
        <4> QED BY <1>6, <4>1
      <3>4. out' = new
        BY <2>1, <3>2, <3>3, ConcatEmptySeq
      <3> QED BY <1>1, <2>2, <2>3, <3>2, <3>4 DEF Backward
    <2>4. CASE line_number # 0
      <3> DEFINE r == Row("", Reverse(Thisline))
      <3>1. r \in Rows /\ r = LineRow(job, input, line_number + 1)
        <4>1. r \in Rows
          BY <1>2, ReverseType
        <4>2. Mark(job, line_number + 1) = ""
          BY <1>3, <2>4 DEF Mark
        <4> QED BY <1>2, <4>1, <4>2 DEF LineRow
      <3>2. out' = out \o <<r>>
        BY <2>1, <2>4 DEF new
      <3> HIDE DEF r
      <3>3. /\ Len(out') = Len(out) + 1 /\ out'[Len(out) + 1] = r
            /\ \A k \in 1 .. Len(out) : out'[k] = out[k]
        BY <1>6, <3>1, <3>2
      <3>4. /\ RowCount(job, line_number + 1) = RowCount(job, line_number) + 1
            /\ RowNo(job, input, RowCount(job, line_number) + 1)
                 = LineRow(job, input, line_number + 1)
        BY <1>3, <2>4 DEF RowCount, RowNo
      <3>5. \A k \in 1 .. Len(out') : out'[k] = RowNo(job, input, k)
        BY <1>5, <1>6, <3>1, <3>3, <3>4
      <3> QED BY <1>1, <1>5, <2>2, <3>3, <3>4, <3>5 DEF Backward
    <2> QED BY <2>3, <2>4
  <1> QED BY <1>7, <1>8

LEMMA NextBackward == IInv /\ Backward /\ [Next]_vars => Backward'
PROOF
  <1> SUFFICES ASSUME IInv, Backward, [Next]_vars PROVE Backward'
    OBVIOUS
  <1>1. CASE ReverseLine
    BY <1>1, ReverseLineBackward
  <1>2. CASE StoreLine \/ StoreEnds \/ CopyLine \/ CheckLine \/ CheckEnds
    <2>1. job.mode # "reverse" /\ job' = job
      BY <1>2 DEF StoreLine, StoreEnds, CopyLine, CheckLine, CheckEnds, ReadsIn
    <2> QED BY <2>1 DEF Backward
  <1>3. CASE PrintColumn \/ PrintEnds
    <2>1. job.mode # "reverse" /\ job' = job
      BY <1>3 DEF PrintColumn, PrintEnds, IInv, Printed
    <2> QED BY <2>1 DEF Backward
  <1>4. CASE LoopEnds \/ CloseInput \/ UNCHANGED vars
    <2>1. /\ UNCHANGED <<job, input, line_number, out>>
          /\ status' \notin {"ragged", "wrong size"} /\ status \notin {"ragged", "wrong size"}
          \/ status' = status
      BY <1>4 DEF LoopEnds, CloseInput, ReadsIn, vars
    <2>2. UNCHANGED <<job, input, line_number, out>>
      BY <1>4 DEF LoopEnds, CloseInput, vars
    <2>3. Accepted' = Accepted
      BY <2>1, <2>2 DEF Accepted
    <2> QED BY <2>2, <2>3 DEF Backward
  <1> QED BY <1>1, <1>2, <1>3, <1>4 DEF Next, Exited

LEMMA CheckLineReported ==
  ASSUME IInv, Reported, CheckLine
  PROVE  Reported'
PROOF
  <1> DEFINE prev == [line |-> line_number, num_fields |-> prev_num_fields,
                      text |-> buffer[3 - this]]
             bad == Entry(line_number + 1, Thisline)
  <1>1. /\ job.mode = "check" /\ status = "reading" /\ More
        /\ line_number' = line_number + 1
        /\ buffer' = [buffer EXCEPT ![this] = Thisline]
        /\ UNCHANGED <<job, input>>
    BY DEF CheckLine, ReadsIn
  <1>2. /\ Thisline = input[line_number + 1] /\ line_number \in Nat
        /\ this \in {1, 2} /\ buffer \in Seq(Line) /\ Len(buffer) = 2
    BY <1>1, ThislineType, JobTypes DEF IInv, TypeOK
  <1>3. bad = Entry(line_number', input'[line_number'])
    BY <1>1, <1>2
  <1>4. line_number > 0 => prev = Entry(line_number, input[line_number])
    <2> SUFFICES ASSUME line_number > 0
                 PROVE  prev = Entry(line_number, input[line_number])
      OBVIOUS
    <2>1. buffer[3 - this] = input[line_number]
      BY <1>1 DEF Reported
    <2>2. Accepted = line_number /\ Compares
      BY <1>1 DEF Accepted, Compares
    <2>3. Len(input[line_number]) = prev_num_fields
      <3>1. \A k \in 1 .. line_number : Len(input[k]) = prev_num_fields
        BY <2>2 DEF IInv, Sizes
      <3> QED BY <1>2, <3>1
    <2> QED BY <2>1, <2>3 DEF Entry
  <1>5. \/ status' = "wrong size" /\ report' = <<bad>>
        \/ Differs /\ status' = "ragged" /\ report' = <<prev, bad>>
        \/ this' = Swapped(this) /\ status' = "reading"
    BY <1>1, Zenon DEF CheckLine, prev, bad
  <1> HIDE DEF prev, bad
  <1>6. CASE status' = "wrong size" /\ report' = <<bad>>
    BY <1>3, <1>6 DEF Reported, AllRead
  <1>7. CASE Differs /\ status' = "ragged" /\ report' = <<prev, bad>>
    <2>1. line_number > 0 /\ line_number' - 1 = line_number /\ input' = input
      BY <1>1, <1>2, <1>7 DEF Differs
    <2> QED BY <1>3, <1>4, <1>7, <2>1 DEF Reported, AllRead
  <1>8. CASE this' = Swapped(this) /\ status' = "reading"
    <2>1. 3 - this' = this
      BY <1>2, <1>8 DEF Swapped
    <2>2. buffer'[this] = Thisline
      <3>1. DOMAIN buffer = 1 .. 2
        BY <1>2
      <3> QED BY <1>1, <1>2, <3>1
    <2>3. buffer'[3 - this'] = input'[line_number']
      BY <1>1, <1>2, <2>1, <2>2
    <2> QED BY <1>8, <2>3 DEF Reported, AllRead
  <1> QED BY <1>5, <1>6, <1>7, <1>8

LEMMA CheckEndsReported ==
  ASSUME IInv, Reported, CheckEnds
  PROVE  Reported'
PROOF
  <1> DEFINE e == [line |-> line_number, num_fields |-> prev_num_fields,
                   text |-> << >>]
  <1>1. /\ UNCHANGED <<job, input, line_number, prev_num_fields, buffer, this>>
        /\ \/ status' = "closing" /\ report' = <<e>>
           \/ status' = "wrong length"
    BY DEF CheckEnds
  <1>2. e.line = line_number /\ e.num_fields = prev_num_fields
    OBVIOUS
  <1> HIDE DEF e
  <1>3. CASE status' = "closing" /\ report' = <<e>>
    <2>1. report'[1] = e
      BY <1>3
    <2> QED BY <1>1, <1>2, <1>3, <2>1 DEF Reported
  <1>4. CASE status' = "wrong length"
    BY <1>4 DEF Reported, AllRead
  <1> QED BY <1>1, <1>3, <1>4

LEMMA NextReported == IInv /\ Reported /\ [Next]_vars => Reported'
PROOF
  <1> SUFFICES ASSUME IInv, Reported, [Next]_vars PROVE Reported'
    OBVIOUS
  <1>1. CASE StoreLine \/ StoreEnds \/ ReverseLine \/ CopyLine \/ LoopEnds
    <2>1. job.mode # "check" /\ job' = job /\ status' # "wrong size"
      BY <1>1 DEF StoreLine, StoreEnds, ReverseLine, CopyLine, LoopEnds, ReadsIn
    <2> QED BY <2>1 DEF Reported
  <1>2. CASE PrintColumn \/ PrintEnds
    <2>1. job.mode # "check" /\ job' = job /\ status' # "wrong size"
      BY <1>2 DEF PrintColumn, PrintEnds, IInv, Printed
    <2> QED BY <2>1 DEF Reported
  <1>3. CASE CloseInput
    <2>1. /\ UNCHANGED <<job, input, line_number, prev_num_fields, report>>
          /\ status = "closing" /\ status' \in {"done", "read error"}
      BY <1>3 DEF CloseInput
    <2> QED BY <2>1 DEF Reported, AllRead
  <1>4. CASE UNCHANGED vars
    BY <1>4 DEF vars, Reported, AllRead
  <1> QED BY <1>1, <1>2, <1>3, <1>4, CheckLineReported, CheckEndsReported
          DEF Next, Exited

LEMMA OutputInvariance == Spec => [](IInv /\ Backward /\ Reported)
PROOF
  <1>1. Init => Backward /\ Reported
    BY DEF Init, Backward, Reported, Accepted, RowCount, AllRead
  <1>2. IInv /\ Backward /\ Reported /\ [Next]_vars => Backward' /\ Reported'
    BY NextBackward, NextReported
  <1> QED BY <1>1, <1>2, InitIInv, NextIInv, PTL DEF Spec

(* check shows the lines it compared, not what the next record left of     *)
(* them: the two buffers change places with every line (do_check_file).    *)
THEOREM ReportsTheTruth == Spec => []ReportIsTrue
PROOF
  <1>1. IInv /\ Reported => ReportIsTrue
    <2> SUFFICES ASSUME IInv, Reported PROVE ReportIsTrue
      OBVIOUS
    <2>1. job.mode = "check" /\ AllRead =>
            /\ report[1].line = Len(input)
            /\ \A k \in DOMAIN input : report[1].num_fields = Len(input[k])
      <3> SUFFICES ASSUME job.mode = "check", AllRead
                   PROVE  /\ report[1].line = Len(input)
                          /\ \A k \in DOMAIN input : report[1].num_fields = Len(input[k])
        OBVIOUS
      <3>1. line_number = Len(input) /\ DOMAIN input = 1 .. Len(input)
        BY JobTypes DEF IInv, Finished
      <3>2. Accepted = Len(input) /\ Compares
        BY <3>1 DEF Accepted, AllRead, Compares
      <3>3. \A k \in 1 .. Len(input) : Len(input[k]) = prev_num_fields
        BY <3>2 DEF IInv, Sizes
      <3> QED BY <3>1, <3>3 DEF Reported
    <2> QED BY <2>1 DEF Reported, ReportIsTrue
  <1> QED BY <1>1, OutputInvariance, PTL

(* The rows of ReversedInput.                                              *)
LEMMA ReversedInputRows ==
  ASSUME TypeOK
  PROVE  /\ ReversedInput \in Seq(Rows)
         /\ Len(ReversedInput) = RowCount(job, Len(input))
         /\ \A k \in 1 .. Len(ReversedInput) : ReversedInput[k] = RowNo(job, input, k)
PROOF
  <1> DEFINE n == Len(input)
             rows == [j \in DOMAIN input |->
                        Row(IF job.vnlog /\ j = 1 THEN "#" ELSE "", Reverse(input[j]))]
             names == IF input = << >> THEN << >>
                      ELSE <<Row("", Reverse(SubSeq(FieldName, 1, Len(input[1]))))>>
  <1>1. /\ n \in Nat /\ DOMAIN input = 1 .. n /\ job \in JobType
        /\ \A j \in 1 .. n : input[j] \in Line /\ Len(input[j]) \in Nat
        /\ \A j \in 1 .. n : Len(input[j]) <= MaxFields
        /\ input = << >> <=> n = 0
    <2>1. input \in Seq(Line)
      BY FileModesAssumption DEF TypeOK
    <2>2. /\ n \in Nat /\ DOMAIN input = 1 .. n /\ job \in JobType
          /\ \A j \in 1 .. n : input[j] \in Line /\ Len(input[j]) \in 0 .. MaxFields
      BY JobTypes
    <2> QED BY <2>1, <2>2, JobTypes
  <1>2. /\ rows \in Seq(Rows) /\ Len(rows) = n
        /\ \A k \in 1 .. n : rows[k] = LineRow(job, input, k)
    <2>1. \A k \in 1 .. n : LineRow(job, input, k) \in Rows
      BY <1>1, ReverseType DEF LineRow, Mark
    <2>2. rows = [j \in 1 .. n |-> LineRow(job, input, j)]
      BY <1>1 DEF LineRow, Mark
    <2> HIDE DEF rows
    <2>3. rows \in [1 .. n -> Rows]
      BY <2>1, <2>2
    <2>4. rows \in Seq(Rows) /\ Len(rows) = n
      BY <1>1, <2>3, IsASeq, LenProperties
    <2> QED BY <2>2, <2>4
  <1>3. n # 0 => names = <<NameRow(input)>> /\ NameRow(input) \in Rows
    <2> SUFFICES ASSUME n # 0
                 PROVE  names = <<NameRow(input)>> /\ NameRow(input) \in Rows
      OBVIOUS
    <2>1. names = <<NameRow(input)>>
      BY <1>1 DEF NameRow
    <2>2. 1 \in 1 .. n
      BY <1>1
    <2>3. Len(input[1]) \in Nat /\ Len(input[1]) <= MaxFields
      BY <1>1, <2>2
    <2>4. \A i \in 1 .. Len(input[1]) : FieldName[i] \in Cell
      BY <2>3, FileModesAssumption
    <2>5. SubSeq(FieldName, 1, Len(input[1])) \in Line
      BY <2>3, <2>4, SubSeqProperties DEF Line
    <2>6. NameRow(input) \in Rows
      BY <2>5, ReverseType DEF NameRow
    <2> QED BY <2>1, <2>6
  <1>4. n = 0 => names = << >>
    BY <1>1
  <1>5. ReversedInput = CASE job.header_in = job.header_out -> rows
                          [] job.header_out /\ ~job.header_in -> names \o rows
                          [] job.header_in /\ ~job.header_out -> SubSeq(rows, 2, Len(rows))
    BY DEF ReversedInput
  <1>6. job.header_in \in BOOLEAN /\ job.header_out \in BOOLEAN
    BY <1>1 DEF JobType
  <1> HIDE DEF n, rows, names
  <1>7. CASE job.header_in = job.header_out
    <2>1. ReversedInput = rows
      BY <1>5, <1>6, <1>7
    <2>2. RowCount(job, n) = n /\ \A k : RowNo(job, input, k) = LineRow(job, input, k)
      BY <1>7 DEF RowCount, RowNo
    <2> QED BY <1>2, <2>1, <2>2 DEF n
  <1>8. CASE job.header_out /\ ~job.header_in
    <2>0. ~(job.header_in = job.header_out)
      BY <1>8, Zenon
    <2>1. ReversedInput = names \o rows
      BY <1>5, <1>8, <2>0
    <2>2. CASE n = 0
      <3>1. ReversedInput = rows
        BY <1>2, <1>4, <2>1, <2>2, ConcatEmptySeq
      <3>2. RowCount(job, n) = n
        BY <2>2 DEF RowCount
      <3> QED BY <1>2, <2>2, <3>1, <3>2 DEF n
    <2>3. CASE n # 0
      <3>1. names = <<NameRow(input)>> /\ names \in Seq(Rows) /\ Len(names) = 1
        <4>1. NameRow(input) \in Rows /\ names = <<NameRow(input)>>
          BY <1>3, <2>3
        <4> HIDE DEF NameRow
        <4> QED BY <4>1
      <3>2. /\ ReversedInput \in Seq(Rows) /\ Len(ReversedInput) = 1 + n
            /\ \A k \in 1 .. 1 + n :
                 ReversedInput[k] = IF k <= 1 THEN names[k] ELSE rows[k - 1]
        BY <1>2, <2>1, <3>1, ConcatProperties
      <3>3. RowCount(job, n) = n + 1
        BY <1>8, <2>0, <2>3 DEF RowCount
      <3>4. ASSUME NEW k \in 1 .. 1 + n
            PROVE  ReversedInput[k] = RowNo(job, input, k)
        <4>1. CASE k = 1
          BY <1>8, <2>0, <3>1, <3>2, <4>1 DEF RowNo
        <4>2. CASE k # 1
          <5>1. k - 1 \in 1 .. n /\ ~(k <= 1)
            BY <1>1, <4>2
          <5>2. RowNo(job, input, k) = LineRow(job, input, k - 1)
            BY <1>8, <2>0, <4>2 DEF RowNo
          <5> QED BY <1>2, <3>2, <5>1, <5>2
        <4> QED BY <4>1, <4>2
      <3>5. Len(ReversedInput) = RowCount(job, n)
        BY <1>1, <3>2, <3>3
      <3> QED BY <3>2, <3>4, <3>5 DEF n
    <2> QED BY <2>2, <2>3
  <1>9. CASE job.header_in /\ ~job.header_out
    <2>0. ~(job.header_in = job.header_out)
      BY <1>9, Zenon
    <2>1. ReversedInput = SubSeq(rows, 2, n)
      BY <1>2, <1>5, <1>9, <2>0
    <2>2. \A i \in 2 .. n : rows[i] \in Rows
      BY <1>1, <1>2
    <2>3. /\ ReversedInput \in Seq(Rows)
          /\ Len(ReversedInput) = IF 2 <= n THEN n - 2 + 1 ELSE 0
          /\ \A i \in 1 .. n - 2 + 1 : ReversedInput[i] = rows[2 + i - 1]
      BY <1>1, <2>1, <2>2, SubSeqProperties
    <2>4. RowCount(job, n) = IF n = 0 THEN 0 ELSE n - 1
      BY <1>9, <2>0 DEF RowCount
    <2>5. Len(ReversedInput) = RowCount(job, n)
      BY <1>1, <2>3, <2>4
    <2>6. \A k \in 1 .. n - 1 : ReversedInput[k] = RowNo(job, input, k)
      <3> SUFFICES ASSUME NEW k \in 1 .. n - 1
                   PROVE  ReversedInput[k] = RowNo(job, input, k)
        OBVIOUS
      <3>1. k \in 1 .. n - 2 + 1 /\ 2 + k - 1 = k + 1 /\ k + 1 \in 1 .. n
        BY <1>1
      <3>2. RowNo(job, input, k) = LineRow(job, input, k + 1)
        BY <1>9, <2>0 DEF RowNo
      <3> QED BY <1>2, <2>3, <3>1, <3>2
    <2>7. 1 .. Len(ReversedInput) \subseteq 1 .. n - 1
      BY <1>1, <2>4, <2>5
    <2> QED BY <2>3, <2>5, <2>6, <2>7 DEF n
  <1> QED BY <1>6, <1>7, <1>8, <1>9

(* A sequence whose elements are the first ones of another is its prefix.  *)
LEMMA FirstOnes ==
  ASSUME NEW S, NEW s \in Seq(S), NEW t \in Seq(S), Len(s) <= Len(t),
         \A k \in 1 .. Len(s) : s[k] = t[k]
  PROVE  IsPrefix(s, t)
PROOF
  <1> DEFINE n == Len(s)
             a == SubSeq(s, 1, n)
             b == SubSeq(t, 1, n)
  <1>1. n \in Nat /\ Len(t) \in Nat /\ n <= Len(t)
    OBVIOUS
  <1>2. \A k \in 1 .. n : s[k] \in S /\ t[k] \in S
    OBVIOUS
  <1>3. /\ a \in Seq(S) /\ Len(a) = IF 1 <= n THEN n - 1 + 1 ELSE 0
        /\ \A k \in 1 .. n - 1 + 1 : a[k] = s[1 + k - 1]
    BY <1>1, <1>2, SubSeqProperties
  <1>4. /\ b \in Seq(S) /\ Len(b) = IF 1 <= n THEN n - 1 + 1 ELSE 0
        /\ \A k \in 1 .. n - 1 + 1 : b[k] = t[1 + k - 1]
    BY <1>1, <1>2, SubSeqProperties
  <1> HIDE DEF a, b
  <1>5. Len(a) = n /\ Len(b) = n /\ \A k \in 1 .. n : a[k] = s[k] /\ b[k] = t[k]
    BY <1>1, <1>3, <1>4
  <1>6. \A k \in 1 .. Len(a) : a[k] = b[k]
    BY <1>5
  <1>7. a = b
    BY <1>3, <1>4, <1>5, <1>6, SeqEqual
  <1> QED BY <1>1, <1>7 DEF IsPrefix, a, b

(* reverse has printed the lines accepted so far, each with its fields     *)
(* backwards, and the header that was asked for, once, in front of them    *)
(* (reverse_fields_in_file).                                               *)
THEOREM ReversesAll == Spec => []ReversedSoFar
PROOF
  <1>1. IInv /\ Backward => ReversedSoFar
    <2> SUFFICES ASSUME IInv, Backward, job.mode = "reverse"
                 PROVE  /\ IsPrefix(out, ReversedInput)
                        /\ AllRead => out = ReversedInput
                        /\ status = "ragged" /\ job.header_in = job.header_out =>
                             Len(out) = line_number - 1
      BY DEF ReversedSoFar
    <2>1. /\ Len(out) = RowCount(job, Accepted)
          /\ \A k \in 1 .. Len(out) : out[k] = RowNo(job, input, k)
          /\ out \in Seq(Rows) /\ Len(out) \in Nat
      BY OutType DEF Backward, IInv
    <2>2. /\ ReversedInput \in Seq(Rows)
          /\ Len(ReversedInput) = RowCount(job, Len(input))
          /\ \A k \in 1 .. Len(ReversedInput) : ReversedInput[k] = RowNo(job, input, k)
      BY ReversedInputRows DEF IInv
    <2>3. Accepted \in Nat /\ Accepted <= Len(input) /\ Len(input) \in Nat
      <3>1. line_number \in Nat /\ line_number <= Len(input) /\ Len(input) \in Nat
        BY JobTypes DEF IInv
      <3>2. status \in {"ragged", "wrong size"} => line_number > 0
        BY DEF IInv, Sizes
      <3>3. CASE status \in {"ragged", "wrong size"}
        <4>1. Accepted = line_number - 1
          BY <3>3 DEF Accepted
        <4>2. line_number > 0
          BY <3>2, <3>3
        <4>3. line_number - 1 \in Nat /\ line_number - 1 <= Len(input)
          BY <3>1, <4>2
        <4> QED BY <3>1, <4>1, <4>3
      <3>4. CASE status \notin {"ragged", "wrong size"}
        BY <3>1, <3>4 DEF Accepted
      <3> QED BY <3>3, <3>4
    <2>4. RowCount(job, Accepted) <= RowCount(job, Len(input))
      BY <2>3 DEF RowCount
    <2>5. Len(ReversedInput) \in Nat
      BY <2>2
    <2>6. Len(out) <= Len(ReversedInput)
      BY <2>1, <2>2, <2>4
    <2>7. \A k \in 1 .. Len(out) : out[k] = ReversedInput[k]
      BY <2>1, <2>2, <2>5, <2>6
    <2>8. IsPrefix(out, ReversedInput)
      BY <2>1, <2>2, <2>6, <2>7, FirstOnes
    <2>9. ASSUME AllRead PROVE out = ReversedInput
      <3>1. Accepted = Len(input)
        BY <2>9 DEF Accepted, AllRead, IInv, Finished
      <3>2. Len(out) = Len(ReversedInput)
        BY <2>1, <2>2, <3>1
      <3> QED BY <2>1, <2>2, <2>7, <3>2, SeqEqual
    <2>10. status = "ragged" /\ job.header_in = job.header_out =>
             Len(out) = line_number - 1
      BY <2>1 DEF Accepted, RowCount
    <2> QED BY <2>8, <2>9, <2>10
  <1> QED BY <1>1, OutputInvariance, PTL

-----------------------------------------------------------------------------
(* Options.                                                                *)

LEMMA LeastNumber ==
  ASSUME NEW S \in SUBSET Nat, S # {}
  PROVE  \E x \in S : \A y \in S : x <= y
  <1> DEFINE LT == {ss \in Nat \X Nat : ss[1] < ss[2]}
  <1>1. IsWellFoundedOn(LT, Nat)
    BY NatLessThanWellFounded DEF OpToRel
  <1>2. PICK x \in S : \A y \in S : ~ (<<y, x>> \in LT)
    <2> HIDE DEF LT
    <2> QED BY <1>1, WFMin
  <1>3. ASSUME NEW y \in S PROVE x <= y
    <2>1. x \in Nat /\ y \in Nat /\ ~ (<<y, x>> \in LT)
      BY <1>2
    <2>2. ~ (y < x)
      BY <2>1
    <2> QED BY <2>1, <2>2
  <1> QED BY <1>3

-----------------------------------------------------------------------------
(* The loop over the options.                                              *)

(* The settings after the options at the positions in a set.               *)
Loops(f, os, n) ==
  f = [s \in SUBSET (1 .. n) |->
         IF s = {} THEN Defaults ELSE Option(f[s \ {Max(s)}], os[Max(s)])]

LEMMA MaxIs ==
  ASSUME NEW n \in Nat, NEW s \in SUBSET (1 .. n), n \in s
  PROVE  Max(s) = n
PROOF
  <1>1. \A y \in s : n >= y
    OBVIOUS
  <1>2. \E x \in s : \A y \in s : x >= y
    BY <1>1
  <1> DEFINE m == CHOOSE x \in s : \A y \in s : x >= y
  <1>3. m \in s /\ \A y \in s : m >= y
    BY <1>2
  <1> HIDE DEF m
  <1>4. m \in Nat /\ m >= n /\ n >= m
    BY <1>1, <1>3
  <1>5. m = n
    BY <1>4
  <1> QED BY <1>5 DEF Max, m

LEMMA MaxWithin ==
  ASSUME NEW n \in Nat, NEW s \in SUBSET (1 .. n), s # {}
  PROVE  Max(s) \in s /\ \A y \in s : y <= Max(s)
PROOF
  <1> DEFINE Away == {n - x : x \in s}
  <1>1. Away \in SUBSET Nat /\ Away # {}
    OBVIOUS
  <1>2. PICK a \in Away : \A b \in Away : a <= b
    <2> HIDE DEF Away
    <2> QED BY <1>1, LeastNumber
  <1>3. PICK x \in s : a = n - x
    BY <1>2
  <1>4. ASSUME NEW y \in s PROVE x >= y
    <2>1. n - y \in Away
      OBVIOUS
    <2>2. n - x <= n - y
      BY <1>2, <1>3, <2>1
    <2>3. x \in Int /\ y \in Int
      OBVIOUS
    <2> QED BY <2>2, <2>3
  <1>5. \E z \in s : \A y \in s : z >= y
    BY <1>4
  <1> DEFINE m == CHOOSE z \in s : \A y \in s : z >= y
  <1>6. m \in s /\ \A y \in s : m >= y
    BY <1>5
  <1>7. m = Max(s)
    BY DEF Max
  <1> HIDE DEF m
  <1>8. \A y \in s : y \in Int /\ m \in Int
    BY <1>6
  <1>9. \A y \in s : y <= m
    BY <1>6, <1>8
  <1> QED BY <1>6, <1>7, <1>9

LEMMA LoopsExist ==
  ASSUME NEW os, NEW n \in Nat
  PROVE  \E f : Loops(f, os, n)
PROOF
  <1> DEFINE Wrong == {m \in Nat : ~ \E f : Loops(f, os, m)}
  <1> SUFFICES ASSUME ~ \E f : Loops(f, os, n) PROVE FALSE
    OBVIOUS
  <1>1. PICK m \in Wrong : \A k \in Wrong : m <= k
    <2>1. Wrong \in SUBSET Nat /\ Wrong # {}
      OBVIOUS
    <2> HIDE DEF Wrong
    <2> QED BY <2>1, LeastNumber
  <1>2. m \in Nat /\ ~ \E f : Loops(f, os, m)
    BY <1>1
  <1>3. m # 0
    <2> DEFINE f0 == [s \in {{}} |-> Defaults]
    <2>1. SUBSET (1 .. 0) = {{}}
      OBVIOUS
    <2>2. f0 = [s \in SUBSET (1 .. 0) |->
         IF s = {} THEN Defaults ELSE Option(f0[s \ {Max(s)}], os[Max(s)])]
      <3>1. \A s \in {{}} : s = {}
        OBVIOUS
      <3> QED BY <2>1, <3>1, Zenon
    <2>3. Loops(f0, os, 0)
      BY <2>2, Zenon DEF Loops
    <2> QED BY <1>2, <2>3
  <1>4. m - 1 \in Nat /\ m - 1 \notin Wrong
    BY <1>1, <1>2, <1>3
  <1>5. PICK f : Loops(f, os, m - 1)
    BY <1>4
  <1> DEFINE g == [s \in SUBSET (1 .. m) |->
                     IF m \in s THEN Option(f[s \ {m}], os[m]) ELSE f[s]]
  <1>6. ASSUME NEW s \in SUBSET (1 .. m)
        PROVE  g[s] = IF s = {} THEN Defaults
                      ELSE Option(g[s \ {Max(s)}], os[Max(s)])
    <2>1. CASE m \in s
      <3>1. Max(s) = m
        BY <1>2, <2>1, MaxIs
      <3>2. s \ {m} \in SUBSET (1 .. m) /\ m \notin s \ {m}
        OBVIOUS
      <3>3. g[s \ {m}] = f[s \ {m}]
        BY <3>2
      <3>4. g[s] = Option(f[s \ {m}], os[m])
        BY <2>1
      <3>5. s # {}
        BY <2>1
      <3> HIDE DEF g
      <3> QED BY <3>1, <3>3, <3>4, <3>5
    <2>2. CASE m \notin s
      <3>1. s \in SUBSET (1 .. m - 1)
        <4>1. ASSUME NEW q \in s PROVE q \in 1 .. m - 1
          BY <1>2, <2>2
        <4> QED BY <4>1
      <3>2. g[s] = f[s]
        BY <2>2
      <3>3. f[s] = IF s = {} THEN Defaults
                   ELSE Option(f[s \ {Max(s)}], os[Max(s)])
        BY <1>5, <3>1, Zenon DEF Loops
      <3>4. s \ {Max(s)} \in SUBSET (1 .. m) /\ m \notin s \ {Max(s)}
        BY <2>2
      <3>5. g[s \ {Max(s)}] = f[s \ {Max(s)}]
        BY <3>4
      <3> HIDE DEF g
      <3> QED BY <3>2, <3>3, <3>5
    <2> QED BY <2>1, <2>2
  <1>7. g = [s \in SUBSET (1 .. m) |-> g[s]]
    OBVIOUS
  <1> HIDE DEF g
  <1>8. Loops(g, os, m)
    BY <1>6, <1>7, Zenon DEF Loops
  <1> QED BY <1>2, <1>8

(* The settings after each option in turn.                                 *)
LEMMA LoopIs ==
  ASSUME NEW os, NEW n \in Nat, DOMAIN os = 1 .. n
  PROVE  \E f : /\ f[0] = Defaults
                /\ \A i \in 1 .. n : f[i] = Option(f[i - 1], os[i])
                /\ FoldLeft(Option, Defaults, os) = f[n]
PROOF
  <1> DEFINE F == CHOOSE f : Loops(f, os, n)
             g == [i \in 0 .. n |-> F[1 .. i]]
  <1>1. Loops(F, os, n)
    BY LoopsExist
  <1>2. FoldLeft(Option, Defaults, os) = F[1 .. n]
    BY Zenon DEF FoldLeft, MapThenFoldSet, Loops
  <1> HIDE DEF F
  <1>3. \A s \in SUBSET (1 .. n) :
          F[s] = IF s = {} THEN Defaults ELSE Option(F[s \ {Max(s)}], os[Max(s)])
    BY <1>1, Zenon DEF Loops
  <1>4. g[0] = Defaults
    <2>1. 1 .. 0 = {} /\ g[0] = F[1 .. 0]
      OBVIOUS
    <2> QED BY <1>3, <2>1
  <1>5. ASSUME NEW i \in 1 .. n PROVE g[i] = Option(g[i - 1], os[i])
    <2>1. /\ 1 .. i \in SUBSET (1 .. n) /\ 1 .. i # {}
          /\ 1 .. i \in SUBSET (1 .. i) /\ i \in 1 .. i /\ i \in Nat
          /\ (1 .. i) \ {i} = 1 .. i - 1
      OBVIOUS
    <2>2. Max(1 .. i) = i
      BY <2>1, MaxIs
    <2>3. F[1 .. i] = Option(F[1 .. i - 1], os[i])
      <3>1. F[1 .. i] = Option(F[(1 .. i) \ {Max(1 .. i)}], os[Max(1 .. i)])
        BY <1>3, <2>1
      <3> QED BY <2>1, <2>2, <3>1
    <2>4. g[i] = F[1 .. i] /\ g[i - 1] = F[1 .. i - 1]
      OBVIOUS
    <2> HIDE DEF g
    <2> QED BY <2>3, <2>4
  <1>6. g[n] = F[1 .. n]
    OBVIOUS
  <1> HIDE DEF g
  <1> QED BY <1>2, <1>4, <1>5, <1>6

(* One option more, by what is read of the settings later.                 *)
OptionNames ==
  {"skip-comments", "filler", "full", "group", "ignore-case", "vnlog",
   "zero-terminated", "header-in", "header-out", "headers", "round", "format",
   "sort", "S", "seed", "no-strict", "narm", "field-separator",
   "output-delimiter", "whitespace", "collapse-delimiter"}

IsSettings(s) == DOMAIN s = DOMAIN Defaults

(* What an option changes.                                                 *)
Changes(s, o, t) ==
  LET On(names, v) == IF o.name \in names THEN TRUE ELSE v IN
  /\ IsSettings(t) /\ t.status = s.status
  /\ t.vnlog = On({"vnlog"}, s.vnlog)
  /\ t.skip_comments = On({"vnlog", "skip-comments"}, s.skip_comments)
  /\ t.input_header = On({"vnlog", "header-in", "headers"}, s.input_header)
  /\ t.output_header = On({"vnlog", "header-out", "headers"}, s.output_header)
  /\ t.pipe_through_sort = On({"sort"}, s.pipe_through_sort)
  /\ t.print_full_line = On({"full"}, s.print_full_line)
  /\ t.premode = On({"group"}, s.premode)
  /\ t.remove_na_values = On({"narm"}, s.remove_na_values)
  /\ t.case_sensitive = IF o.name = "ignore-case" THEN FALSE ELSE s.case_sensitive
  /\ t.strict = IF o.name = "no-strict" THEN FALSE ELSE s.strict
  /\ t.eolchar = IF o.name = "zero-terminated" THEN "NUL" ELSE s.eolchar
  /\ t.in_tab = IF o.name \in TabNames THEN InTabOf(o) ELSE s.in_tab
  /\ t.out_tab = IF o.name \in TabNames THEN OutTabOf(o) ELSE s.out_tab
  /\ t.missing_field_filler =
       IF o.name \in FillerNames THEN FillerOf(o) ELSE s.missing_field_filler
  /\ t.numeric_output_format =
       IF o.name \in FormatNames THEN FormatOf(o) ELSE s.numeric_output_format
  /\ t.seed = IF o.name \in {"S"} THEN NumOf(o) ELSE s.seed
  /\ t.collapse_separator =
       IF o.name \in {"collapse-delimiter"} THEN CharOf(o) ELSE s.collapse_separator
  /\ t.explicit_output_delimiter =
       IF o.name \in {"output-delimiter"} THEN CharOf(o)
       ELSE s.explicit_output_delimiter

LEMMA AcceptIs ==
  ASSUME NEW s, IsSettings(s), NEW o, o.name \in OptionNames \ {"seed"},
         NEW t, t = Accept(s, o)
  PROVE  Changes(s, o, t)
PROOF
  <1> USE DEF IsSettings, Defaults, Changes, TabNames, FillerNames, FormatNames,
              InTabOf, OutTabOf, FillerOf, FormatOf, NumOf, CharOf
  <1>1. CASE o.name = "skip-comments"
    BY <1>1 DEF Accept
  <1>2. CASE o.name = "filler"
    BY <1>2 DEF Accept
  <1>3. CASE o.name = "full"
    BY <1>3 DEF Accept
  <1>4. CASE o.name = "group"
    BY <1>4 DEF Accept
  <1>5. CASE o.name = "ignore-case"
    BY <1>5 DEF Accept
  <1>6. CASE o.name = "vnlog"
    BY <1>6 DEF Accept, VnlogFormat
  <1>7. CASE o.name = "zero-terminated"
    BY <1>7 DEF Accept
  <1>8. CASE o.name = "header-in"
    BY <1>8 DEF Accept
  <1>9. CASE o.name = "header-out"
    BY <1>9 DEF Accept
  <1>10. CASE o.name = "headers"
    BY <1>10 DEF Accept
  <1>11. CASE o.name = "round"
    BY <1>11 DEF Accept
  <1>12. CASE o.name = "format"
    BY <1>12 DEF Accept
  <1>13. CASE o.name = "sort"
    BY <1>13 DEF Accept
  <1>14. CASE o.name = "S"
    BY <1>14 DEF Accept
  <1>15. CASE o.name = "no-strict"
    BY <1>15 DEF Accept
  <1>16. CASE o.name = "narm"
    BY <1>16 DEF Accept
  <1>17. CASE o.name = "field-separator"
    BY <1>17 DEF Accept
  <1>18. CASE o.name = "output-delimiter"
    BY <1>18 DEF Accept
  <1>19. CASE o.name = "whitespace"
    BY <1>19 DEF Accept
  <1>20. CASE o.name = "collapse-delimiter"
    BY <1>20 DEF Accept
  <1> QED BY <1>1, <1>2, <1>3, <1>4, <1>5, <1>6, <1>7, <1>8, <1>9, <1>10, <1>11, <1>12, <1>13, <1>14, <1>15, <1>16, <1>17, <1>18, <1>19, <1>20 DEF OptionNames

(* An option as getopt_long can deliver it; Nothing is no character.       *)
OptionsValid(os) ==
  /\ os \in Seq(Range(os))
  /\ \A i \in DOMAIN os : /\ os[i].name \in OptionNames
                          /\ Len(os[i].arg) = 1 => os[i].arg[1] # Nothing

Seen(os, n, names) == {i \in 1 .. n : os[i].name \in names}

(* The k-th option is the last of the first n with one of the names.       *)
Latest(os, n, names, k) ==
  k \in Seen(os, n, names) /\ \A m \in Seen(os, n, names) : m <= k

(* v is what the last of the first n options with one of the names makes   *)
(* it, f[k] being what the k-th does.                                      *)
SettingIs(v, f, default, os, n, names) ==
  /\ Seen(os, n, names) = {} => v = default
  /\ \A k : Latest(os, n, names, k) => v = f[k]

InTabs(os)  == [i \in DOMAIN os |-> InTabOf(os[i])]
OutTabs(os) == [i \in DOMAIN os |-> OutTabOf(os[i])]
Fillers(os) == [i \in DOMAIN os |-> FillerOf(os[i])]
Formats(os) == [i \in DOMAIN os |-> FormatOf(os[i])]
Chars(os)   == [i \in DOMAIN os |-> CharOf(os[i])]
Nums(os)    == [i \in DOMAIN os |-> NumOf(os[i])]

(* What the first n options of os leave in the settings s.                 *)
LastsAre(s, os, n) ==
  /\ SettingIs(s.in_tab, InTabs(os), Tab, os, n, TabNames)
  /\ SettingIs(s.out_tab, OutTabs(os), Tab, os, n, TabNames)
  /\ SettingIs(s.explicit_output_delimiter, Chars(os), Nothing, os, n,
               {"output-delimiter"})
  /\ SettingIs(s.missing_field_filler, Fillers(os), <<"N", "/", "A">>, os, n,
               FillerNames)
  /\ SettingIs(s.numeric_output_format, Formats(os), <<"%", ".", 14, "L", "g">>,
               os, n, FormatNames)
  /\ SettingIs(s.seed, Nums(os), 0, os, n, {"S"})
  /\ SettingIs(s.collapse_separator, Chars(os), ",", os, n, {"collapse-delimiter"})

HasAny(os, n, names) == Seen(os, n, names) # {}

SwitchesAre(s, os, n) ==
  /\ s.vnlog = HasAny(os, n, {"vnlog"})
  /\ s.skip_comments = HasAny(os, n, {"vnlog", "skip-comments"})
  /\ s.input_header = HasAny(os, n, {"vnlog", "header-in", "headers"})
  /\ s.output_header = HasAny(os, n, {"vnlog", "header-out", "headers"})
  /\ s.pipe_through_sort = HasAny(os, n, {"sort"})
  /\ s.print_full_line = HasAny(os, n, {"full"})
  /\ s.premode = HasAny(os, n, {"group"})
  /\ s.remove_na_values = HasAny(os, n, {"narm"})
  /\ s.case_sensitive = ~HasAny(os, n, {"ignore-case"})
  /\ s.strict = ~HasAny(os, n, {"no-strict"})
  /\ s.eolchar = IF HasAny(os, n, {"zero-terminated"}) THEN "NUL" ELSE "\n"

AllGood(os, n) ==
  /\ Seen(os, n, {"seed"}) = {}
  /\ \A i \in 1 .. n : ~BadArgument(os[i])

After(s, os, n) ==
  /\ IsSettings(s) /\ s.status \in {"parsing", "undefined", "bad argument"}
  /\ s.status = "parsing" =>
       AllGood(os, n) /\ LastsAre(s, os, n) /\ SwitchesAre(s, os, n)

LEMMA NothingSeen ==
  ASSUME NEW os
  PROVE  /\ \A names : Seen(os, 0, names) = {}
         /\ After(Defaults, os, 0)
PROOF
  <1>1. \A names : Seen(os, 0, names) = {}
    BY DEF Seen
  <1>2. \A names, k : ~Latest(os, 0, names, k)
    BY <1>1 DEF Latest
  <1>6. \A v, f, default, names : v = default => SettingIs(v, f, default, os, 0, names)
    BY <1>2 DEF SettingIs
  <1>3. AllGood(os, 0) /\ LastsAre(Defaults, os, 0)
    <2>1. AllGood(os, 0)
      BY <1>1 DEF AllGood
    <2>2. /\ Defaults.in_tab = Tab /\ Defaults.out_tab = Tab
          /\ Defaults.explicit_output_delimiter = Nothing
          /\ Defaults.missing_field_filler = <<"N", "/", "A">>
          /\ Defaults.numeric_output_format = <<"%", ".", 14, "L", "g">>
          /\ Defaults.seed = 0 /\ Defaults.collapse_separator = ","
      BY DEF Defaults
    <2> QED BY <1>6, <2>1, <2>2, Zenon DEF LastsAre
  <1>4. SwitchesAre(Defaults, os, 0)
    BY <1>1 DEF SwitchesAre, HasAny, Defaults
  <1>5. IsSettings(Defaults) /\ Defaults.status = "parsing"
    BY DEF IsSettings, Defaults
  <1> QED BY <1>1, <1>3, <1>4, <1>5 DEF After

LEMMA OneMoreSeen ==
  ASSUME NEW os, NEW n \in Nat, NEW names
  PROVE  /\ Seen(os, n + 1, names) =
              Seen(os, n, names)
                \cup (IF os[n + 1].name \in names THEN {n + 1} ELSE {})
         /\ os[n + 1].name \in names =>
              \A k : Latest(os, n + 1, names, k) => k = n + 1
         /\ os[n + 1].name \notin names =>
              \A k : Latest(os, n + 1, names, k) => Latest(os, n, names, k)
PROOF
  <1>1. 1 .. n + 1 = (1 .. n) \cup {n + 1}
    OBVIOUS
  <1>2. Seen(os, n + 1, names) =
              Seen(os, n, names)
                \cup (IF os[n + 1].name \in names THEN {n + 1} ELSE {})
    BY <1>1 DEF Seen
  <1>3. ASSUME os[n + 1].name \in names, NEW k, Latest(os, n + 1, names, k)
        PROVE  k = n + 1
    <2>1. n + 1 \in Seen(os, n + 1, names)
      BY <1>2, <1>3
    <2>2. k \in 1 .. n + 1 /\ n + 1 <= k
      BY <1>3, <2>1 DEF Latest, Seen
    <2> QED BY <2>2
  <1>4. ASSUME os[n + 1].name \notin names, NEW k, Latest(os, n + 1, names, k)
        PROVE  Latest(os, n, names, k)
    BY <1>2, <1>4 DEF Latest
  <1> QED BY <1>2, <1>3, <1>4

(* One option more, by a setting that its name decides or does not.        *)
LEMMA SettingKeeps ==
  ASSUME NEW os, NEW n \in Nat, NEW names, NEW f, NEW default, NEW v,
         SettingIs(v, f, default, os, n, names),
         NEW w, w = IF os[n + 1].name \in names THEN f[n + 1] ELSE v
  PROVE  SettingIs(w, f, default, os, n + 1, names)
PROOF
  <1>1. /\ Seen(os, n + 1, names) =
             Seen(os, n, names)
               \cup (IF os[n + 1].name \in names THEN {n + 1} ELSE {})
        /\ os[n + 1].name \in names =>
             \A k : Latest(os, n + 1, names, k) => k = n + 1
        /\ os[n + 1].name \notin names =>
             \A k : Latest(os, n + 1, names, k) => Latest(os, n, names, k)
    BY OneMoreSeen
  <1>2. CASE os[n + 1].name \in names
    <2>1. Seen(os, n + 1, names) # {}
      BY <1>1, <1>2
    <2> QED BY <1>1, <1>2, <2>1 DEF SettingIs
  <1>3. CASE os[n + 1].name \notin names
    BY <1>1, <1>3 DEF SettingIs
  <1> QED BY <1>2, <1>3

LEMMA OptionKeeps ==
  ASSUME NEW os, OptionsValid(os), NEW n \in Nat, n + 1 \in DOMAIN os,
         NEW s, After(s, os, n), NEW t, t = Option(s, os[n + 1])
  PROVE  After(t, os, n + 1)
PROOF
  <1> DEFINE o == os[n + 1]
  <1>1. /\ o.name \in OptionNames
        /\ Len(o.arg) = 1 => o.arg[1] # Nothing
    BY DEF OptionsValid
  <1>6. \A names :
          /\ Seen(os, n + 1, names) =
               Seen(os, n, names) \cup (IF o.name \in names THEN {n + 1} ELSE {})
          /\ o.name \in names => \A k : Latest(os, n + 1, names, k) => k = n + 1
          /\ o.name \notin names =>
               \A k : Latest(os, n + 1, names, k) => Latest(os, n, names, k)
    BY OneMoreSeen, Zenon
  <1>2. IsSettings(s) /\ s.status \in {"parsing", "undefined", "bad argument"}
    BY DEF After
  <1>3. CASE s.status # "parsing"
    BY <1>2, <1>3 DEF Option, After
  <1>4. CASE s.status = "parsing" /\ (o.name = "seed" \/ BadArgument(o))
    <2>1. \/ t = [s EXCEPT !.status = "undefined"]
          \/ t = [s EXCEPT !.status = "bad argument"]
      BY <1>4 DEF Option
    <2>2. IsSettings(t) /\ t.status \in {"undefined", "bad argument"}
      BY <1>2, <2>1 DEF IsSettings, Defaults
    <2> QED BY <2>2 DEF After
  <1>5. CASE s.status = "parsing" /\ o.name # "seed" /\ ~BadArgument(o)
    <2>1. t = Accept(s, o) /\ o.name \in OptionNames \ {"seed"}
      BY <1>1, <1>5 DEF Option
    <2>2. AllGood(os, n) /\ LastsAre(s, os, n) /\ SwitchesAre(s, os, n)
      BY <1>5 DEF After
    <2>8. Changes(s, o, t)
      BY <1>2, <2>1, AcceptIs
    <2> HIDE DEF o
    <2>3. IsSettings(t) /\ t.status = "parsing"
      BY <1>5, <2>8 DEF Changes
    <2>4. AllGood(os, n + 1)
      <3>1. Seen(os, n + 1, {"seed"}) = {}
        BY <1>5, <2>2, <1>6 DEF AllGood, o
      <3>2. ASSUME NEW i \in 1 .. n + 1 PROVE ~BadArgument(os[i])
        <4>1. i \in 1 .. n \/ i = n + 1
          OBVIOUS
        <4> QED BY <1>5, <2>2, <4>1 DEF AllGood, o
      <3> QED BY <3>1, <3>2 DEF AllGood
    <2>5. LastsAre(t, os, n + 1)
      <3>1. /\ InTabs(os)[n + 1] = InTabOf(o) /\ OutTabs(os)[n + 1] = OutTabOf(o)
            /\ Fillers(os)[n + 1] = FillerOf(o) /\ Formats(os)[n + 1] = FormatOf(o)
            /\ Chars(os)[n + 1] = CharOf(o) /\ Nums(os)[n + 1] = NumOf(o)
        BY DEF InTabs, OutTabs, Fillers, Formats, Chars, Nums, o
      <3>2. SettingIs(t.in_tab, InTabs(os), Tab, os, n + 1, TabNames)
        <4>1. t.in_tab = IF os[n + 1].name \in TabNames THEN InTabs(os)[n + 1] ELSE s.in_tab
          BY <2>8, <3>1 DEF Changes, o
        <4> QED BY <2>2, <4>1, SettingKeeps DEF LastsAre
      <3>3. SettingIs(t.out_tab, OutTabs(os), Tab, os, n + 1, TabNames)
        <4>1. t.out_tab = IF os[n + 1].name \in TabNames THEN OutTabs(os)[n + 1] ELSE s.out_tab
          BY <2>8, <3>1 DEF Changes, o
        <4> QED BY <2>2, <4>1, SettingKeeps DEF LastsAre
      <3>4. SettingIs(t.explicit_output_delimiter, Chars(os), Nothing, os, n + 1,
                      {"output-delimiter"})
        <4>1. t.explicit_output_delimiter =
                IF os[n + 1].name \in {"output-delimiter"} THEN Chars(os)[n + 1]
                ELSE s.explicit_output_delimiter
          BY <2>8, <3>1 DEF Changes, o
        <4> QED BY <2>2, <4>1, SettingKeeps DEF LastsAre
      <3>5. SettingIs(t.missing_field_filler, Fillers(os), <<"N", "/", "A">>, os, n + 1,
                      FillerNames)
        <4>1. t.missing_field_filler =
                IF os[n + 1].name \in FillerNames THEN Fillers(os)[n + 1]
                ELSE s.missing_field_filler
          BY <2>8, <3>1 DEF Changes, o
        <4> QED BY <2>2, <4>1, SettingKeeps DEF LastsAre
      <3>6. SettingIs(t.numeric_output_format, Formats(os), <<"%", ".", 14, "L", "g">>,
                      os, n + 1, FormatNames)
        <4>1. t.numeric_output_format =
                IF os[n + 1].name \in FormatNames THEN Formats(os)[n + 1]
                ELSE s.numeric_output_format
          BY <2>8, <3>1 DEF Changes, o
        <4> QED BY <2>2, <4>1, SettingKeeps DEF LastsAre
      <3>7. SettingIs(t.seed, Nums(os), 0, os, n + 1, {"S"})
        <4>1. t.seed = IF os[n + 1].name \in {"S"} THEN Nums(os)[n + 1] ELSE s.seed
          BY <2>8, <3>1 DEF Changes, o
        <4> QED BY <2>2, <4>1, SettingKeeps DEF LastsAre
      <3>8. SettingIs(t.collapse_separator, Chars(os), ",", os, n + 1,
                      {"collapse-delimiter"})
        <4>1. t.collapse_separator =
                IF os[n + 1].name \in {"collapse-delimiter"} THEN Chars(os)[n + 1]
                ELSE s.collapse_separator
          BY <2>8, <3>1 DEF Changes, o
        <4> QED BY <2>2, <4>1, SettingKeeps DEF LastsAre
      <3> QED BY <3>2, <3>3, <3>4, <3>5, <3>6, <3>7, <3>8 DEF LastsAre
    <2>7. SwitchesAre(t, os, n + 1)
      <3>1. \A names : HasAny(os, n + 1, names) <=> HasAny(os, n, names) \/ o.name \in names
        BY <1>6 DEF HasAny
      <3> HIDE DEF HasAny
      <3>2. /\ t.vnlog = HasAny(os, n + 1, {"vnlog"})
            /\ t.skip_comments = HasAny(os, n + 1, {"vnlog", "skip-comments"})
            /\ t.input_header = HasAny(os, n + 1, {"vnlog", "header-in", "headers"})
            /\ t.output_header = HasAny(os, n + 1, {"vnlog", "header-out", "headers"})
        BY <2>2, <2>8, <3>1 DEF SwitchesAre, Changes, HasAny
      <3>3. /\ t.pipe_through_sort = HasAny(os, n + 1, {"sort"})
            /\ t.print_full_line = HasAny(os, n + 1, {"full"})
            /\ t.premode = HasAny(os, n + 1, {"group"})
            /\ t.remove_na_values = HasAny(os, n + 1, {"narm"})
        BY <2>2, <2>8, <3>1 DEF SwitchesAre, Changes, HasAny
      <3>4. /\ t.case_sensitive = ~HasAny(os, n + 1, {"ignore-case"})
            /\ t.strict = ~HasAny(os, n + 1, {"no-strict"})
            /\ t.eolchar = IF HasAny(os, n + 1, {"zero-terminated"}) THEN "NUL" ELSE "\n"
        BY <2>2, <2>8, <3>1 DEF SwitchesAre, Changes, HasAny
      <3> QED BY <3>2, <3>3, <3>4 DEF SwitchesAre
    <2> QED BY <2>3, <2>4, <2>5, <2>7 DEF After
  <1> QED BY <1>3, <1>4, <1>5

(* After the loop the settings are those of the whole command line.        *)
LEMMA LoopLeaves ==
  ASSUME NEW os, OptionsValid(os)
  PROVE  After(FoldLeft(Option, Defaults, os), os, Len(os))
PROOF
  <1> DEFINE N == Len(os)
  <1>1. N \in Nat /\ DOMAIN os = 1 .. N
    BY DEF OptionsValid
  <1>2. PICK f : /\ f[0] = Defaults
                 /\ \A i \in 1 .. N : f[i] = Option(f[i - 1], os[i])
                 /\ FoldLeft(Option, Defaults, os) = f[N]
    <2> HIDE DEF N
    <2> QED BY <1>1, LoopIs
  <1> DEFINE Wrong == {i \in 0 .. N : ~After(f[i], os, i)}
  <1> HIDE DEF N
  <1>3. Wrong = {}
    <2> SUFFICES ASSUME Wrong # {} PROVE FALSE
      OBVIOUS
    <2>1. PICK m \in Wrong : \A k \in Wrong : m <= k
      <3>1. Wrong \in SUBSET Nat
        BY <1>1
      <3> HIDE DEF Wrong
      <3> QED BY <3>1, LeastNumber
    <2>2. m \in 0 .. N /\ ~After(f[m], os, m)
      BY <2>1
    <2>3. m # 0
      BY <1>2, <2>2, NothingSeen
    <2>4. m - 1 \in 0 .. N /\ m - 1 \in Nat /\ m \in 1 .. N /\ m - 1 + 1 = m
      BY <1>1, <2>2, <2>3
    <2>5. After(f[m - 1], os, m - 1)
      BY <1>1, <2>1, <2>4
    <2>6. f[m] = Option(f[m - 1], os[m])
      BY <1>2, <2>4
    <2>7. After(f[m], os, m - 1 + 1)
      BY <1>1, <2>4, <2>5, <2>6, OptionKeeps
    <2> QED BY <2>2, <2>4, <2>7
  <1>4. After(f[N], os, N)
    BY <1>1, <1>3
  <1> QED BY <1>2, <1>4 DEF N

LEMMA LastIs ==
  ASSUME NEW os, DOMAIN os = 1 .. Len(os), Len(os) \in Nat, NEW names
  PROVE  /\ Given(os, names) = Seen(os, Len(os), names)
         /\ Given(os, names) # {} =>
              \E k : /\ Latest(os, Len(os), names, k)
                     /\ LastOf(os, names) = os[k]
PROOF
  <1> DEFINE S == Given(os, names)
             N == Len(os)
  <1>1. S = Seen(os, Len(os), names)
    BY DEF Given, Seen
  <1>2. ASSUME S # {}
        PROVE  Latest(os, N, names, Max(S)) /\ LastOf(os, names) = os[Max(S)]
    <2>1. S \in SUBSET (1 .. N)
      BY DEF Given
    <2>2. Max(S) \in S /\ \A y \in S : y <= Max(S)
      <3> HIDE DEF S, N
      <3> QED BY <1>2, <2>1, MaxWithin DEF N
    <2>3. LastOf(os, names) = os[Max(S)]
      BY DEF LastOf
    <2> QED BY <1>1, <2>2, <2>3 DEF Latest
  <1> QED BY <1>1, <1>2

(* What a setting is after the whole command line.                         *)
ByLast(v, f, default, os, names) ==
  \/ Given(os, names) = {} /\ v = default
  \/ /\ Given(os, names) # {}
     /\ \E k \in DOMAIN os : /\ os[k].name \in names /\ LastOf(os, names) = os[k]
                             /\ v = f[k]

LEMMA SettingMeans ==
  ASSUME NEW os, DOMAIN os = 1 .. Len(os), Len(os) \in Nat, NEW names, NEW f,
         NEW default, NEW v, SettingIs(v, f, default, os, Len(os), names)
  PROVE  ByLast(v, f, default, os, names)
PROOF
  <1>1. Given(os, names) = Seen(os, Len(os), names)
    BY LastIs
  <1>2. CASE Given(os, names) = {}
    BY <1>1, <1>2 DEF SettingIs, ByLast
  <1>3. CASE Given(os, names) # {}
    <2>1. PICK k : Latest(os, Len(os), names, k) /\ LastOf(os, names) = os[k]
      BY <1>3, LastIs
    <2>2. k \in DOMAIN os /\ os[k].name \in names
      BY <2>1 DEF Latest, Seen
    <2>3. v = f[k]
      BY <2>1 DEF SettingIs
    <2> QED BY <1>3, <2>1, <2>2, <2>3 DEF ByLast
  <1> QED BY <1>2, <1>3

OperationsType == [present : BOOLEAN, header_required : BOOLEAN, num_grps : Nat]

(* What sort is called with.                                               *)
LEMMA SortIs ==
  ASSUME NEW s, NEW ops \in OperationsType, s.pipe_through_sort \in BOOLEAN,
         s.case_sensitive \in BOOLEAN,
         NEW sort, sort = SortArguments(s, ops)
  PROVE  /\ sort # {} <=> s.pipe_through_sort /\ ops.num_grps > 0
         /\ sort # {} =>
              /\ <<"-z">> \in sort <=> s.eolchar = "NUL"
              /\ <<"-f">> \in sort <=> ~s.case_sensitive
              /\ {a[2] : a \in {b \in sort : Len(b) = 2}} = {s.in_tab} \ {Whitespace}
PROOF
  <1>1. ops.num_grps \in Nat
    BY DEF OperationsType
  <1>2. CASE ~s.pipe_through_sort \/ ops.num_grps = 0
    BY <1>1, <1>2 DEF SortArguments
  <1>3. CASE s.pipe_through_sort /\ ops.num_grps # 0
    <2> DEFINE T == <<"-t", s.in_tab>>
               ends == IF s.eolchar = "NUL" THEN {<<"-z">>} ELSE {}
               folds == IF s.case_sensitive THEN {} ELSE {<<"-f">>}
               tabs == IF s.in_tab = Whitespace THEN {} ELSE {T}
    <2>1. sort = {<<"-s">>} \cup ends \cup folds \cup tabs
      BY <1>3 DEF SortArguments
    <2>2. /\ Len(<<"-s">>) = 1 /\ Len(<<"-z">>) = 1 /\ Len(<<"-f">>) = 1
          /\ Len(T) = 2 /\ T[2] = s.in_tab
      OBVIOUS
    <2>3. /\ <<"-z">> # <<"-s">> /\ <<"-f">> # <<"-s">> /\ <<"-z">> # <<"-f">>
          /\ T # <<"-z">> /\ T # <<"-f">>
      <3>1. /\ <<"-s">>[1] = "-s" /\ <<"-z">>[1] = "-z" /\ <<"-f">>[1] = "-f"
            /\ T[1] = "-t"
        OBVIOUS
      <3> QED BY <2>2, <3>1
    <2>4. <<"-z">> \in sort <=> s.eolchar = "NUL"
      <3> HIDE DEF T
      <3> QED BY <2>1, <2>3
    <2>5. <<"-f">> \in sort <=> ~s.case_sensitive
      <3> HIDE DEF T
      <3> QED BY <2>1, <2>3
    <2>6. {b \in sort : Len(b) = 2} = tabs
      <3> HIDE DEF T
      <3> QED BY <2>1, <2>2
    <2>7. {a[2] : a \in tabs} = {s.in_tab} \ {Whitespace}
      <3>1. CASE s.in_tab = Whitespace
        BY <3>1
      <3>2. CASE s.in_tab # Whitespace
        <4>1. tabs = {T}
          BY <3>2
        <4> HIDE DEF T, tabs
        <4> QED BY <2>2, <3>2, <4>1
      <3> QED BY <3>1, <3>2
    <2>8. sort # {} /\ ops.num_grps > 0
      <3>1. <<"-s">> \in sort
        BY <2>1
      <3>2. ops.num_grps > 0
        BY <1>1, <1>3
      <3> QED BY <3>1, <3>2
    <2> QED BY <1>3, <2>4, <2>5, <2>6, <2>7, <2>8
  <1> QED BY <1>2, <1>3

(* Any command line that getopt_long can deliver, of any length and with   *)
(* any arguments, means what its options say: main and open_input of       *)
(* datamash.c.                                                             *)
THEOREM AnyOptionsMean ==
  ASSUME NEW os, OptionsValid(os), NEW ops \in OperationsType
  PROVE  OptionsMean(os, ops)
PROOF
  <1> DEFINE N == Len(os)
             l == FoldLeft(Option, Defaults, os)
             s == main(os, ops)
             sort == SortArguments(s, ops)
             d == Delimited(l)
             Has(name) == Given(os, {name}) # {}
  <1>1. N \in Nat /\ DOMAIN os = 1 .. N
    BY DEF OptionsValid
  <1>2. After(l, os, N)
    BY LoopLeaves
  <1>3. s = Checked(l, ops)
    BY DEF main
  <1> HIDE DEF l, s
  <1>4. ops.header_required \in BOOLEAN /\ ops.present \in BOOLEAN
    BY DEF OperationsType
  <1>5. CASE l.status # "parsing" \/ ~ops.present
    <2>1. s.status \notin {"ready", "not vnlog"}
      BY <1>2, <1>3, <1>5 DEF Checked, After, IsSettings, Defaults
    <2> QED BY <2>1 DEF OptionsMean, s
  <1>6. CASE l.status = "parsing" /\ ops.present
    <2>1. AllGood(os, N) /\ LastsAre(l, os, N) /\ SwitchesAre(l, os, N) /\ IsSettings(l)
      BY <1>2, <1>6 DEF After
    <2>2. \A names : Given(os, names) = Seen(os, N, names)
      BY <1>1, LastIs
    <2> DEFINE SameBut(u, v) ==
          /\ u.vnlog = v.vnlog /\ u.skip_comments = v.skip_comments
          /\ u.input_header = v.input_header /\ u.output_header = v.output_header
          /\ u.pipe_through_sort = v.pipe_through_sort
          /\ u.print_full_line = v.print_full_line /\ u.premode = v.premode
          /\ u.remove_na_values = v.remove_na_values
          /\ u.case_sensitive = v.case_sensitive /\ u.strict = v.strict
          /\ u.eolchar = v.eolchar /\ u.in_tab = v.in_tab
          /\ u.missing_field_filler = v.missing_field_filler
          /\ u.numeric_output_format = v.numeric_output_format
          /\ u.seed = v.seed /\ u.collapse_separator = v.collapse_separator
          /\ u.explicit_output_delimiter = v.explicit_output_delimiter
    <2>3. /\ IsSettings(d) /\ SameBut(d, l)
          /\ d.out_tab = IF l.explicit_output_delimiter = Nothing THEN l.out_tab
                         ELSE l.explicit_output_delimiter
      BY <2>1 DEF Delimited, IsSettings, Defaults
    <2> HIDE DEF d
    <2>4. /\ SameBut(s, d) /\ s.out_tab = d.out_tab
          /\ s.status = IF ops.header_required /\ ~d.input_header THEN "no header"
                        ELSE IF d.vnlog /\ ~KeepsVnlog(d) THEN "not vnlog"
                        ELSE "ready"
      BY <1>3, <1>6, <2>3 DEF Checked, d, IsSettings, Defaults
    <2>18. SameBut(s, l)
      BY <2>3, <2>4
    <2>19. \A names : HasAny(os, N, names) = (Given(os, names) # {})
      BY <2>2 DEF HasAny
    <2>5. /\ s.pipe_through_sort = Has("sort")
          /\ s.case_sensitive = ~Has("ignore-case") /\ s.vnlog = Has("vnlog")
          /\ s.eolchar = IF Has("zero-terminated") THEN "NUL" ELSE "\n"
          /\ s.print_full_line = Has("full") /\ s.premode = Has("group")
          /\ s.strict = ~Has("no-strict") /\ s.remove_na_values = Has("narm")
          /\ s.skip_comments = (Given(os, {"vnlog", "skip-comments"}) # {})
          /\ s.input_header = (Given(os, {"vnlog", "header-in", "headers"}) # {})
          /\ s.output_header = (Given(os, {"vnlog", "header-out", "headers"}) # {})
      <3> HIDE DEF N
      <3> QED BY <2>1, <2>18, <2>19 DEF SwitchesAre
    <2>20. /\ ByLast(s.in_tab, InTabs(os), Tab, os, TabNames)
           /\ ByLast(l.out_tab, OutTabs(os), Tab, os, TabNames)
           /\ ByLast(l.explicit_output_delimiter, Chars(os), Nothing, os,
                     {"output-delimiter"})
           /\ ByLast(s.missing_field_filler, Fillers(os), <<"N", "/", "A">>, os,
                     FillerNames)
           /\ ByLast(s.numeric_output_format, Formats(os),
                     <<"%", ".", 14, "L", "g">>, os, FormatNames)
           /\ ByLast(s.seed, Nums(os), 0, os, {"S"})
           /\ ByLast(s.collapse_separator, Chars(os), ",", os, {"collapse-delimiter"})
      <3>1. LastsAre(l, os, Len(os))
        BY <2>1
      <3>2. ByLast(l.in_tab, InTabs(os), Tab, os, TabNames)
        BY <1>1, <3>1, SettingMeans DEF LastsAre
      <3>3. ByLast(l.out_tab, OutTabs(os), Tab, os, TabNames)
        BY <1>1, <3>1, SettingMeans DEF LastsAre
      <3>4. ByLast(l.explicit_output_delimiter, Chars(os), Nothing, os,
                   {"output-delimiter"})
        BY <1>1, <3>1, SettingMeans DEF LastsAre
      <3>5. ByLast(l.missing_field_filler, Fillers(os), <<"N", "/", "A">>, os,
                   FillerNames)
        BY <1>1, <3>1, SettingMeans DEF LastsAre
      <3>6. ByLast(l.numeric_output_format, Formats(os), <<"%", ".", 14, "L", "g">>, os,
                   FormatNames)
        BY <1>1, <3>1, SettingMeans DEF LastsAre
      <3>7. ByLast(l.seed, Nums(os), 0, os, {"S"})
        BY <1>1, <3>1, SettingMeans DEF LastsAre
      <3>8. ByLast(l.collapse_separator, Chars(os), ",", os, {"collapse-delimiter"})
        BY <1>1, <3>1, SettingMeans DEF LastsAre
      <3> QED BY <2>18, <3>2, <3>3, <3>4, <3>5, <3>6, <3>7, <3>8
    <2>6. s.in_tab = InputTab(os)
      BY <2>20 DEF InputTab, Decided, ByLast, InTabs
    <2>7. l.out_tab = IF Given(os, TabNames) = {} THEN Tab
                      ELSE OutTabOf(LastOf(os, TabNames))
      BY <2>20 DEF ByLast, OutTabs
    <2>8. s.out_tab = OutputTab(os)
      <3> DEFINE names == {"output-delimiter"}
      <3>1. CASE Given(os, names) # {}
        <4>1. PICK k \in DOMAIN os : /\ os[k].name = "output-delimiter"
                                     /\ LastOf(os, names) = os[k]
                                     /\ l.explicit_output_delimiter = os[k].arg[1]
          BY <2>20, <3>1 DEF ByLast, Chars, CharOf
        <4>2. l.explicit_output_delimiter # Nothing
          <5>1. ~BadArgument(os[k])
            BY <1>1, <2>1, <4>1 DEF AllGood
          <5>2. Len(os[k].arg) = 1
            BY <4>1, <5>1 DEF BadArgument
          <5> QED BY <4>1, <5>2 DEF OptionsValid
        <4> QED BY <2>3, <2>4, <3>1, <4>1, <4>2 DEF OutputTab, Decided, CharOf
      <3>2. CASE Given(os, names) = {}
        <4>1. l.explicit_output_delimiter = Nothing
          BY <2>20, <3>2 DEF ByLast
        <4>2. s.out_tab = l.out_tab
          BY <2>3, <2>4, <4>1
        <4> QED BY <2>7, <3>2, <4>2 DEF OutputTab, Decided
      <3> QED BY <3>1, <3>2
    <2>21. OthersMean(os, s)
      <3>1. s.missing_field_filler = Decided(os, FillerNames, <<"N", "/", "A">>, FillerOf)
        BY <2>20 DEF Decided, ByLast, Fillers
      <3>2. s.numeric_output_format =
              Decided(os, FormatNames, <<"%", ".", 14, "L", "g">>, FormatOf)
        BY <2>20 DEF Decided, ByLast, Formats
      <3>3. s.seed = Decided(os, {"S"}, 0, NumOf)
        BY <2>20 DEF Decided, ByLast, Nums
      <3>4. s.collapse_separator = Decided(os, {"collapse-delimiter"}, ",", CharOf)
        BY <2>20 DEF Decided, ByLast, Chars
      <3>5. s.eolchar = "NUL" <=> Has("zero-terminated")
        BY <2>5
      <3>6. /\ {"skip-comments", "vnlog"} = {"vnlog", "skip-comments"}
            /\ {"header-in", "headers", "vnlog"} = {"vnlog", "header-in", "headers"}
            /\ {"header-out", "headers", "vnlog"} = {"vnlog", "header-out", "headers"}
        OBVIOUS
      <3> QED BY <2>5, <3>1, <3>2, <3>3, <3>4, <3>5, <3>6 DEF OthersMean
    <2>9. /\ Given(os, {"seed"}) = {} /\ ~\E i \in DOMAIN os : BadArgument(os[i])
      BY <1>1, <2>1, <2>2 DEF AllGood
    <2>10. /\ sort # {} <=> s.pipe_through_sort /\ ops.num_grps > 0
           /\ sort # {} =>
                /\ <<"-z">> \in sort <=> s.eolchar = "NUL"
                /\ <<"-f">> \in sort <=> ~s.case_sensitive
                /\ {a[2] : a \in {b \in sort : Len(b) = 2}}
                     = {s.in_tab} \ {Whitespace}
      <3>1. s.pipe_through_sort \in BOOLEAN /\ s.case_sensitive \in BOOLEAN
        BY <2>5
      <3> QED BY <3>1, SortIs
    <2>11. ASSUME Has("vnlog"), ~Has("filler"), ~Has("output-delimiter"),
                  ~Has("zero-terminated"), ~Has("field-separator"),
                  ~Has("whitespace")
           PROVE  KeepsVnlog(d)
      <3>1. Given(os, TabNames) # {} /\ Given(os, FillerNames) # {}
        BY <2>11 DEF Given, TabNames, FillerNames
      <3>2. PICK k \in DOMAIN os : /\ os[k].name \in TabNames /\ LastOf(os, TabNames) = os[k]
                                   /\ s.in_tab = InTabOf(os[k])
        BY <2>20, <3>1 DEF ByLast, InTabs
      <3>3. os[k].name = "vnlog"
        BY <2>11, <3>2 DEF TabNames, Given
      <3>4. l.in_tab = Whitespace /\ l.out_tab = " "
        BY <2>7, <2>18, <3>1, <3>2, <3>3 DEF InTabOf, OutTabOf
      <3>5. l.explicit_output_delimiter = Nothing
        BY <2>11, <2>20 DEF ByLast
      <3>6. PICK j \in DOMAIN os : os[j].name \in FillerNames /\ s.missing_field_filler = FillerOf(os[j])
        BY <2>20, <3>1 DEF ByLast, Fillers
      <3>7. s.missing_field_filler = <<"-">>
        <4>1. os[j].name = "vnlog"
          BY <2>11, <3>6 DEF FillerNames, Given
        <4> QED BY <3>6, <4>1 DEF FillerOf
      <3>8. s.skip_comments /\ s.input_header /\ s.output_header
        BY <2>5, <2>11 DEF Given
      <3>9. s.eolchar = "\n"
        BY <2>5, <2>11
      <3> QED BY <2>3, <2>4, <3>4, <3>5, <3>7, <3>8, <3>9 DEF KeepsVnlog
    <2>12. s.status = "not vnlog" =>
             Has("vnlog") /\ Given(os, {"filler", "field-separator",
               "whitespace", "output-delimiter", "zero-terminated"}) # {}
      <3> SUFFICES ASSUME s.status = "not vnlog"
                   PROVE  Has("vnlog") /\ Given(os, {"filler", "field-separator",
                            "whitespace", "output-delimiter", "zero-terminated"}) # {}
        OBVIOUS
      <3>1. d.vnlog /\ ~KeepsVnlog(d)
        BY <2>4
      <3>2. Has("vnlog")
        BY <2>4, <2>5, <3>1
      <3>3. \/ Has("filler") \/ Has("output-delimiter") \/ Has("zero-terminated")
            \/ Has("field-separator") \/ Has("whitespace")
        BY <2>11, <3>1, <3>2
      <3> QED BY <3>2, <3>3 DEF Given
    <2>13. s.status = "ready" /\ Has("vnlog") =>
             /\ s.in_tab = Whitespace /\ s.out_tab = " " /\ s.eolchar = "\n"
             /\ s.input_header /\ s.output_header /\ s.skip_comments
             /\ s.missing_field_filler = <<"-">>
      <3> SUFFICES ASSUME s.status = "ready", Has("vnlog")
                   PROVE  /\ s.in_tab = Whitespace /\ s.out_tab = " "
                          /\ s.eolchar = "\n"
                          /\ s.input_header /\ s.output_header /\ s.skip_comments
                          /\ s.missing_field_filler = <<"-">>
        OBVIOUS
      <3>1. KeepsVnlog(d)
        BY <2>4, <2>5
      <3> QED BY <2>4, <3>1 DEF KeepsVnlog
    <2>14. s.status = "ready" /\ ops.header_required => s.input_header
      BY <1>4, <2>4
    <2>15. sort # {} =>
             /\ <<"-z">> \in sort <=> Has("zero-terminated")
             /\ <<"-f">> \in sort <=> Has("ignore-case")
             /\ {a[2] : a \in {b \in sort : Len(b) = 2}}
                  = {InputTab(os)} \ {Whitespace}
      <3>1. s.eolchar = "NUL" <=> Has("zero-terminated")
        BY <2>5
      <3>2. s.case_sensitive <=> ~Has("ignore-case")
        BY <2>5
      <3> HIDE DEF Has, sort
      <3> QED BY <2>6, <2>10, <3>1, <3>2
    <2>16. sort # {} <=> Has("sort") /\ ops.num_grps > 0
      <3> HIDE DEF Has, sort
      <3> QED BY <2>5, <2>10
    <2> HIDE DEF sort
    <2>17. OptionsMean(os, ops)
      <3> HIDE DEF Has
      <3>1. OptionsMean(os, ops) <=>
              /\ s.status = "ready" =>
                   /\ Given(os, {"seed"}) = {}
                   /\ ~\E i \in DOMAIN os : BadArgument(os[i])
                   /\ s.in_tab = InputTab(os) /\ s.out_tab = OutputTab(os)
                   /\ OthersMean(os, s)
                   /\ sort # {} =>
                        /\ <<"-z">> \in sort <=> Has("zero-terminated")
                        /\ <<"-f">> \in sort <=> Has("ignore-case")
                        /\ {a[2] : a \in {b \in sort : Len(b) = 2}}
                             = {InputTab(os)} \ {Whitespace}
                   /\ sort # {} <=> Has("sort") /\ ops.num_grps > 0
                   /\ Has("vnlog") =>
                        /\ s.in_tab = Whitespace /\ s.out_tab = " "
                        /\ s.eolchar = "\n"
                        /\ s.input_header /\ s.output_header /\ s.skip_comments
                        /\ s.missing_field_filler = <<"-">>
                   /\ ops.header_required => s.input_header
              /\ s.status = "not vnlog" =>
                   Has("vnlog") /\ Given(os, {"filler", "field-separator",
                     "whitespace", "output-delimiter", "zero-terminated"}) # {}
        BY Zenon DEF OptionsMean, Has, sort, s
      <3> QED BY <2>6, <2>8, <2>9, <2>12, <2>13, <2>14, <2>15, <2>16, <2>21, <3>1
    <2> QED BY <2>17
  <1> QED BY <1>4, <1>5, <1>6

-----------------------------------------------------------------------------
(* Extensions of file names.                                               *)

LEMMA TopIs ==
  ASSUME NEW S, NEW m \in S, \A y \in S : y \in Int /\ y <= m
  PROVE  Max(S) = m
PROOF
  <1> DEFINE t == CHOOSE x \in S : \A y \in S : x >= y
  <1>1. m \in Int /\ \A y \in S : m >= y
    OBVIOUS
  <1>2. t \in S /\ \A y \in S : t >= y
    BY <1>1
  <1>3. Max(S) = t
    BY DEF Max
  <1> HIDE DEF t
  <1>4. t \in Int /\ t >= m /\ t <= m
    BY <1>2
  <1> QED BY <1>1, <1>3, <1>4

LEMMA BottomIs ==
  ASSUME NEW S, NEW m \in S, \A y \in S : y \in Int /\ m <= y
  PROVE  Min(S) = m
PROOF
  <1> DEFINE t == CHOOSE x \in S : \A y \in S : x =< y
  <1>1. m \in Int /\ \A y \in S : m =< y
    OBVIOUS
  <1>2. t \in S /\ \A y \in S : t =< y
    BY <1>1
  <1>3. Min(S) = t
    BY DEF Min
  <1> HIDE DEF t
  <1>4. t \in Int /\ t >= m /\ t <= m
    BY <1>2
  <1> QED BY <1>1, <1>3, <1>4

(* From the dot at i to the next dot, or to the end.                       *)
Part(s, i) ==
  SubSeq(s, i, Min({j - 1 : j \in {d \in i + 1 .. Len(s) : s[d] = "."}}
                     \cup {Len(s)}))

Ends(s, from) ==
  /\ from \in 2 .. Len(s) /\ s[from] = "."
  /\ \A i \in from .. Len(s) : s[i] \in Alnum \cup {"."}
  /\ \A i \in from + 1 .. Len(s) : s[i] = "." => Part(s, i) \in AddOn

LEMMA ExtensionMeans ==
  ASSUME NEW s, Len(s) \in Nat, NEW from \in Nat
  PROVE  IsExtension(s, from) <=> Ends(s, from)
PROOF
  <1> DEFINE dots == {i \in from .. Len(s) : s[i] = "."}
             part(i) == SubSeq(s, i, Min({j - 1 : j \in {d \in dots : d > i}}
                                           \cup {Len(s)}))
  <1>1. IsExtension(s, from) <=>
          /\ from \in dots /\ from > 1
          /\ \A i \in from .. Len(s) : s[i] \in Alnum \cup {"."}
          /\ \A i \in dots \ {from} : part(i) \in AddOn
    BY DEF IsExtension
  <1>2. ASSUME NEW i \in dots PROVE part(i) = Part(s, i)
    <2>1. {d \in dots : d > i} = {d \in i + 1 .. Len(s) : s[d] = "."}
      OBVIOUS
    <2> QED BY <2>1 DEF Part
  <1>3. dots \ {from} = {i \in from + 1 .. Len(s) : s[i] = "."}
    OBVIOUS
  <1>4. from \in dots /\ from > 1 <=> from \in 2 .. Len(s) /\ s[from] = "."
    OBVIOUS
  <1>5. (\A i \in dots \ {from} : part(i) \in AddOn)
          <=> \A i \in dots \ {from} : Part(s, i) \in AddOn
    BY <1>2
  <1> HIDE DEF part, dots
  <1>6. (\A i \in dots \ {from} : Part(s, i) \in AddOn)
          <=> \A i \in from + 1 .. Len(s) : s[i] = "." => Part(s, i) \in AddOn
    BY <1>3
  <1> QED BY <1>1, <1>4, <1>5, <1>6 DEF Ends

(* Back stops at the last character, before l + 2, that is no letter or    *)
(* digit; or at the first.                                                 *)
LEMMA BackIs ==
  ASSUME NEW s, NEW l \in Nat, NEW k, k = Back(s, l)
  PROVE  /\ k \in 0 .. l /\ (k = 0 \/ s[k + 1] \notin Alnum)
         /\ \A i \in k + 2 .. l + 1 : s[i] \in Alnum
PROOF
  <1> DEFINE Stops(j) == /\ j = 0 \/ s[j + 1] \notin Alnum
                         /\ \A i \in j + 2 .. l + 1 : s[i] \in Alnum
             Away == {d \in 0 .. l : l - d = 0 \/ s[l - d + 1] \notin Alnum}
  <1>1. PICK a \in Away : \A b \in Away : a <= b
    <2>1. Away \in SUBSET Nat /\ l \in Away
      OBVIOUS
    <2> HIDE DEF Away
    <2> QED BY <2>1, LeastNumber
  <1>2. a \in 0 .. l /\ (l - a = 0 \/ s[l - a + 1] \notin Alnum)
    BY <1>1
  <1>3. ASSUME NEW i \in l - a + 2 .. l + 1 PROVE s[i] \in Alnum
    <2>1. l + 1 - i \in 0 .. l /\ l + 1 - i < a /\ a \in Nat
      BY <1>2
    <2>2. l + 1 - i \notin Away
      BY <1>1, <2>1
    <2>3. l - (l + 1 - i) + 1 = i
      BY <2>1
    <2> QED BY <2>1, <2>2, <2>3
  <1>4. Stops(l - a) /\ l - a \in 0 .. l
    BY <1>2, <1>3
  <1>5. k = CHOOSE j \in 0 .. l : Stops(j)
    BY Zenon DEF Back
  <1> HIDE DEF Stops
  <1>6. k \in 0 .. l /\ Stops(k)
    BY <1>4, <1>5
  <1> QED BY <1>6 DEF Stops

(* One step back.                                                          *)
Scanned(f, s, l) ==
  LET k == Back(s, l)
  IN  IF k > 0 /\ s[k + 1] = "."
      THEN IF SubSeq(s, k + 1, l + 1) \in AddOn THEN f[k - 1] ELSE Len(s) - k
      ELSE Len(s) - (l + 1)

Scans(f, s, n) == f = [l \in 0 .. n - 1 |-> Scanned(f, s, l)]

LEMMA ScansExist ==
  ASSUME NEW s, NEW n \in Nat
  PROVE  \E f : Scans(f, s, n)
PROOF
  <1> DEFINE Wrong == {m \in Nat : ~ \E f : Scans(f, s, m)}
  <1> SUFFICES ASSUME ~ \E f : Scans(f, s, n) PROVE FALSE
    OBVIOUS
  <1>1. PICK m \in Wrong : \A k \in Wrong : m <= k
    <2>1. Wrong \in SUBSET Nat /\ Wrong # {}
      OBVIOUS
    <2> HIDE DEF Wrong
    <2> QED BY <2>1, LeastNumber
  <1>2. m \in Nat /\ ~ \E f : Scans(f, s, m)
    BY <1>1
  <1>3. m # 0
    <2> DEFINE f0 == [l \in {} |-> 0]
    <2>1. 0 .. 0 - 1 = {}
      OBVIOUS
    <2>2. Scans(f0, s, 0)
      <3>1. f0 = [l \in {} |-> Scanned(f0, s, l)]
        OBVIOUS
      <3> HIDE DEF f0
      <3> QED BY <2>1, <3>1 DEF Scans
    <2> QED BY <1>2, <2>2
  <1>4. m - 1 \in Nat /\ m - 1 \notin Wrong
    BY <1>1, <1>2, <1>3
  <1>5. PICK f : Scans(f, s, m - 1)
    BY <1>4
  <1> DEFINE g == [l \in 0 .. m - 1 |-> IF l < m - 1 THEN f[l] ELSE Scanned(f, s, l)]
  <1>6. ASSUME NEW l \in 0 .. m - 1 PROVE g[l] = Scanned(g, s, l)
    <2>1. Back(s, l) \in 0 .. l
      BY BackIs
    <2>2. Back(s, l) > 0 => /\ Back(s, l) - 1 \in 0 .. m - 1
                            /\ Back(s, l) - 1 < m - 1
      BY <1>2, <2>1
    <2>3. Back(s, l) > 0 => g[Back(s, l) - 1] = f[Back(s, l) - 1]
      BY <2>2
    <2>4. g[l] = Scanned(f, s, l)
      <3>1. CASE l < m - 1
        <4>1. l \in 0 .. m - 1 - 1 /\ g[l] = f[l]
          BY <1>2, <3>1
        <4>2. f[l] = Scanned(f, s, l)
          BY <1>5, <4>1, Zenon DEF Scans
        <4> QED BY <4>1, <4>2
      <3>2. CASE ~(l < m - 1)
        BY <3>2
      <3> QED BY <3>1, <3>2
    <2> HIDE DEF g
    <2>5. Scanned(f, s, l) = Scanned(g, s, l)
      BY <2>3, Zenon DEF Scanned
    <2> QED BY <2>4, <2>5
  <1>7. g = [l \in 0 .. m - 1 |-> g[l]]
    OBVIOUS
  <1> HIDE DEF g
  <1>8. Scans(g, s, m)
    BY <1>6, <1>7, Zenon DEF Scans
  <1> QED BY <1>2, <1>8

LEMMA ScanIs ==
  ASSUME NEW s, Len(s) \in Nat \ {0}
  PROVE  \E f : /\ \A l \in 0 .. Len(s) - 1 : f[l] = Scanned(f, s, l)
                /\ ExtensionFrom(s, Len(s) - 1) = f[Len(s) - 1]
PROOF
  <1> DEFINE n == Len(s)
             F == CHOOSE f : Scans(f, s, n)
  <1>1. Scans(F, s, n)
    BY ScansExist
  <1>2. ExtensionFrom(s, n - 1) = F[n - 1]
    BY Zenon DEF ExtensionFrom, Scans, Scanned
  <1> HIDE DEF F
  <1>3. \A l \in 0 .. n - 1 : F[l] = Scanned(F, s, l)
    BY <1>1, Zenon DEF Scans
  <1> QED BY <1>2, <1>3

(* Where the scan goes on at l, an extension of add-ons follows.           *)
Follows(s, l) ==
  \/ l = Len(s) - 1
  \/ /\ l \in 0 .. Len(s) - 2
     /\ Ends(s, l + 2) /\ Part(s, l + 2) \in AddOn

(* The length of the longest extension is n.                               *)
Longest(s, n) ==
  \/ n = 0 /\ \A i \in 1 .. Len(s) : ~Ends(s, i)
  \/ /\ n \in 1 .. Len(s) /\ Ends(s, Len(s) + 1 - n)
     /\ \A i \in 1 .. Len(s) : Ends(s, i) => Len(s) + 1 - n <= i

LEMMA ScannedIs ==
  ASSUME NEW s, Len(s) \in Nat \ {0}, NEW l \in 0 .. Len(s) - 1, Follows(s, l),
         NEW k, k = Back(s, l)
  PROVE  /\ k > 0 /\ s[k + 1] = "." =>
              /\ Ends(s, k + 1) /\ Part(s, k + 1) = SubSeq(s, k + 1, l + 1)
              /\ Part(s, k + 1) \notin AddOn => Longest(s, Len(s) - k)
         /\ ~(k > 0 /\ s[k + 1] = ".") => Longest(s, Len(s) - (l + 1))
PROOF
  <1> DEFINE n == Len(s)
  <1>1. /\ k \in 0 .. l /\ (k = 0 \/ s[k + 1] \notin Alnum)
        /\ \A i \in k + 2 .. l + 1 : s[i] \in Alnum
    BY BackIs
  <1>2. "." \notin Alnum
    BY DEF Alnum
  <1>3. n \in Nat \ {0} /\ l \in 0 .. n - 1
    OBVIOUS
  <1>4. l + 2 \in 2 .. n => /\ s[l + 2] = "." /\ Part(s, l + 2) \in AddOn
                            /\ \A i \in l + 2 .. n : s[i] \in Alnum \cup {"."}
                            /\ \A i \in l + 3 .. n : s[i] = "." => Part(s, i) \in AddOn
    BY <1>3 DEF Follows, Ends
  <1>5. \A i \in k + 2 .. l + 1 : ~Ends(s, i)
    BY <1>1, <1>2 DEF Ends
  <1> HIDE DEF n
  <1>6. ASSUME k > 0, s[k + 1] = "."
        PROVE  /\ Ends(s, k + 1) /\ Part(s, k + 1) = SubSeq(s, k + 1, l + 1)
               /\ Part(s, k + 1) \notin AddOn => Longest(s, n - k)
    <2>1. \A i \in k + 2 .. n : /\ s[i] = "." => i \in l + 2 .. n /\ l + 2 \in 2 .. n
                                /\ \/ i \in k + 2 .. l + 1
                                   \/ i \in l + 2 .. n /\ l + 2 \in 2 .. n
      <3> TAKE i \in k + 2 .. n
      <3>1. i \in k + 2 .. l + 1 \/ (i \in l + 2 .. n /\ l + 2 \in 2 .. n)
        BY <1>1, <1>3
      <3>2. i \in k + 2 .. l + 1 => s[i] # "."
        BY <1>1, <1>2
      <3> QED BY <3>1, <3>2
    <2>2. Ends(s, k + 1)
      <3>1. k + 1 \in 2 .. n
        BY <1>1, <1>3, <1>6
      <3>2. ASSUME NEW i \in k + 1 .. n PROVE s[i] \in Alnum \cup {"."}
        <4>1. i = k + 1 \/ i \in k + 2 .. n
          BY <1>1, <1>3
        <4> QED BY <1>1, <1>4, <1>6, <2>1, <4>1
      <3>3. ASSUME NEW i \in k + 1 + 1 .. n, s[i] = "." PROVE Part(s, i) \in AddOn
        <4>1. i \in k + 2 .. n
          BY <1>1, <1>3
        <4>2. i \in l + 2 .. n /\ l + 2 \in 2 .. n
          BY <2>1, <3>3, <4>1
        <4>3. i = l + 2 \/ i \in l + 3 .. n
          BY <1>3, <4>2
        <4> QED BY <1>4, <3>3, <4>2, <4>3
      <3> QED BY <1>6, <3>1, <3>2, <3>3 DEF Ends, n
    <2>3. Part(s, k + 1) = SubSeq(s, k + 1, l + 1)
      <3> DEFINE D == {d \in k + 1 + 1 .. n : s[d] = "."}
                 S == {j - 1 : j \in D} \cup {n}
      <3>1. \A d \in D : d \in l + 2 .. n /\ l + 2 \in 2 .. n /\ d \in Int
        <4> TAKE d \in D
        <4>1. d \in k + 2 .. n /\ s[d] = "."
          BY <1>1, <1>3
        <4>2. d \in l + 2 .. n /\ l + 2 \in 2 .. n
          BY <2>1, <4>1
        <4> QED BY <4>2
      <3>2. l + 1 \in S
        <4>1. CASE l = n - 1
          BY <1>3, <4>1
        <4>2. CASE l # n - 1
          <5>1. l + 2 \in 2 .. n /\ l + 2 \in k + 1 + 1 .. n
            BY <1>1, <1>3, <4>2
          <5>2. l + 2 \in D
            BY <1>4, <5>1
          <5>3. l + 1 = l + 2 - 1
            BY <1>3
          <5> HIDE DEF D
          <5> QED BY <5>2, <5>3
        <4> QED BY <4>1, <4>2
      <3>3. \A y \in S : y \in Int /\ l + 1 <= y
        <4> TAKE y \in S
        <4>1. y = n \/ \E d \in D : y = d - 1
          OBVIOUS
        <4> HIDE DEF D, S
        <4> QED BY <1>3, <3>1, <4>1
      <3> HIDE DEF S
      <3>4. Min(S) = l + 1
        BY <3>2, <3>3, BottomIs
      <3> QED BY <3>4 DEF Part, S, n
    <2>4. ASSUME Part(s, k + 1) \notin AddOn PROVE Longest(s, n - k)
      <3>1. n - k \in 1 .. n /\ n + 1 - (n - k) = k + 1
        BY <1>1, <1>3
      <3>2. ASSUME NEW i \in 1 .. n, Ends(s, i) PROVE k + 1 <= i
        <4>1. ~(k + 1 \in i + 1 .. n)
          BY <1>6, <2>4, <3>2 DEF Ends, n
        <4> QED BY <1>1, <1>3, <4>1
      <3> QED BY <2>2, <3>1, <3>2 DEF Longest, n
    <2> QED BY <2>2, <2>3, <2>4
  <1>7. ASSUME ~(k > 0 /\ s[k + 1] = ".") PROVE Longest(s, n - (l + 1))
    <2>1. ASSUME NEW i \in 1 .. l + 1 PROVE ~Ends(s, i)
      <3>1. i \in k + 2 .. l + 1 \/ i = k + 1 \/ (i <= k /\ k > 0)
        BY <1>1, <1>3
      <3>2. CASE i = k + 1
        <4>1. k = 0 => i \notin 2 .. n
          BY <3>2
        <4> QED BY <1>1, <1>7, <3>2, <4>1 DEF Ends, n
      <3>3. CASE i <= k /\ k > 0
        <4>1. k + 1 \in i .. n
          BY <1>1, <1>3, <3>3
        <4>2. s[k + 1] \notin Alnum \cup {"."}
          BY <1>1, <1>7, <3>3
        <4> QED BY <4>1, <4>2 DEF Ends, n
      <3> QED BY <1>5, <3>1, <3>2, <3>3
    <2>2. CASE l = n - 1
      <3>1. n - (l + 1) = 0 /\ l + 1 = n
        BY <1>3, <2>2
      <3> QED BY <2>1, <3>1 DEF Longest, n
    <2>3. CASE l # n - 1
      <3>1. Ends(s, l + 2)
        BY <1>3, <2>3 DEF Follows, n
      <3>2. n - (l + 1) \in 1 .. n /\ n + 1 - (n - (l + 1)) = l + 2
        BY <1>3, <2>3
      <3>3. ASSUME NEW i \in 1 .. n, Ends(s, i) PROVE l + 2 <= i
        <4>1. i \notin 1 .. l + 1
          BY <2>1, <3>3
        <4> QED BY <1>3, <4>1
      <3> QED BY <3>1, <3>2, <3>3 DEF Longest, n
    <2> QED BY <2>2, <2>3
  <1> QED BY <1>6, <1>7 DEF n

LEMMA ScanFinds ==
  ASSUME NEW s, Len(s) \in Nat \ {0}, NEW f,
         \A l \in 0 .. Len(s) - 1 : f[l] = Scanned(f, s, l)
  PROVE  Longest(s, f[Len(s) - 1])
PROOF
  <1> DEFINE n == Len(s)
             Wrong == {l \in 0 .. n - 1 : Follows(s, l) /\ ~Longest(s, f[l])}
  <1>1. n \in Nat \ {0} /\ n - 1 \in 0 .. n - 1 /\ Follows(s, n - 1)
    BY DEF Follows
  <1>2. Wrong = {}
    <2> SUFFICES ASSUME Wrong # {} PROVE FALSE
      OBVIOUS
    <2>1. PICK l \in Wrong : \A m \in Wrong : l <= m
      <3>1. Wrong \in SUBSET Nat
        BY <1>1
      <3> HIDE DEF Wrong
      <3> QED BY <3>1, LeastNumber
    <2>2. l \in 0 .. n - 1 /\ Follows(s, l) /\ ~Longest(s, f[l])
      BY <2>1
    <2> DEFINE k == Back(s, l)
    <2>3. k \in 0 .. l
      BY <2>2, BackIs
    <2>4. f[l] = Scanned(f, s, l)
      BY <2>2
    <2>5. /\ k > 0 /\ s[k + 1] = "." =>
               /\ Ends(s, k + 1) /\ Part(s, k + 1) = SubSeq(s, k + 1, l + 1)
               /\ Part(s, k + 1) \notin AddOn => Longest(s, n - k)
          /\ ~(k > 0 /\ s[k + 1] = ".") => Longest(s, n - (l + 1))
      BY <2>2, ScannedIs
    <2>6. f[l] = IF k > 0 /\ s[k + 1] = "."
                 THEN IF SubSeq(s, k + 1, l + 1) \in AddOn THEN f[k - 1] ELSE n - k
                 ELSE n - (l + 1)
      BY <2>4, Zenon DEF Scanned
    <2> HIDE DEF k, n
    <2>7. k > 0 /\ s[k + 1] = "." /\ SubSeq(s, k + 1, l + 1) \in AddOn
      BY <2>2, <2>5, <2>6
    <2>8. f[l] = f[k - 1]
      BY <2>6, <2>7
    <2>9. k - 1 \in 0 .. n - 2 /\ k - 1 < l /\ k - 1 + 2 = k + 1
          /\ k - 1 \in 0 .. n - 1 /\ k - 1 \in Int /\ l \in Int
      BY <1>1, <2>2, <2>3, <2>7
    <2>10. Follows(s, k - 1)
      BY <2>5, <2>7, <2>9 DEF Follows, n
    <2>11. k - 1 \notin Wrong
      <3>1. ~(l <= k - 1)
        BY <2>9
      <3> QED BY <2>1, <3>1
    <2> QED BY <2>2, <2>8, <2>9, <2>10, <2>11
  <1> QED BY <1>1, <1>2

LEMMA LongestIs ==
  ASSUME NEW s, Len(s) \in Nat, DOMAIN s = 1 .. Len(s), NEW n, Longest(s, n)
  PROVE  n = Max({0} \cup {Len(s) + 1 - i : i \in {i \in DOMAIN s : IsExtension(s, i)}})
PROOF
  <1> DEFINE E == {i \in DOMAIN s : IsExtension(s, i)}
             S == {0} \cup {Len(s) + 1 - i : i \in E}
  <1>1. \A i \in DOMAIN s : IsExtension(s, i) <=> Ends(s, i)
    BY ExtensionMeans
  <1>2. E = {i \in 1 .. Len(s) : Ends(s, i)}
    BY <1>1
  <1>3. n \in Nat /\ n \in S
    <2>1. CASE n = 0
      BY <2>1
    <2>2. CASE n # 0
      <3>1. n \in 1 .. Len(s) /\ Ends(s, Len(s) + 1 - n)
        BY <2>2 DEF Longest
      <3>2. Len(s) + 1 - n \in E /\ Len(s) + 1 - (Len(s) + 1 - n) = n
        BY <1>2, <3>1
      <3> HIDE DEF E
      <3> QED BY <3>1, <3>2
    <2> QED BY <2>1, <2>2
  <1>4. ASSUME NEW y \in S PROVE y \in Int /\ y <= n
    <2>1. y = 0 \/ \E i \in E : y = Len(s) + 1 - i
      OBVIOUS
    <2>2. CASE y = 0
      BY <1>3, <2>2
    <2>3. ASSUME NEW i \in E, y = Len(s) + 1 - i PROVE y \in Int /\ y <= n
      <3>1. i \in 1 .. Len(s) /\ Ends(s, i)
        BY <1>2
      <3>2. n \in 1 .. Len(s) /\ Len(s) + 1 - n <= i
        BY <3>1 DEF Longest
      <3> QED BY <2>3, <3>1, <3>2
    <2> QED BY <2>1, <2>2, <2>3
  <1> HIDE DEF S
  <1>5. Max(S) = n
    BY <1>3, <1>4, TopIs
  <1> QED BY <1>5 DEF S

(* guess_file_extension returns the longest end of any text that is an     *)
(* extension, for any set of add-ons (utils.c).                            *)
THEOREM AnyExtensionRight ==
  ASSUME NEW C, NEW s \in Seq(C)
  PROVE  ExtensionRight(s)
PROOF
  <1>3. Len(s) \in Nat /\ DOMAIN s = 1 .. Len(s) /\ (s # << >> => Len(s) # 0)
    OBVIOUS
  <1>1. CASE s = << >>
    <2>1. Longest(s, 0)
      <3>1. Len(s) = 0
        BY <1>1
      <3> QED BY <3>1 DEF Longest
    <2>2. guess_file_extension(s) = 0
      BY <1>1 DEF guess_file_extension
    <2> QED BY <1>3, <2>1, <2>2, LongestIs DEF ExtensionRight
  <1>2. CASE s # << >>
    <2>1. Len(s) \in Nat \ {0}
      BY <1>2, <1>3
    <2>2. PICK f : /\ \A l \in 0 .. Len(s) - 1 : f[l] = Scanned(f, s, l)
                   /\ ExtensionFrom(s, Len(s) - 1) = f[Len(s) - 1]
      BY <2>1, ScanIs
    <2>3. Longest(s, guess_file_extension(s))
      BY <1>2, <2>1, <2>2, ScanFinds DEF guess_file_extension
    <2> QED BY <1>3, <2>3, LongestIs DEF ExtensionRight
  <1> QED BY <1>1, <1>2

-----------------------------------------------------------------------------
(* Formats.                                                                *)

LEMMA SpanIs ==
  ASSUME NEW s, Len(s) \in Nat, NEW set, NEW i \in 1 .. Len(s) + 1,
         NEW r, r = SkipSpan(s, i, set)
  PROVE  /\ r \in i .. Len(s) + 1 /\ (r = Len(s) + 1 \/ s[r] \notin set)
         /\ \A q \in i .. r - 1 : s[q] \in set
PROOF
  <1> DEFINE S == {k \in i .. Len(s) + 1 : k = Len(s) + 1 \/ s[k] \notin set}
  <1>1. S \in SUBSET Nat /\ Len(s) + 1 \in S
    OBVIOUS
  <1>2. PICK m \in S : \A y \in S : m <= y
    <2> HIDE DEF S
    <2> QED BY <1>1, LeastNumber
  <1>3. \A y \in S : y \in Int /\ m <= y
    BY <1>2
  <1>4. r = Min(S)
    BY DEF SkipSpan
  <1>5. r = m
    <2> HIDE DEF S
    <2> QED BY <1>2, <1>3, <1>4, BottomIs
  <1>6. ASSUME NEW q \in i .. r - 1 PROVE s[q] \in set
    <2>1. r \in i .. Len(s) + 1
      BY <1>5
    <2>2. q \in i .. Len(s) + 1 /\ q # Len(s) + 1 /\ ~(r <= q)
      BY <2>1
    <2>3. q \notin S
      BY <1>2, <1>5, <2>2
    <2> QED BY <2>2, <2>3
  <1> QED BY <1>5, <1>6

LEMMA SpanEnds ==
  ASSUME NEW s, Len(s) \in Nat, NEW set, NEW i \in 1 .. Len(s) + 1,
         NEW r \in i .. Len(s) + 1, r = Len(s) + 1 \/ s[r] \notin set,
         \A q \in i .. r - 1 : s[q] \in set
  PROVE  SkipSpan(s, i, set) = r
PROOF
  <1> DEFINE z == SkipSpan(s, i, set)
  <1>1. /\ z \in i .. Len(s) + 1 /\ (z = Len(s) + 1 \/ s[z] \notin set)
        /\ \A q \in i .. z - 1 : s[q] \in set
    BY SpanIs
  <1> HIDE DEF z
  <1>2. ~(z < r)
    <2>1. z < r => z \in i .. r - 1 /\ z # Len(s) + 1
      BY <1>1
    <2> QED BY <1>1, <2>1
  <1>3. ~(r < z)
    <2>1. r < z => r \in i .. z - 1 /\ r # Len(s) + 1
      BY <1>1
    <2> QED BY <1>1, <2>1
  <1> QED BY <1>1, <1>2, <1>3 DEF z

(* The first m characters of a text are plain.                             *)
PlainTo(t, m) ==
  \A i, j \in 1 .. m :
    /\ i <= j /\ \A k \in i .. j : t[k] = "%"
    /\ i = 1 \/ t[i - 1] # "%"
    /\ j = m \/ t[j + 1] # "%"
    => (j - i) % 2 = 1

LEMMA PlainIs ==
  ASSUME NEW C, NEW t \in Seq(C), NEW m \in 0 .. Len(t)
  PROVE  /\ IsPlain(SubSeq(t, 1, m)) <=> PlainTo(t, m)
         /\ IsPlain(t) <=> PlainTo(t, Len(t))
PROOF
  <1> DEFINE N == Len(t)
  <1>1. N \in Nat /\ DOMAIN t = 1 .. N
    OBVIOUS
  <1>2. ASSUME NEW u, NEW n \in 0 .. N, DOMAIN u = 1 .. n,
               \A k \in 1 .. n : u[k] = t[k]
        PROVE  IsPlain(u) <=> PlainTo(t, n)
    <2>1. ASSUME NEW i \in 1 .. n, NEW j \in 1 .. n, i <= j
          PROVE  /\ At(u, i - 1) # "%" <=> i = 1 \/ t[i - 1] # "%"
                 /\ At(u, j + 1) # "%" <=> j = n \/ t[j + 1] # "%"
                 /\ (\A k \in i .. j : u[k] = "%") <=> \A k \in i .. j : t[k] = "%"
      <3>1. i = 1 \/ i - 1 \in 1 .. n
        BY <1>1
      <3>2. j = n \/ j + 1 \in 1 .. n
        BY <1>1
      <3>3. 0 \notin 1 .. n /\ n + 1 \notin 1 .. n
        BY <1>1
      <3>4. At(u, i - 1) # "%" <=> i = 1 \/ t[i - 1] # "%"
        BY <1>2, <3>1, <3>3 DEF At
      <3>5. At(u, j + 1) # "%" <=> j = n \/ t[j + 1] # "%"
        BY <1>2, <3>2, <3>3 DEF At
      <3>6. \A k \in i .. j : u[k] = t[k]
        BY <1>1, <1>2
      <3> QED BY <3>4, <3>5, <3>6
    <2>2. IsPlain(u) <=>
            \A i, j \in 1 .. n :
              /\ i <= j /\ \A k \in i .. j : u[k] = "%"
              /\ At(u, i - 1) # "%" /\ At(u, j + 1) # "%"
              => (j - i) % 2 = 1
      BY <1>2 DEF IsPlain
    <2> QED BY <2>1, <2>2 DEF PlainTo
  <1>3. /\ DOMAIN SubSeq(t, 1, m) = 1 .. m
        /\ \A k \in 1 .. m : SubSeq(t, 1, m)[k] = t[k]
    OBVIOUS
  <1>4. m \in 0 .. N /\ N \in 0 .. N
    BY <1>1
  <1>5. IsPlain(SubSeq(t, 1, m)) <=> PlainTo(t, m)
    BY <1>2, <1>3, <1>4
  <1>6. IsPlain(t) <=> PlainTo(t, N)
    BY <1>1, <1>2, <1>4
  <1> QED BY <1>5, <1>6

(* A directive begins at d: its % is not one of a pair.                    *)
DirectiveAt(t, d) ==
  /\ d \in 1 .. Len(t) /\ t[d] = "%" /\ (d = Len(t) \/ t[d + 1] # "%")
  /\ PlainTo(t, d - 1)

LEMMA OddRun ==
  ASSUME NEW t, Len(t) \in Nat, NEW d, DirectiveAt(t, d), NEW m \in d .. Len(t)
  PROVE  ~PlainTo(t, m)
PROOF
  <1> SUFFICES ASSUME PlainTo(t, m) PROVE FALSE
    OBVIOUS
  <1> DEFINE S == {i \in 1 .. d : \A k \in i .. d : t[k] = "%"}
  <1>1. d \in 1 .. Len(t) /\ t[d] = "%" /\ (d = Len(t) \/ t[d + 1] # "%")
        /\ PlainTo(t, d - 1)
    BY DEF DirectiveAt
  <1>2. PICK a \in S : \A i \in S : a <= i
    <2>1. d \in S /\ S \in SUBSET Nat
      <3>1. \A k \in d .. d : k = d
        BY <1>1
      <3> QED BY <1>1, <3>1
    <2> HIDE DEF S
    <2> QED BY <2>1, LeastNumber
  <1>3. a \in 1 .. d /\ \A k \in a .. d : t[k] = "%"
    BY <1>2
  <1>4. a = 1 \/ t[a - 1] # "%"
    <2> SUFFICES ASSUME a # 1, t[a - 1] = "%" PROVE FALSE
      OBVIOUS
    <2>1. a - 1 \in 1 .. d /\ ~(a <= a - 1)
      BY <1>1, <1>3
    <2>2. \A k \in a - 1 .. d : k = a - 1 \/ k \in a .. d
      BY <1>1, <1>3
    <2>3. a - 1 \in S
      BY <1>3, <2>1, <2>2
    <2> QED BY <1>2, <2>1, <2>3
  <1> HIDE DEF S
  <1>5. (d - a) % 2 = 1
    <2>1. a \in 1 .. m /\ d \in 1 .. m /\ a <= d
      BY <1>1, <1>3
    <2>2. d = m \/ t[d + 1] # "%"
      BY <1>1
    <2> QED BY <1>3, <1>4, <2>1, <2>2 DEF PlainTo
  <1>6. a # d
    BY <1>1, <1>3, <1>5
  <1>7. (d - 1 - a) % 2 = 1
    <2>1. a \in 1 .. d - 1 /\ d - 1 \in 1 .. d - 1 /\ a <= d - 1
      BY <1>1, <1>3, <1>6
    <2>2. \A k \in a .. d - 1 : t[k] = "%"
      BY <1>1, <1>3
    <2> QED BY <1>1, <1>4, <2>1, <2>2 DEF PlainTo
  <1> QED BY <1>1, <1>3, <1>5, <1>7

LEMMA OneDirective ==
  ASSUME NEW t, Len(t) \in Nat, NEW d, NEW e, DirectiveAt(t, d), DirectiveAt(t, e)
  PROVE  d = e
PROOF
  <1>1. d \in 1 .. Len(t) /\ e \in 1 .. Len(t) /\ PlainTo(t, d - 1)
        /\ PlainTo(t, e - 1)
    BY DEF DirectiveAt
  <1>2. ~(d < e)
    <2>1. d < e => e - 1 \in d .. Len(t)
      BY <1>1
    <2> QED BY <1>1, <2>1, OddRun
  <1>3. ~(e < d)
    <2>1. e < d => d - 1 \in e .. Len(t)
      BY <1>1
    <2> QED BY <1>1, <2>1, OddRun
  <1> QED BY <1>1, <1>2, <1>3

(* One step of FirstDirective.                                             *)
FoundFrom(f, t, i) ==
  IF i > Len(t) THEN Len(t) + 1
  ELSE IF t[i] # "%" THEN f[i + 1]
  ELSE IF At(t, i + 1) = "%" THEN f[i + 2] ELSE i

Finds(f, t, m) == f = [i \in m .. Len(t) + 2 |-> FoundFrom(f, t, i)]

LEMMA FindsExist ==
  ASSUME NEW t, Len(t) \in Nat
  PROVE  \E f : Finds(f, t, 1)
PROOF
  <1> DEFINE N == Len(t) + 2
             Wrong == {d \in Nat : d <= N /\ ~ \E f : Finds(f, t, N + 1 - d)}
  <1> SUFFICES ASSUME ~ \E f : Finds(f, t, 1) PROVE FALSE
    OBVIOUS
  <1>0. N \in Nat /\ N + 1 - N = 1
    OBVIOUS
  <1>1. PICK d \in Wrong : \A k \in Wrong : d <= k
    <2>1. Wrong \in SUBSET Nat /\ N \in Wrong
      BY <1>0
    <2> HIDE DEF Wrong, N
    <2> QED BY <2>1, LeastNumber
  <1> DEFINE m == N + 1 - d
  <1>2. d \in Nat /\ d <= N /\ ~ \E f : Finds(f, t, m)
    BY <1>1
  <1>3. d # 0
    <2> SUFFICES ASSUME d = 0 PROVE FALSE
      OBVIOUS
    <2> DEFINE f0 == [i \in {} |-> 0]
    <2>1. m .. Len(t) + 2 = {}
      OBVIOUS
    <2>2. f0 = [i \in {} |-> FoundFrom(f0, t, i)]
      OBVIOUS
    <2> HIDE DEF f0, m
    <2>3. Finds(f0, t, m)
      BY <2>1, <2>2 DEF Finds
    <2> QED BY <1>2, <2>3
  <1>4. d - 1 \in Nat /\ d - 1 \notin Wrong /\ N + 1 - (d - 1) = m + 1 /\ d - 1 <= N
    BY <1>1, <1>2, <1>3
  <1>5. PICK f : Finds(f, t, m + 1)
    BY <1>4
  <1> DEFINE g == [i \in m .. Len(t) + 2 |-> IF i = m THEN FoundFrom(f, t, i) ELSE f[i]]
  <1>6. m \in 1 .. N
    BY <1>0, <1>2, <1>3
  <1> HIDE DEF m
  <1>7. ASSUME NEW i \in m .. Len(t) + 2 PROVE g[i] = FoundFrom(g, t, i)
    <2>1. i <= Len(t) => /\ i + 1 \in m .. Len(t) + 2 /\ i + 1 # m
                         /\ i + 2 \in m .. Len(t) + 2 /\ i + 2 # m
      BY <1>6
    <2>2. i <= Len(t) => g[i + 1] = f[i + 1] /\ g[i + 2] = f[i + 2]
      BY <2>1
    <2>3. g[i] = FoundFrom(f, t, i)
      <3>1. CASE i = m
        BY <3>1
      <3>2. CASE i # m
        <4>1. i \in m + 1 .. Len(t) + 2 /\ g[i] = f[i]
          BY <1>6, <3>2
        <4>2. f[i] = FoundFrom(f, t, i)
          BY <1>5, <4>1, Zenon DEF Finds
        <4> QED BY <4>1, <4>2
      <3> QED BY <3>1, <3>2
    <2>4. i > Len(t) \/ i <= Len(t)
      BY <1>6
    <2> HIDE DEF g
    <2>5. FoundFrom(f, t, i) = FoundFrom(g, t, i)
      BY <2>2, <2>4 DEF FoundFrom
    <2> QED BY <2>3, <2>5
  <1>8. g = [i \in m .. Len(t) + 2 |-> g[i]]
    OBVIOUS
  <1> HIDE DEF g
  <1>9. Finds(g, t, m)
    BY <1>7, <1>8, Zenon DEF Finds
  <1> QED BY <1>2, <1>9 DEF m

LEMMA FirstScan ==
  ASSUME NEW t, Len(t) \in Nat
  PROVE  \E f : /\ \A i \in 1 .. Len(t) + 2 : f[i] = FoundFrom(f, t, i)
                /\ FirstDirective(t) = f[1]
PROOF
  <1> DEFINE F == CHOOSE f : Finds(f, t, 1)
  <1>1. Finds(F, t, 1)
    BY FindsExist
  <1>2. FirstDirective(t) = F[1]
    BY Zenon DEF FirstDirective, Finds, FoundFrom
  <1> HIDE DEF F
  <1>3. \A i \in 1 .. Len(t) + 2 : F[i] = FoundFrom(F, t, i)
    BY <1>1, Zenon DEF Finds
  <1> QED BY <1>2, <1>3

(* A character that is no %, or a pair of %, behind what is plain.         *)
LEMMA PlainGrows ==
  ASSUME NEW t, Len(t) \in Nat, NEW i \in 1 .. Len(t), PlainTo(t, i - 1)
  PROVE  /\ t[i] # "%" => PlainTo(t, i)
         /\ t[i] = "%" /\ i < Len(t) /\ t[i + 1] = "%" => PlainTo(t, i + 1)
PROOF
  <1>1. ASSUME t[i] # "%" PROVE PlainTo(t, i)
    <2> SUFFICES ASSUME NEW a \in 1 .. i, NEW b \in 1 .. i, a <= b,
                        \A k \in a .. b : t[k] = "%",
                        a = 1 \/ t[a - 1] # "%", b = i \/ t[b + 1] # "%"
                 PROVE  (b - a) % 2 = 1
      BY DEF PlainTo
    <2>1. b \in a .. b
      OBVIOUS
    <2>2. b # i
      BY <1>1, <2>1
    <2>3. a \in 1 .. i - 1 /\ b \in 1 .. i - 1
      BY <2>2
    <2>4. b = i - 1 \/ t[b + 1] # "%"
      BY <2>2
    <2> QED BY <2>3, <2>4 DEF PlainTo
  <1>2. ASSUME t[i] = "%", i < Len(t), t[i + 1] = "%" PROVE PlainTo(t, i + 1)
    <2> SUFFICES ASSUME NEW a \in 1 .. i + 1, NEW b \in 1 .. i + 1, a <= b,
                        \A k \in a .. b : t[k] = "%",
                        a = 1 \/ t[a - 1] # "%", b = i + 1 \/ t[b + 1] # "%"
                 PROVE  (b - a) % 2 = 1
      BY DEF PlainTo
    <2>1. CASE b < i
      <3>1. a \in 1 .. i - 1 /\ b \in 1 .. i - 1
        BY <2>1
      <3>2. b = i - 1 \/ t[b + 1] # "%"
        BY <2>1
      <3> QED BY <3>1, <3>2 DEF PlainTo
    <2>2. CASE b = i
      BY <1>2, <2>2
    <2>3. CASE b = i + 1
      <3>1. a # i + 1
        <4> SUFFICES ASSUME a = i + 1 PROVE FALSE
          OBVIOUS
        <4>1. a # 1 /\ a - 1 = i
          OBVIOUS
        <4> QED BY <1>2, <4>1
      <3>2. CASE a = i
        BY <2>3, <3>2
      <3>3. CASE a < i
        <4>1. a \in 1 .. i - 1 /\ i - 1 \in 1 .. i - 1 /\ a <= i - 1
          BY <3>3
        <4>2. \A k \in a .. i - 1 : t[k] = "%"
          BY <2>3
        <4>3. (i - 1 - a) % 2 = 1
          BY <4>1, <4>2 DEF PlainTo
        <4> QED BY <2>3, <4>1, <4>3
      <3> QED BY <3>1, <3>2, <3>3
    <2> QED BY <2>1, <2>2, <2>3
  <1> QED BY <1>1, <1>2

FirstFound(t, d) ==
  DirectiveAt(t, d) \/ (d = Len(t) + 1 /\ PlainTo(t, Len(t)))

LEMMA FirstIs ==
  ASSUME NEW t, Len(t) \in Nat, DOMAIN t = 1 .. Len(t)
  PROVE  FirstFound(t, FirstDirective(t))
PROOF
  <1> DEFINE N == Len(t)
  <1>1. PICK f : /\ \A i \in 1 .. N + 2 : f[i] = FoundFrom(f, t, i)
                 /\ FirstDirective(t) = f[1]
    BY FirstScan
  <1> DEFINE Wrong == {e \in 0 .. N : /\ PlainTo(t, N - e)
                                      /\ ~FirstFound(t, f[N + 1 - e])}
  <1>2. N \in Nat
    OBVIOUS
  <1>3. Wrong = {}
    <2> SUFFICES ASSUME Wrong # {} PROVE FALSE
      OBVIOUS
    <2>1. PICK e \in Wrong : \A k \in Wrong : e <= k
      <3>1. Wrong \in SUBSET Nat
        BY <1>2
      <3> HIDE DEF Wrong
      <3> QED BY <3>1, LeastNumber
    <2> DEFINE i == N + 1 - e
    <2>2. e \in 0 .. N /\ PlainTo(t, N - e) /\ ~FirstFound(t, f[i])
      BY <2>1
    <2>3. i \in 1 .. N + 1 /\ N - e = i - 1 /\ i \in 1 .. N + 2 /\ e = N + 1 - i
      BY <1>2, <2>2
    <2>4. ASSUME NEW q \in i + 1 .. N + 1, PlainTo(t, q - 1)
          PROVE  FirstFound(t, f[q])
      <3>1. N + 1 - q \in 0 .. N /\ ~(e <= N + 1 - q)
        BY <1>2, <2>3
      <3>2. N - (N + 1 - q) = q - 1 /\ N + 1 - (N + 1 - q) = q
        BY <1>2
      <3>3. N + 1 - q \notin Wrong
        BY <2>1, <3>1
      <3> QED BY <2>4, <3>1, <3>2, <3>3
    <2>5. f[i] = FoundFrom(f, t, i)
      BY <1>1, <2>3
    <2> HIDE DEF i, N, Wrong
    <2>6. PlainTo(t, i - 1)
      BY <2>2, <2>3
    <2>7. CASE i = N + 1
      <3>1. f[i] = N + 1 /\ i - 1 = N
        BY <1>2, <2>3, <2>5, <2>7 DEF FoundFrom, N
      <3> QED BY <2>2, <2>6, <3>1 DEF FirstFound, N
    <2>8. CASE i # N + 1
      <3>1. i \in 1 .. N /\ ~(i > N)
        BY <1>2, <2>3, <2>8
      <3>2. f[i] = IF t[i] # "%" THEN f[i + 1]
                   ELSE IF At(t, i + 1) = "%" THEN f[i + 2] ELSE i
        BY <2>5, <3>1 DEF FoundFrom, N
      <3>3. At(t, i + 1) = "%" <=> i < N /\ t[i + 1] = "%"
        <4>1. i + 1 \in 1 .. N <=> i < N
          BY <1>2, <3>1
        <4> QED BY <4>1 DEF At, N
      <3>4. CASE t[i] # "%"
        <4>1. i + 1 \in i + 1 .. N + 1 /\ i + 1 - 1 = i
          BY <1>2, <3>1
        <4>2. PlainTo(t, i)
          BY <1>2, <2>6, <3>1, <3>4, PlainGrows DEF N
        <4>3. FirstFound(t, f[i + 1])
          <5> DEFINE q == i + 1
          <5>0. q \in i + 1 .. N + 1 /\ q - 1 = i
            BY <1>2, <3>1, <4>1
          <5> HIDE DEF q
          <5>1. q \in i + 1 .. N + 1 /\ PlainTo(t, q - 1)
            BY <4>2, <5>0, Zenon
          <5>2. FirstFound(t, f[q])
            BY <2>4, <5>1
          <5> QED BY <5>2 DEF q
        <4>4. f[i] = f[i + 1]
          BY <3>2, <3>4
        <4> QED BY <2>2, <4>3, <4>4
      <3>5. CASE t[i] = "%" /\ i < N /\ t[i + 1] = "%"
        <4>1. i + 2 \in i + 1 .. N + 1 /\ i + 2 - 1 = i + 1
          BY <1>2, <3>1, <3>5
        <4>2. PlainTo(t, i + 1)
          BY <1>2, <2>6, <3>1, <3>5, PlainGrows DEF N
        <4>3. FirstFound(t, f[i + 2])
          <5> DEFINE q == i + 2
          <5>0. q \in i + 1 .. N + 1 /\ q - 1 = i + 1
            BY <1>2, <3>1, <4>1
          <5> HIDE DEF q
          <5>1. q \in i + 1 .. N + 1 /\ PlainTo(t, q - 1)
            BY <4>2, <5>0, Zenon
          <5>2. FirstFound(t, f[q])
            BY <2>4, <5>1
          <5> QED BY <5>2 DEF q
        <4>4. f[i] = f[i + 2]
          BY <3>2, <3>3, <3>5
        <4> QED BY <2>2, <4>3, <4>4
      <3>6. CASE t[i] = "%" /\ ~(i < N /\ t[i + 1] = "%")
        <4>1. f[i] = i
          BY <3>2, <3>3, <3>6
        <4>2. i = N \/ t[i + 1] # "%"
          BY <1>2, <3>1, <3>6
        <4> QED BY <2>2, <2>6, <3>1, <3>6, <4>1, <4>2 DEF FirstFound, DirectiveAt, N
      <3> QED BY <3>4, <3>5, <3>6
    <2> QED BY <2>7, <2>8
  <1>4. PlainTo(t, 0)
    BY DEF PlainTo
  <1>5. N \in 0 .. N /\ N - N = 0 /\ N + 1 - N = 1 /\ N \notin Wrong
    BY <1>2, <1>3
  <1> QED BY <1>1, <1>4, <1>5

LEMMA NoneIsPlain ==
  ASSUME NEW t, Len(t) \in Nat, DOMAIN t = 1 .. Len(t)
  PROVE  /\ FirstDirective(t) <= Len(t) <=> ~PlainTo(t, Len(t))
         /\ FirstDirective(t) > Len(t) <=> PlainTo(t, Len(t))
         /\ ~PlainTo(t, Len(t)) => DirectiveAt(t, FirstDirective(t))
PROOF
  <1>1. FirstFound(t, FirstDirective(t))
    BY FirstIs
  <1>2. CASE DirectiveAt(t, FirstDirective(t))
    <2>1. FirstDirective(t) \in 1 .. Len(t)
      BY <1>2 DEF DirectiveAt
    <2>2. Len(t) \in FirstDirective(t) .. Len(t)
      BY <2>1
    <2>3. ~PlainTo(t, Len(t))
      BY <1>2, <2>2, OddRun
    <2> QED BY <1>2, <2>1, <2>3
  <1>3. CASE FirstDirective(t) = Len(t) + 1 /\ PlainTo(t, Len(t))
    BY <1>3
  <1> QED BY <1>1, <1>2, <1>3 DEF FirstFound

(* A directive from i to k: %, flags to f, digits to w, maybe a point and  *)
(* digits, a type.                                                         *)
Parts(s, i, k, f, w) ==
  /\ \A q \in i + 1 .. f : s[q] \in Flags
  /\ \A q \in f + 1 .. w : s[q] \in Number
  /\ \A q \in w + 2 .. k - 1 : s[q] \in Number
  /\ w < k - 1 => s[w + 1] = "."

Shape(s, i, k) ==
  /\ s[i] = "%" /\ s[k] \in TypeChars
  /\ \E f \in i .. k - 1 : \E w \in f .. k - 1 : Parts(s, i, k, f, w)

RunOf(v, a, b, S) == \A q \in a .. b : v[q] \in S

(* What s has from i to k stands in u d places before.                     *)
Moved(s, u, d, i, k) ==
  d \in Int /\ i \in Int /\ k \in Int /\ \A q \in i .. k : s[q] = u[q - d]

LEMMA RunMoves ==
  ASSUME NEW s, NEW u, NEW d, NEW i, NEW k, Moved(s, u, d, i, k),
         NEW a \in Int, NEW b \in Int, i <= a, b <= k, NEW S,
         NEW x, x = a - d, NEW y, y = b - d
  PROVE  RunOf(s, a, b, S) <=> RunOf(u, x, y, S)
PROOF
  <1>0. d \in Int /\ i \in Int /\ k \in Int /\ \A q \in i .. k : s[q] = u[q - d]
    BY DEF Moved
  <1>1. ASSUME \A q \in a .. b : s[q] \in S, NEW q \in a - d .. b - d
        PROVE  u[q] \in S
    <2>1. q + d \in a .. b /\ q + d \in i .. k /\ q + d - d = q
      BY <1>0
    <2>2. s[q + d] = u[q + d - d]
      BY <1>0, <2>1
    <2> QED BY <1>1, <2>1, <2>2
  <1>2. ASSUME \A q \in a - d .. b - d : u[q] \in S, NEW q \in a .. b
        PROVE  s[q] \in S
    <2>1. q - d \in a - d .. b - d /\ q \in i .. k
      BY <1>0
    <2> QED BY <1>0, <1>2, <2>1
  <1> QED BY <1>1, <1>2 DEF RunOf

LEMMA PartsMove ==
  ASSUME NEW s, NEW u, NEW i \in Nat, NEW k \in Nat, i < k,
         \A q \in 1 .. k - i + 1 : u[q] = s[i + q - 1],
         NEW f \in i .. k - 1, NEW w \in f .. k - 1
  PROVE  Parts(s, i, k, f, w) <=> Parts(u, 1, k - i + 1, f - i + 1, w - i + 1)
PROOF
  <1> DEFINE d == i - 1
  <1>1. d \in Int /\ \A q \in i .. k : q - d \in 1 .. k - i + 1 /\ s[q] = u[q - d]
    <2> SUFFICES ASSUME NEW q \in i .. k
                 PROVE  q - d \in 1 .. k - i + 1 /\ s[q] = u[q - d]
      OBVIOUS
    <2>1. q - d \in 1 .. k - i + 1 /\ i + (q - d) - 1 = q
      OBVIOUS
    <2> HIDE DEF d
    <2>2. u[q - d] = s[i + (q - d) - 1]
      BY <2>1
    <2> QED BY <2>1, <2>2
  <1>2. /\ i \in Int /\ k \in Int /\ d \in Int
        /\ i + 1 \in Int /\ f \in Int /\ i <= i + 1 /\ f <= k
        /\ f + 1 \in Int /\ w \in Int /\ i <= f + 1 /\ w <= k
        /\ w + 2 \in Int /\ k - 1 \in Int /\ i <= w + 2 /\ k - 1 <= k
    OBVIOUS
  <1> HIDE DEF d
  <1>9. Moved(s, u, d, i, k)
    BY <1>1, <1>2 DEF Moved
  <1>3. (\A q \in i + 1 .. f : s[q] \in Flags)
        <=> \A q \in i + 1 - d .. f - d : u[q] \in Flags
    <2>1. RunOf(s, i + 1, f, Flags) <=> RunOf(u, i + 1 - d, f - d, Flags)
      BY <1>2, <1>9, RunMoves
    <2> QED BY <2>1, Zenon DEF RunOf
  <1>4. (\A q \in f + 1 .. w : s[q] \in Number)
        <=> \A q \in f + 1 - d .. w - d : u[q] \in Number
    <2>1. RunOf(s, f + 1, w, Number) <=> RunOf(u, f + 1 - d, w - d, Number)
      BY <1>2, <1>9, RunMoves
    <2> QED BY <2>1, Zenon DEF RunOf
  <1>5. (\A q \in w + 2 .. k - 1 : s[q] \in Number)
        <=> \A q \in w + 2 - d .. k - 1 - d : u[q] \in Number
    <2>1. RunOf(s, w + 2, k - 1, Number) <=> RunOf(u, w + 2 - d, k - 1 - d, Number)
      BY <1>2, <1>9, RunMoves
    <2> QED BY <2>1, Zenon DEF RunOf
  <1>6. s[w + 1] = u[w + 1 - d]
    <2>1. w + 1 \in i .. k
      OBVIOUS
    <2> HIDE DEF d
    <2> QED BY <1>1, <2>1
  <1>7. /\ i + 1 - d = 1 + 1 /\ f - d = f - i + 1 /\ f + 1 - d = f - i + 1 + 1
        /\ w - d = w - i + 1 /\ w + 2 - d = w - i + 1 + 2
        /\ k - 1 - d = k - i + 1 - 1 /\ w + 1 - d = w - i + 1 + 1
        /\ (w < k - 1 <=> w - i + 1 < k - i + 1 - 1)
    BY DEF d
  <1> QED BY <1>3, <1>4, <1>5, <1>6, <1>7 DEF Parts

LEMMA ShapeIs ==
  ASSUME NEW C, NEW s \in Seq(C), NEW i \in 1 .. Len(s), NEW k \in 1 .. Len(s), i < k
  PROVE  IsDirective(SubSeq(s, i, k)) <=> Shape(s, i, k)
PROOF
  <1> DEFINE u == SubSeq(s, i, k)
             n == k - i + 1
  <1>1. Len(u) = n /\ n \in Nat /\ n >= 2 /\ \A q \in 1 .. n : u[q] = s[i + q - 1]
    OBVIOUS
  <1>2. u[1] = s[i] /\ u[n] = s[k]
    <2>1. 1 \in 1 .. n /\ n \in 1 .. n /\ i + 1 - 1 = i /\ i + n - 1 = k
      OBVIOUS
    <2> HIDE DEF u, n
    <2> QED BY <1>1, <2>1
  <1>3. ASSUME NEW f \in i .. k - 1, NEW w \in f .. k - 1
        PROVE  Parts(s, i, k, f, w) <=> Parts(u, 1, n, f - i + 1, w - i + 1)
    <2>1. i \in Nat /\ k \in Nat /\ i < k
      OBVIOUS
    <2> HIDE DEF u
    <2> QED BY <1>1, <2>1, PartsMove
  <1>4. IsDirective(u) <=> /\ s[i] = "%" /\ s[k] \in TypeChars
                           /\ \E f \in 1 .. n - 1 : \E w \in f .. n - 1 : Parts(u, 1, n, f, w)
    <2> HIDE DEF u, n
    <2>1. Len(u) = n /\ n >= 2
      BY <1>1
    <2>2. IsDirective(u) <=> /\ u[1] = "%" /\ u[n] \in TypeChars
                             /\ \E f \in 1 .. n - 1 : \E w \in f .. n - 1 : Parts(u, 1, n, f, w)
      <3>1. 1 + 1 = 2
        OBVIOUS
      <3> QED BY <2>1, <3>1, Zenon DEF IsDirective, Parts
    <2> QED BY <1>2, <2>2
  <1>5. (\E f \in i .. k - 1 : \E w \in f .. k - 1 : Parts(s, i, k, f, w))
        <=> \E f \in 1 .. n - 1 : \E w \in f .. n - 1 : Parts(u, 1, n, f, w)
    <2>1. ASSUME NEW f \in i .. k - 1, NEW w \in f .. k - 1, Parts(s, i, k, f, w)
          PROVE  \E g \in 1 .. n - 1 : \E v \in g .. n - 1 : Parts(u, 1, n, g, v)
      <3>1. f - i + 1 \in 1 .. n - 1 /\ w - i + 1 \in f - i + 1 .. n - 1
        OBVIOUS
      <3> HIDE DEF u, n
      <3> QED BY <1>3, <2>1, <3>1
    <2>2. ASSUME NEW g \in 1 .. n - 1, NEW v \in g .. n - 1, Parts(u, 1, n, g, v)
          PROVE  \E f \in i .. k - 1 : \E w \in f .. k - 1 : Parts(s, i, k, f, w)
      <3> DEFINE f == g + i - 1
                 w == v + i - 1
      <3>1. f \in i .. k - 1 /\ w \in f .. k - 1 /\ f - i + 1 = g /\ w - i + 1 = v
        OBVIOUS
      <3> HIDE DEF u, n, f, w
      <3>2. Parts(s, i, k, f, w)
        BY <1>3, <2>2, <3>1
      <3> QED BY <3>1, <3>2
    <2> HIDE DEF u, n
    <2> QED BY <2>1, <2>2
  <1> HIDE DEF u, n
  <1> QED BY <1>4, <1>5 DEF Shape, u

LEMMA ShapeType ==
  ASSUME NEW s, Len(s) \in Nat, DOMAIN s = 1 .. Len(s), NEW i \in 1 .. Len(s),
         NEW k \in 1 .. Len(s), i < k, Shape(s, i, k)
  PROVE  /\ TypeAt(s, i) = k /\ At(s, k) \in TypeChars
         /\ s[i] = "%" /\ s[i + 1] # "%"
PROOF
  <1>0. PICK f \in i .. k - 1 : \E w \in f .. k - 1 : Parts(s, i, k, f, w)
    BY DEF Shape
  <1>1. PICK w \in f .. k - 1 : Parts(s, i, k, f, w)
    BY <1>0
  <1>2. s[i] = "%" /\ s[k] \in TypeChars /\ At(s, k) = s[k]
    BY DEF Shape, At
  <1>3. /\ \A q \in i + 1 .. f : s[q] \in Flags
        /\ \A q \in f + 1 .. w : s[q] \in Number
        /\ \A q \in w + 2 .. k - 1 : s[q] \in Number
        /\ w < k - 1 => s[w + 1] = "."
    BY <1>1, Zenon DEF Parts
  <1>4. w + 1 = k \/ (w + 1 < k /\ s[w + 1] = ".")
    BY <1>3
  <1>5. s[w + 1] \notin Flags /\ s[w + 1] \notin Number /\ s[w + 1] # "%"
    <2>1. s[w + 1] \in TypeChars \/ s[w + 1] = "."
      BY <1>2, <1>4
    <2> QED BY <2>1 DEF TypeChars, Flags, Number
  <1>6. s[k] \notin Number /\ s[k] # "."
    BY <1>2 DEF TypeChars, Number
  <1>7. s[i + 1] # "%"
    <2>1. CASE i + 1 <= f
      <3>1. s[i + 1] \in Flags
        BY <1>3, <2>1
      <3> QED BY <3>1 DEF Flags
    <2>2. CASE f = i /\ i + 1 <= w
      <3>1. s[i + 1] \in Number
        BY <1>3, <2>2
      <3> QED BY <3>1 DEF Number
    <2>3. CASE w = i
      BY <1>5, <2>3
    <2> QED BY <2>1, <2>2, <2>3
  <1> DEFINE a == SkipSpan(s, i + 1, Flags)
  <1>8. /\ a \in i + 1 .. Len(s) + 1 /\ (a = Len(s) + 1 \/ s[a] \notin Flags)
        /\ \A q \in i + 1 .. a - 1 : s[q] \in Flags
    <2>1. i + 1 \in 1 .. Len(s) + 1
      OBVIOUS
    <2> QED BY <2>1, SpanIs
  <1> HIDE DEF a
  <1>9. a \in f + 1 .. w + 1
    <2>1. ~(a <= f)
      <3>1. a <= f => a \in i + 1 .. f /\ a # Len(s) + 1
        BY <1>8
      <3> QED BY <1>3, <1>8, <3>1
    <2>2. ~(a > w + 1)
      <3>1. a > w + 1 => w + 1 \in i + 1 .. a - 1
        BY <1>8
      <3> QED BY <1>5, <1>8, <3>1
    <2> QED BY <1>8, <2>1, <2>2
  <1>10. SkipSpan(s, a, Number) = w + 1
    <2>1. a \in 1 .. Len(s) + 1 /\ w + 1 \in a .. Len(s) + 1
      BY <1>8, <1>9
    <2>2. \A q \in a .. w + 1 - 1 : s[q] \in Number
      BY <1>3, <1>9
    <2> QED BY <1>5, <2>1, <2>2, SpanEnds
  <1>11. At(s, w + 1) = s[w + 1]
    <2>1. w + 1 \in 1 .. Len(s)
      OBVIOUS
    <2> QED BY <2>1 DEF At
  <1>12. TypeAt(s, i) = IF s[w + 1] = "." THEN SkipSpan(s, w + 1 + 1, Number) ELSE w + 1
    BY <1>10, <1>11 DEF TypeAt, a
  <1>13. TypeAt(s, i) = k
    <2>1. CASE w + 1 = k
      BY <1>6, <1>12, <2>1
    <2>2. CASE w + 1 < k /\ s[w + 1] = "."
      <3>1. w + 1 + 1 \in 1 .. Len(s) + 1 /\ k \in w + 1 + 1 .. Len(s) + 1
        BY <2>2
      <3>2. \A q \in w + 1 + 1 .. k - 1 : s[q] \in Number
        BY <1>3
      <3>3. SkipSpan(s, w + 1 + 1, Number) = k
        BY <1>6, <3>1, <3>2, SpanEnds
      <3> QED BY <1>12, <2>2, <3>3
    <2> QED BY <1>4, <2>1, <2>2
  <1> QED BY <1>2, <1>7, <1>13

LEMMA TypeShape ==
  ASSUME NEW s, Len(s) \in Nat, DOMAIN s = 1 .. Len(s), NEW i \in 1 .. Len(s),
         s[i] = "%", NEW k, k = TypeAt(s, i), At(s, k) \in TypeChars
  PROVE  k \in 1 .. Len(s) /\ i < k /\ Shape(s, i, k)
PROOF
  <1> DEFINE a == SkipSpan(s, i + 1, Flags)
             b == SkipSpan(s, a, Number)
  <1>1. /\ a \in i + 1 .. Len(s) + 1
        /\ \A q \in i + 1 .. a - 1 : s[q] \in Flags
    <2>1. i + 1 \in 1 .. Len(s) + 1
      OBVIOUS
    <2> QED BY <2>1, SpanIs
  <1> HIDE DEF a
  <1>2. /\ b \in a .. Len(s) + 1
        /\ \A q \in a .. b - 1 : s[q] \in Number
    <2>1. a \in 1 .. Len(s) + 1
      BY <1>1
    <2> QED BY <2>1, SpanIs
  <1> HIDE DEF b
  <1>3. k = IF At(s, b) = "." THEN SkipSpan(s, b + 1, Number) ELSE b
    BY Zenon DEF TypeAt, a, b
  <1>4. k \in 1 .. Len(s) /\ s[k] \in TypeChars
    BY DEF At, TypeChars
  <1>5. /\ b <= k
        /\ b < k => s[b] = "."
        /\ \A q \in b + 1 .. k - 1 : s[q] \in Number
    <2>1. CASE At(s, b) = "."
      <3>1. b \in 1 .. Len(s) /\ s[b] = "."
        BY <2>1 DEF At
      <3>2. b + 1 \in 1 .. Len(s) + 1 /\ k = SkipSpan(s, b + 1, Number)
        BY <1>3, <2>1, <3>1
      <3>3. k \in b + 1 .. Len(s) + 1 /\ \A q \in b + 1 .. k - 1 : s[q] \in Number
        BY <3>2, SpanIs
      <3> QED BY <3>1, <3>3
    <2>2. CASE At(s, b) # "."
      BY <1>2, <1>3, <2>2
    <2> QED BY <2>1, <2>2
  <1>6. a - 1 \in i .. k - 1 /\ b - 1 \in a - 1 .. k - 1
    BY <1>1, <1>2, <1>4, <1>5
  <1>7. Parts(s, i, k, a - 1, b - 1)
    <2>1. /\ a - 1 + 1 = a /\ b - 1 + 2 = b + 1 /\ b - 1 + 1 = b
          /\ (b - 1 < k - 1 <=> b < k)
      BY <1>1, <1>2, <1>4
    <2> QED BY <1>1, <1>2, <1>5, <2>1 DEF Parts
  <1>8. i < k
    BY <1>1, <1>2, <1>4, <1>5
  <1> QED BY <1>4, <1>6, <1>7, <1>8 DEF Shape

(* validate_double_format accepts a text, of any characters, exactly if it *)
(* is one directive for a long double between text in which every % is one *)
(* of a pair, with room for it, the L and the NUL in the array, however    *)
(* long the array is; and it only adds the L (double-format.c).            *)
THEOREM AnyFormatRight ==
  ASSUME NEW C, NEW s \in Seq(C)
  PROVE  FormatRight(s)
PROOF
  <1> DEFINE N == Len(s)
             D == FirstDirective(s)
             K == TypeAt(s, D)
             P == {p \in (DOMAIN s) \X (DOMAIN s) :
                     /\ p[1] < p[2] /\ IsDirective(SubSeq(s, p[1], p[2]))
                     /\ IsPlain(SubSeq(s, 1, p[1] - 1))
                     /\ IsPlain(From(s, p[2] + 1))}
             Taken == /\ ~(D > N) /\ At(s, K) \in TypeChars
                         /\ ~(FirstDirective(From(s, K + 1)) <= N - K)
  <1>1. N \in Nat /\ Len(s) \in Nat /\ DOMAIN s = 1 .. N /\ DOMAIN s = 1 .. Len(s)
    OBVIOUS
  <1>2. ASSUME NEW k \in 1 .. N
        PROVE  IsPlain(From(s, k + 1)) <=> ~(FirstDirective(From(s, k + 1)) <= N - k)
    <2> DEFINE r == From(s, k + 1)
    <2>1. r \in Seq(C) /\ Len(r) = N - k /\ Len(r) \in Nat /\ DOMAIN r = 1 .. Len(r)
      BY DEF From
    <2> HIDE DEF r, N
    <2>2. IsPlain(r) <=> PlainTo(r, Len(r))
      <3>1. 0 \in 0 .. Len(r)
        BY <2>1
      <3> QED BY <2>1, <3>1, PlainIs
    <2>3. FirstDirective(r) <= Len(r) <=> ~PlainTo(r, Len(r))
      BY <2>1, NoneIsPlain
    <2> QED BY <2>1, <2>2, <2>3 DEF r
  <1>3. ASSUME NEW i \in 1 .. N, NEW k \in 1 .. N, i < k
        PROVE  /\ IsDirective(SubSeq(s, i, k)) <=> Shape(s, i, k)
               /\ IsPlain(SubSeq(s, 1, i - 1)) <=> PlainTo(s, i - 1)
    <2>1. i - 1 \in 0 .. Len(s)
      OBVIOUS
    <2>2. IsPlain(SubSeq(s, 1, i - 1)) <=> PlainTo(s, i - 1)
      BY <2>1, PlainIs
    <2>3. IsDirective(SubSeq(s, i, k)) <=> Shape(s, i, k)
      BY <1>3, ShapeIs
    <2> QED BY <2>2, <2>3
  <1> HIDE DEF D, K
  <1>4. ASSUME NEW p \in P PROVE p[1] = D /\ p[2] = K /\ Taken
    <2> DEFINE i == p[1]
               k == p[2]
    <2>1. /\ i \in 1 .. N /\ k \in 1 .. N /\ i < k
          /\ IsDirective(SubSeq(s, i, k)) /\ IsPlain(SubSeq(s, 1, i - 1))
          /\ IsPlain(From(s, k + 1))
      BY <1>1
    <2> HIDE DEF i, k, P
    <2>2. Shape(s, i, k) /\ PlainTo(s, i - 1)
      BY <1>3, <2>1
    <2>3. TypeAt(s, i) = k /\ At(s, k) \in TypeChars /\ s[i] = "%" /\ s[i + 1] # "%"
      BY <1>1, <2>1, <2>2, ShapeType
    <2>4. DirectiveAt(s, i)
      BY <2>1, <2>2, <2>3 DEF DirectiveAt
    <2>5. ~PlainTo(s, N)
      <3>1. N \in i .. N
        BY <1>1, <2>1
      <3> QED BY <1>1, <2>4, <3>1, OddRun
    <2>6. DirectiveAt(s, D) /\ ~(D > N)
      BY <1>1, <2>5, NoneIsPlain DEF D
    <2>7. i = D
      BY <1>1, <2>4, <2>6, OneDirective
    <2>8. k = K
      BY <2>3, <2>7 DEF K
    <2>9. ~(FirstDirective(From(s, k + 1)) <= N - k)
      BY <1>2, <2>1
    <2> HIDE DEF N
    <2>10. Taken
      BY <2>3, <2>6, <2>8, <2>9
    <2> QED BY <2>7, <2>8, <2>10 DEF i, k
  <1>5. ASSUME Taken PROVE <<D, K>> \in P
    <2>1. ~PlainTo(s, N) /\ DirectiveAt(s, D)
      BY <1>1, <1>5, NoneIsPlain DEF D
    <2>2. D \in 1 .. N /\ s[D] = "%" /\ PlainTo(s, D - 1)
      BY <2>1 DEF DirectiveAt
    <2>3. K \in 1 .. N /\ D < K /\ Shape(s, D, K)
      BY <1>1, <1>5, <2>2, TypeShape DEF K
    <2>4. IsDirective(SubSeq(s, D, K)) /\ IsPlain(SubSeq(s, 1, D - 1))
      BY <1>3, <2>2, <2>3
    <2>5. IsPlain(From(s, K + 1))
      BY <1>2, <1>5, <2>3
    <2> QED BY <1>1, <2>2, <2>3, <2>4, <2>5
  <1>6. validate_double_format(s) =
          IF HasRoomFor(s) /\ Taken THEN SubSeq(s, 1, K - 1) \o <<"L">> \o From(s, K) ELSE RefusedFormat
    <2>1. HasRoomFor(s) <=> ~(Len(s) > MAX_NUMERIC_FORMAT_LEN - 1)
      BY <1>1, FormatAssumption DEF HasRoomFor
    <2> QED BY <2>1 DEF validate_double_format, D, K
  <1>7. FormatRight(s) <=>
          validate_double_format(s) =
            IF P = {} \/ ~HasRoomFor(s) THEN RefusedFormat
            ELSE LET k == (CHOOSE p \in P : TRUE)[2]
                 IN  SubSeq(s, 1, k - 1) \o <<"L">> \o From(s, k)
    BY Zenon DEF FormatRight
  <1> HIDE DEF P, Taken
  <1>8. CASE P = {}
    <2>1. ~Taken
      BY <1>5, <1>8
    <2> QED BY <1>6, <1>7, <1>8, <2>1
  <1>9. CASE P # {}
    <2>1. (CHOOSE p \in P : TRUE) \in P
      BY <1>9
    <2>2. (CHOOSE p \in P : TRUE)[2] = K /\ Taken
      BY <1>4, <2>1
    <2> QED BY <1>6, <1>7, <1>9, <2>2
  <1> QED BY <1>8, <1>9

-----------------------------------------------------------------------------
(* The calls of MCUtils.                                                   *)

ExtensionChars == {"g", "z", "x", ".", "-"}
FormatChars    == {"%", "5", ".", "f", "-"}

CallIs ==
  /\ fn = "options" => OptionsValid(arg[1]) /\ arg[2] \in OperationsType
  /\ fn = "extension" => arg \in Seq(ExtensionChars)
  /\ fn = "format" => arg \in Seq(FormatChars)

LEMMA TextsAre ==
  ASSUME NEW C, NEW n, NEW s \in Texts(C, n)
  PROVE  s \in Seq(C)
PROOF
  <1>1. PICK k \in 0 .. n : s \in [1 .. k -> C]
    BY DEF Texts
  <1>2. k \in Nat
    OBVIOUS
  <1> QED BY <1>1, <1>2

LEMMA OptionsAre ==
  ASSUME NEW os \in Seq(MCOptions)
  PROVE  OptionsValid(os)
PROOF
  <1>1. os \in Seq(Range(os))
    BY DEF Range
  <1>2. ASSUME NEW o \in MCOptions
        PROVE  o.name \in OptionNames /\ (Len(o.arg) = 1 => o.arg[1] # Nothing)
    <2>1. /\ Len(<< >>) # 1 /\ Len(<<" ", " ">>) # 1 /\ Len(<<":", ":">>) # 1
          /\ Len(<<"%", "f">>) # 1
          /\ <<" ">>[1] = " " /\ <<":">>[1] = ":" /\ <<"-">>[1] = "-"
          /\ <<"x">>[1] = "x" /\ <<";">>[1] = ";"
      OBVIOUS
    <2> DEFINE Names == {"skip-comments", "full", "group", "ignore-case", "vnlog",
                         "zero-terminated", "header-in", "header-out", "headers",
                         "sort", "no-strict", "narm", "whitespace", "seed"}
    <2>6. \/ o \in {Plain(n) : n \in Names}
          \/ o \in {With("field-separator", s) : s \in {<<" ">>, <<":">>, << >>}}
          \/ o \in {With("output-delimiter", s) : s \in {<<" ">>, <<":", ":">>}}
          \/ o \in {With("filler", s) : s \in {<<"-">>, <<"x">>}}
          \/ o \in {Numbered("round", 2), Numbered("round", 51), Numbered("S", -1),
                    Numbered("S", 3), With("collapse-delimiter", <<";">>),
                    With("format", <<"%", "f">>)}
      BY Zenon DEF MCOptions
    <2>7. /\ Names \subseteq OptionNames
          /\ {"field-separator", "output-delimiter", "filler", "round", "S",
             "collapse-delimiter", "format"} \subseteq OptionNames
      BY DEF OptionNames
    <2> HIDE DEF Names
    <2>2. \/ \E n \in OptionNames : o = Plain(n)
          \/ \E n \in OptionNames, k \in Int : o = Numbered(n, k)
          \/ \E n \in OptionNames :
               \E s \in {<<" ">>, <<":">>, << >>, <<":", ":">>, <<"-">>, <<"x">>,
                        <<";">>, <<"%", "f">>} : o = With(n, s)
      <3>1. ASSUME o \in {Plain(n) : n \in Names}
            PROVE  \E n \in OptionNames : o = Plain(n)
        BY <2>7, <3>1
      <3>2. ASSUME o \in {Numbered("round", 2), Numbered("round", 51), Numbered("S", -1),
                         Numbered("S", 3)}
            PROVE  \E n \in OptionNames, k \in Int : o = Numbered(n, k)
        BY <2>7, <3>2
      <3>3. ASSUME \/ o \in {With("field-separator", s) : s \in {<<" ">>, <<":">>, << >>}}
                   \/ o \in {With("output-delimiter", s) : s \in {<<" ">>, <<":", ":">>}}
                   \/ o \in {With("filler", s) : s \in {<<"-">>, <<"x">>}}
                   \/ o = With("collapse-delimiter", <<";">>)
                   \/ o = With("format", <<"%", "f">>)
            PROVE  \E n \in OptionNames :
                     \E s \in {<<" ">>, <<":">>, << >>, <<":", ":">>, <<"-">>, <<"x">>,
                              <<";">>, <<"%", "f">>} : o = With(n, s)
        BY <2>7, <3>3
      <3> QED BY <2>6, <3>1, <3>2, <3>3
    <2>3. CASE \E n \in OptionNames : o = Plain(n)
      BY <2>1, <2>3 DEF Plain, With
    <2>4. CASE \E n \in OptionNames, k \in Int : o = Numbered(n, k)
      BY <2>1, <2>4 DEF Numbered
    <2>5. ASSUME NEW n \in OptionNames,
                 NEW s \in {<<" ">>, <<":">>, << >>, <<":", ":">>, <<"-">>, <<"x">>,
                           <<";">>, <<"%", "f">>},
                 o = With(n, s)
          PROVE  o.name \in OptionNames /\ (Len(o.arg) = 1 => o.arg[1] # Nothing)
      <3>1. o.name = n /\ o.arg = s
        BY <2>5 DEF With
      <3>2. Len(s) = 1 => s[1] # Nothing
        BY <2>1 DEF Nothing
      <3> QED BY <3>1, <3>2
    <2> QED BY <2>2, <2>3, <2>4, <2>5
  <1>3. \A i \in DOMAIN os : os[i] \in MCOptions
    OBVIOUS
  <1> HIDE DEF MCOptions
  <1> QED BY <1>1, <1>2, <1>3 DEF OptionsValid

LEMMA OperationsAre ==
  MCOperations \subseteq OperationsType
PROOF
  <1> SUFFICES ASSUME NEW o \in MCOperations PROVE o \in OperationsType
    OBVIOUS
  <1>1. \/ \E h \in BOOLEAN, n \in 0 .. 1 :
             o = [present |-> TRUE, header_required |-> h, num_grps |-> n]
        \/ o = [present |-> FALSE, header_required |-> FALSE, num_grps |-> 0]
    BY DEF MCOperations
  <1>2. ASSUME NEW h \in BOOLEAN, NEW b \in BOOLEAN, NEW n \in Nat,
               o = [present |-> b, header_required |-> h, num_grps |-> n]
        PROVE  o \in OperationsType
    BY <1>2 DEF OperationsType
  <1>3. \E h \in BOOLEAN, b \in BOOLEAN, n \in Nat :
          o = [present |-> b, header_required |-> h, num_grps |-> n]
    <2>1. TRUE \in BOOLEAN /\ FALSE \in BOOLEAN /\ 0 \in Nat /\ \A n \in 0 .. 1 : n \in Nat
      OBVIOUS
    <2> QED BY <1>1, <2>1, Zenon
  <1> QED BY <1>2, <1>3

LEMMA InitCallIs ==
  UtilsInit => CallIs
PROOF
  <1> SUFFICES ASSUME UtilsInit PROVE CallIs
    OBVIOUS
  <1>1. ASSUME fn = "options"
        PROVE  OptionsValid(arg[1]) /\ arg[2] \in OperationsType
    <2>1. arg \in Texts(MCOptions, MaxOptions) \X MCOperations
      BY <1>1 DEF UtilsInit
    <2>2. arg[1] \in Texts(MCOptions, MaxOptions) /\ arg[2] \in MCOperations
      BY <2>1
    <2>3. arg[1] \in Seq(MCOptions)
      BY <2>2, TextsAre
    <2> QED BY <2>2, <2>3, OptionsAre, OperationsAre
  <1>2. ASSUME fn = "extension" PROVE arg \in Seq(ExtensionChars)
    <2>1. arg \in Texts(ExtensionChars, MaxText)
      BY <1>2 DEF UtilsInit, ExtensionChars
    <2> QED BY <2>1, TextsAre
  <1>3. ASSUME fn = "format" PROVE arg \in Seq(FormatChars)
    <2>1. arg \in Texts(FormatChars, MaxText)
      BY <1>3 DEF UtilsInit, FormatChars
    <2> QED BY <2>1, TextsAre
  <1> QED BY <1>1, <1>2, <1>3 DEF CallIs

LEMMA CallIsAlways ==
  UtilsSpec => []CallIs
PROOF
  <1>1. CallIs /\ [UtilsNext]_utils_vars => CallIs'
    BY DEF CallIs, UtilsNext, Call, utils_vars
  <1> QED BY <1>1, InitCallIs, PTL DEF UtilsSpec

(* Whatever options a command line has, and in whatever order, main begins *)
(* to read only with every setting, the arguments of sort and the vnlog    *)
(* format as the options mean them (main and open_input of datamash.c):    *)
(* for every number of options.                                            *)
THEOREM OptionsAreRight ==
  UtilsSpec => []OptionsRight
PROOF
  <1>1. CallIs => OptionsRight
    BY AnyOptionsMean DEF CallIs, OptionsRight
  <1> QED BY <1>1, CallIsAlways, PTL

(* guess_file_extension finds the longest end of a name that is an         *)
(* extension, whatever the add-ons are and however long the name is.       *)
THEOREM ExtensionsAreRight ==
  UtilsSpec => []ExtensionsRight
PROOF
  <1>1. CallIs => ExtensionsRight
    BY AnyExtensionRight DEF CallIs, ExtensionsRight
  <1> QED BY <1>1, CallIsAlways, PTL

(* validate_double_format accepts exactly the formats, up to the length of *)
(* numeric_output_format, whatever that is, that have one directive for a  *)
(* long double, and puts the L before its type.                            *)
THEOREM FormatsAreRight ==
  UtilsSpec => []FormatsRight
PROOF
  <1>1. CallIs => FormatsRight
    BY AnyFormatRight DEF CallIs, FormatsRight
  <1> QED BY <1>1, CallIsAlways, PTL
=============================================================================
