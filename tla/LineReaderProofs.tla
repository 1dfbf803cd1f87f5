-------------------------- MODULE LineReaderProofs ---------------------------
(***************************************************************************)
(* Proofs about LineReader: for every alphabet, every command line, every  *)
(* input and every first size of a record.                                 *)
(***************************************************************************)
EXTENDS LineReader, WellFoundedInduction, TLAPS

-----------------------------------------------------------------------------
(* Scanning.                                                               *)

(* The least-number principle, for sets.                                   *)
LEMMA Least ==
  ASSUME NEW T, T \subseteq Nat, T # {}
  PROVE  \E x \in T : \A y \in T : x <= y
PROOF
  <1> DEFINE R == OpToRel(<, Nat)
  <1>1. IsWellFoundedOn(R, Nat)
    BY NatLessThanWellFounded
  <1>2. \A x, y \in Nat : x < y => <<x, y>> \in R
    BY DEF OpToRel
  <1> HIDE DEF R
  <1>3. PICK x \in T : \A y \in T : ~ (<<y, x>> \in R)
    BY <1>1, WFMin
  <1>4. \A y \in T : ~ (y < x)
    BY <1>2, <1>3
  <1>5. x \in Nat /\ \A y \in T : y \in Nat
    BY <1>3
  <1> QED BY <1>3, <1>4, <1>5

(* A scan stops, at the NUL if nowhere before; it passes over nothing but  *)
(* what it may.                                                            *)
LEMMA PastFacts ==
  ASSUME NEW l \in Seq(Char), NEW p \in 1 .. Len(l) + 1, NEW S, NUL \notin S
  PROVE  /\ Past(l, p, S) \in p .. Len(l) + 1
         /\ At(l, Past(l, p, S)) \notin S
         /\ \A r \in p .. Past(l, p, S) - 1 : l[r] \in S
PROOF
  <1> DEFINE T == {q \in p .. Len(l) + 1 : At(l, q) \notin S}
  <1>1. Len(l) \in Nat /\ DOMAIN l = 1 .. Len(l)
    OBVIOUS
  <1>2. Len(l) + 1 \in T
    BY <1>1 DEF At
  <1>3. T \subseteq Nat
    BY <1>1
  <1>4. PICK q \in T : \A y \in T : q <= y
    BY <1>2, <1>3, Least
  <1>5. q \in p .. Len(l) + 1 /\ At(l, q) \notin S
    BY <1>4
  <1>6. ASSUME NEW r \in p .. q - 1 PROVE l[r] \in S
    <2>1. r \in p .. Len(l) + 1 /\ r < q /\ r \in DOMAIN l
      BY <1>1, <1>5
    <2>2. r \notin T
      BY <1>1, <1>4, <1>5, <2>1
    <2> QED BY <2>1, <2>2 DEF At
  <1> QED BY <1>5, <1>6 DEF Past

(* There is but one place where a scan can stop.                           *)
LEMMA PastIs ==
  ASSUME NEW l \in Seq(Char), NEW p \in 1 .. Len(l) + 1, NEW S, NUL \notin S,
         NEW q \in p .. Len(l) + 1, At(l, q) \notin S,
         \A r \in p .. q - 1 : l[r] \in S
  PROVE  Past(l, p, S) = q
PROOF
  <1> DEFINE t == Past(l, p, S)
  <1>1. Len(l) \in Nat /\ DOMAIN l = 1 .. Len(l)
    OBVIOUS
  <1>2. t \in p .. Len(l) + 1 /\ At(l, t) \notin S /\ \A r \in p .. t - 1 : l[r] \in S
    BY PastFacts
  <1> HIDE DEF t
  <1>3. ~ (t < q)
    BY <1>1, <1>2 DEF At
  <1>4. ~ (q < t)
    BY <1>1, <1>2 DEF At
  <1> QED BY <1>1, <1>2, <1>3, <1>4 DEF t

(* What the line reader takes from a line, by the character it begins      *)
(* with.                                                                   *)
LEMMA FirstFacts ==
  ASSUME NEW l \in Seq(Char)
  PROVE  /\ Past(l, 1, Blank) \in 1 .. Len(l) + 1
         /\ First(l) = NUL <=> BlankLine(l)
         /\ \A S \in SUBSET (Char \ Blank) : First(l) \in S <=> Begins(l, S)
PROOF
  <1> DEFINE q == Past(l, 1, Blank)
  <1>1. Len(l) \in Nat /\ DOMAIN l = 1 .. Len(l) /\ \A i \in 1 .. Len(l) : l[i] \in Char
    OBVIOUS
  <1>2. NUL \notin Blank /\ NUL \notin Char /\ 1 \in 1 .. Len(l) + 1
    BY <1>1, LineReaderAssumption
  <1>3. /\ q \in 1 .. Len(l) + 1
        /\ At(l, q) \notin Blank
        /\ \A r \in 1 .. q - 1 : l[r] \in Blank
    BY <1>2, PastFacts
  <1>4. First(l) = At(l, q)
    BY DEF First
  <1> HIDE DEF q
  <1>5. First(l) = NUL <=> BlankLine(l)
    BY <1>1, <1>2, <1>3, <1>4 DEF At, BlankLine
  <1>6. ASSUME NEW S \in SUBSET (Char \ Blank)
        PROVE  First(l) \in S <=> Begins(l, S)
    <2>1. ASSUME First(l) \in S PROVE Begins(l, S)
      BY <1>1, <1>2, <1>3, <1>4, <2>1 DEF At, Begins
    <2>2. ASSUME Begins(l, S) PROVE First(l) \in S
      <3>1. PICK p \in 1 .. Len(l) : l[p] \in S /\ \A k \in 1 .. p - 1 : l[k] \in Blank
        BY <2>2 DEF Begins
      <3>2. ~ (q < p)
        BY <1>1, <1>3, <3>1 DEF At
      <3>3. ~ (p < q)
        BY <1>1, <1>3, <3>1
      <3>4. p = q
        BY <1>1, <1>3, <3>2, <3>3
      <3> QED BY <1>1, <1>4, <3>1, <3>4 DEF At
    <2> QED BY <2>1, <2>2
  <1> QED BY <1>3, <1>5, <1>6 DEF q

-----------------------------------------------------------------------------
(* The inductive invariant, in three parts.                                *)

RecordType == [line : Nat \ {0}, from : Nat \ {0}, fields : Seq(FieldType)]

(* Types and room; there is room for a field at all times, so that doubling*)
(* it makes room.                                                          *)
Base ==
  /\ TypeOK
  /\ records \in Seq(RecordType)
  /\ alloc_fields # 0 /\ HasRoom
  /\ status = "splitting" => from = 1 \/ vnlog_prologue

(* The comment at the end of l, or the end of l.                           *)
EndOf(j, l, header) ==
  IF j.vnlog /\ ~header THEN Past(l, 1, Char \ {Hash}) ELSE Len(l) + 1

(* The fields fs tile l up to the delimiter before p.                      *)
DelimitedTo(j, l, p, fs) ==
  /\ fs = << >> => p = 1
  /\ fs # << >> =>
       /\ l # << >>
       /\ fs[1].beg = 1 /\ fs[Len(fs)].end = p - 1
       /\ p <= Len(l) + 1 => l[p - 1] = j.in_tab
  /\ \A k \in DOMAIN fs :
       /\ fs[k].beg <= fs[k].end
       /\ \A q \in fs[k].beg .. fs[k].end - 1 : l[q] # j.in_tab
  /\ \A k \in 1 .. Len(fs) - 1 :
       /\ fs[k + 1].beg = fs[k].end + 1
       /\ l[fs[k].end] = j.in_tab

Trailing(j, l, b, e) == ~j.vnlog /\ e > b /\ l[e - 1] \in Blank

WordIndex(fs) == {k \in DOMAIN fs : fs[k].beg < fs[k].end}

(* The fields fs are the words of l that end at p or before; p is not      *)
(* within a word.                                                          *)
WordsTo(j, l, b, e, p, fs) ==
  /\ p \in b .. e
  /\ (p = b /\ fs = << >>) \/ p = e \/ l[p] \in Blank
  /\ {fs[k] : k \in WordIndex(fs)} = {w \in Words(l, b, e) : w.end <= p}
  /\ \A k \in 1 .. Len(fs) - 1 : fs[k].end < fs[k + 1].beg
  /\ \A k \in DOMAIN fs : fs[k].end <= p
  /\ DOMAIN fs \ WordIndex(fs) = IF Trailing(j, l, b, e) /\ p = e THEN {Len(fs)} ELSE {}

(* FieldsRight of one record, r, for the command line j and the input inp.  *)
DelimitedIs(j, l, fs) ==
  IF l = << >> THEN fs = << >> ELSE DelimitedTo(j, l, Len(l) + 2, fs)

WordsAre(j, l, b, e, fs) ==
  /\ {fs[k] : k \in WordIndex(fs)} = Words(l, b, e)
  /\ \A k \in 1 .. Len(fs) - 1 : fs[k].end < fs[k + 1].beg
  /\ DOMAIN fs \ WordIndex(fs) = IF Trailing(j, l, b, e) THEN {Len(fs)} ELSE {}

RecordOf(j, inp, r, first) ==
  LET l == inp[r.line]
  IN IF j.whitespace
     THEN WordsAre(j, l, r.from, EndOf(j, l, j.vnlog /\ j.named /\ first), r.fields)
     ELSE DelimitedIs(j, l, r.fields)

SplitRight ==
  status = "splitting" =>
    IF job.whitespace
    THEN WordsTo(job, Line, from, EndOf(job, Line, vnlog_prologue), pos, fields)
    ELSE DelimitedTo(job, Line, pos, fields)

RecordsRight ==
  \A k \in DOMAIN records : RecordOf(job, input, records[k], k = 1)

(* What never becomes a record but as the header.                          *)
LeftOut(j, l) ==
  IF j.vnlog THEN BlankLine(l) \/ Begins(l, {Hash})
  ELSE j.skip_comments /\ Begins(l, {Hash, Semicolon})

Taken == {records[k].line : k \in DOMAIN records}

HeaderLines ==
  IF job.vnlog /\ job.named /\ records # << >> THEN {records[1].line} ELSE {}

LinesRead == 1 .. IF status = "splitting" THEN lines - 1 ELSE lines

LinesRight ==
  /\ \A k \in 1 .. Len(records) - 1 : records[k].line < records[k + 1].line
  /\ status = "splitting" =>
       /\ \A k \in DOMAIN records : records[k].line < lines
       /\ LeftOut(job, Line) <=> vnlog_prologue
  /\ status # "data before header" =>
       Taken = HeaderLines \cup {n \in LinesRead : ~LeftOut(job, input[n])}
  /\ status = "data before header" =>
       records = << >> /\ lines > 0 /\ ~LeftOut(job, input[lines])
  /\ \A n \in HeaderLines : LeftOut(job, input[n]) /\ records[1].fields # << >>
  /\ status = "splitting" /\ vnlog_prologue =>
       /\ At(Line, from) \notin Blank \cup {NUL}
       /\ pos = from \/ fields # << >>

(* The names of the header begin at b in l, and there are some.            *)
NamesIn(l, b) == b \in DOMAIN l /\ NamesAt(l, b)

NoLegend(inp, S) == \A m \in S : ~IsLegend(inp[m])

(* No header was passed over, and what was taken for one is one.           *)
HeaderRight ==
  job.vnlog /\ job.named =>
    /\ records = << >> =>
         /\ NoLegend(input, LinesRead)
         /\ status = "splitting" => NamesIn(Line, from)
    /\ records # << >> =>
         /\ NamesIn(input[records[1].line], records[1].from)
         /\ NoLegend(input, 1 .. records[1].line - 1)

IInv ==
  Base /\ SplitRight /\ RecordsRight /\ LinesRight /\ HeaderRight /\ FieldsWithin

-----------------------------------------------------------------------------
(* Types and room.                                                         *)

(* The values behind the variables.                                        *)
LEMMA Types ==
  ASSUME TypeOK
  PROVE  /\ job \in JobType /\ (job.vnlog => job.whitespace)
         /\ job.in_tab \in Char /\ NUL \notin Char
         /\ Len(input) \in Nat /\ lines \in Nat /\ lines <= Len(input)
         /\ \A n \in 1 .. Len(input) : input[n] \in Seq(Char)
PROOF
  <1>1. job \in JobType /\ (job.vnlog => job.whitespace) /\ input \in Seq(Seq(Char))
    BY LineReaderAssumption DEF TypeOK, ValidJob
  <1>2. lines \in 0 .. Len(input)
    BY DEF TypeOK
  <1> QED BY <1>1, <1>2, LineReaderAssumption DEF JobType

LEMMA LineFacts ==
  ASSUME TypeOK, status = "splitting"
  PROVE  /\ Line = input[lines] /\ Line \in Seq(Char) /\ Len(Line) \in Nat
         /\ DOMAIN Line = 1 .. Len(Line) /\ \A p \in 1 .. Len(Line) : Line[p] \in Char
         /\ from \in Nat \ {0} /\ pos \in Nat \ {0}
         /\ from <= Len(Line) + 1 /\ from <= pos /\ pos <= Len(Line) + 2
PROOF
  <1>1. lines \in 1 .. Len(input)
    BY Types DEF TypeOK
  <1>2. Line \in Seq(Char)
    BY <1>1, Types DEF Line
  <1>3. Len(Line) \in Nat
    BY <1>2
  <1>4. from \in 1 .. Len(Line) + 1 /\ pos \in from .. Len(Line) + 2
    BY DEF TypeOK
  <1> QED BY <1>2, <1>3, <1>4 DEF Line

(* Room is made before a field is added.                                   *)
LEMMA AddFits ==
  ASSUME Base, NEW f \in FieldType, Add(f)
  PROVE  /\ fields' \in Seq(FieldType) /\ fields' # << >>
         /\ Len(fields') = Len(fields) + 1
         /\ \A k \in 1 .. Len(fields) : fields'[k] = fields[k]
         /\ fields'[Len(fields) + 1] = f
         /\ alloc_fields' \in Nat /\ alloc_fields' # 0
         /\ Len(fields') <= alloc_fields'
PROOF
  <1>1. /\ fields \in Seq(FieldType) /\ Len(fields) \in Nat
        /\ alloc_fields \in Nat /\ alloc_fields # 0 /\ Len(fields) <= alloc_fields
    BY DEF Base, TypeOK, HasRoom
  <1>2. /\ fields' = Append(fields, f)
        /\ alloc_fields' = IF alloc_fields <= Len(fields)
                           THEN 2 * Len(fields) ELSE alloc_fields
    BY DEF Add
  <1>3. Len(fields') = Len(fields) + 1
    BY <1>1, <1>2
  <1>4. alloc_fields' \in Nat /\ alloc_fields' # 0 /\ Len(fields) + 1 <= alloc_fields'
    <2>1. CASE alloc_fields <= Len(fields)
      <3>1. Len(fields) >= 1 /\ alloc_fields' = 2 * Len(fields)
        BY <1>1, <1>2, <2>1
      <3> QED BY <1>1, <3>1
    <2>2. CASE ~ (alloc_fields <= Len(fields))
      BY <1>1, <1>2, <2>2
    <2> QED BY <2>1, <2>2
  <1> QED BY <1>1, <1>2, <1>3, <1>4

(* Where the two ways to split a line find the next field.                 *)
LEMMA SplitDelimitedFacts ==
  ASSUME Base, SplitDelimited
  PROVE  \E e \in pos .. Len(Line) + 1 :
           /\ Comments = {} /\ from = 1
           /\ At(Line, e) \in {NUL, job.in_tab}
           /\ \A r \in pos .. e - 1 : Line[r] # job.in_tab
           /\ [beg |-> pos, end |-> e] \in FieldType
           /\ Add([beg |-> pos, end |-> e])
           /\ pos' = e + 1
PROOF
  <1> DEFINE S == Char \ ({job.in_tab} \cup Comments)
             e == Past(Line, pos, S)
  <1>1. /\ ~job.whitespace /\ status = "splitting" /\ pos <= Len(Line) + 1
        /\ Add([beg |-> pos, end |-> e])
        /\ pos' = IF At(Line, e) \in Comments THEN Len(Line) + 2 ELSE e + 1
    BY DEF SplitDelimited, MoreDelimited
  <1>2. ~job.vnlog
    BY <1>1, Types DEF Base
  <1>3. Comments = {} /\ from = 1
    BY <1>1, <1>2 DEF Comments, Base, vnlog_prologue
  <1>4. /\ Line \in Seq(Char) /\ pos \in 1 .. Len(Line) + 1 /\ NUL \notin S
        /\ DOMAIN Line = 1 .. Len(Line) /\ Len(Line) \in Nat
        /\ \A p \in 1 .. Len(Line) : Line[p] \in Char
    BY <1>1, LineFacts, Types DEF Base
  <1>5. /\ e \in pos .. Len(Line) + 1 /\ At(Line, e) \notin S
        /\ \A r \in pos .. e - 1 : Line[r] \in S
    BY <1>4, PastFacts
  <1> HIDE DEF e
  <1>6. At(Line, e) \in {NUL, job.in_tab}
    BY <1>3, <1>4, <1>5 DEF At
  <1>7. [beg |-> pos, end |-> e] \in FieldType
    BY <1>4, <1>5 DEF FieldType
  <1> QED BY <1>1, <1>3, <1>5, <1>6, <1>7

LEMMA SplitWordsFacts ==
  ASSUME Base, SplitWords
  PROVE  /\ job.whitespace /\ pos \in 1 .. Len(Line) /\ Line[pos] \notin Comments
         /\ \E b \in pos .. Len(Line) + 1 : \E e \in b .. Len(Line) + 1 :
              /\ At(Line, b) \notin Blank
              /\ \A r \in pos .. b - 1 : Line[r] \in Blank
              /\ At(Line, e) \in Blank \cup Comments \cup {NUL}
              /\ \A r \in b .. e - 1 : Line[r] \notin Blank \cup Comments
              /\ [beg |-> b, end |-> e] \in FieldType
              /\ IF job.vnlog /\ e = b
                 THEN fields' = fields /\ alloc_fields' = alloc_fields
                 ELSE Add([beg |-> b, end |-> e])
              /\ pos' = e
PROOF
  <1> DEFINE S == Char \ (Blank \cup Comments)
             b == Past(Line, pos, Blank)
             e == Past(Line, b, S)
  <1>1. /\ job.whitespace /\ status = "splitting"
        /\ pos <= Len(Line) /\ At(Line, pos) \notin Comments
        /\ IF job.vnlog /\ e = b THEN UNCHANGED <<fields, alloc_fields>>
           ELSE Add([beg |-> b, end |-> e])
        /\ pos' = e
    BY DEF SplitWords, MoreWords, DropsEmpty
  <1>2. /\ Line \in Seq(Char) /\ pos \in 1 .. Len(Line) /\ pos \in 1 .. Len(Line) + 1
        /\ DOMAIN Line = 1 .. Len(Line) /\ Len(Line) \in Nat
        /\ \A p \in 1 .. Len(Line) : Line[p] \in Char
    BY <1>1, LineFacts DEF Base
  <1>3. NUL \notin S /\ NUL \notin Blank
    BY LineReaderAssumption
  <1>4. /\ b \in pos .. Len(Line) + 1 /\ At(Line, b) \notin Blank
        /\ \A r \in pos .. b - 1 : Line[r] \in Blank
    BY <1>2, <1>3, PastFacts
  <1> HIDE DEF b
  <1>5. b \in 1 .. Len(Line) + 1
    BY <1>2, <1>4
  <1>6. /\ e \in b .. Len(Line) + 1 /\ At(Line, e) \notin S
        /\ \A r \in b .. e - 1 : Line[r] \in S
    BY <1>2, <1>3, <1>5, PastFacts
  <1> HIDE DEF e
  <1>7. At(Line, e) \in Blank \cup Comments \cup {NUL}
    BY <1>2, <1>5, <1>6 DEF At
  <1>8. [beg |-> b, end |-> e] \in FieldType
    BY <1>2, <1>5, <1>6 DEF FieldType
  <1>9. Line[pos] \notin Comments
    BY <1>1, <1>2 DEF At
  <1> QED BY <1>1, <1>2, <1>4, <1>6, <1>7, <1>8, <1>9

(* Where the names of a vnlog header begin.                                *)
LEMMA LegendFacts ==
  ASSUME NEW l \in Seq(Char)
  PROVE  Legend(l) \in 1 .. Len(l) + 1 /\ At(l, Legend(l)) \notin Blank
PROOF
  <1> DEFINE a == Past(l, 1, Blank)
             c == Past(l, a, {Hash})
  <1>1. Len(l) \in Nat /\ NUL \notin Blank /\ NUL \notin {Hash} /\ 1 \in 1 .. Len(l) + 1
    BY LineReaderAssumption DEF NUL, Hash
  <1>2. a \in 1 .. Len(l) + 1
    BY <1>1, PastFacts
  <1> HIDE DEF a
  <1>3. c \in a .. Len(l) + 1
    BY <1>1, <1>2, PastFacts
  <1> HIDE DEF c
  <1>4. c \in 1 .. Len(l) + 1
    BY <1>1, <1>2, <1>3
  <1>5. Past(l, c, Blank) \in c .. Len(l) + 1 /\ At(l, Past(l, c, Blank)) \notin Blank
    BY <1>1, <1>4, PastFacts
  <1> QED BY <1>1, <1>4, <1>5 DEF Legend, a, c

LEMMA InitBase == Init => Base
PROOF
  <1> SUFFICES ASSUME Init PROVE Base
    OBVIOUS
  <1>1. Len(input) \in Nat
    BY LineReaderAssumption DEF Init
  <1>2. TypeOK
    BY <1>1, LineReaderAssumption DEF Init, TypeOK
  <1> QED BY <1>2, LineReaderAssumption DEF Init, Base, HasRoom

(* What the actions that begin or leave a line do.                         *)
LEMMA ReadsFacts ==
  ASSUME Base, PassOver \/ TakeHeader \/ TakeLine
  PROVE  /\ status = "reading" /\ lines' = lines + 1
         /\ lines + 1 \in 1 .. Len(input) /\ NextLine \in Seq(Char)
         /\ job' = job /\ input' = input /\ records' = records
         /\ alloc_fields' = alloc_fields
         /\ \/ status' \in {"reading", "data before header"}
            \/ /\ status' = "splitting" /\ Line' = NextLine
               /\ fields' = << >> /\ pos' = from' /\ from' \in 1 .. Len(NextLine) + 1
               /\ from' = 1 \/ vnlog_prologue'
PROOF
  <1>1. /\ status = "reading" /\ lines' = lines + 1 /\ lines < Len(input)
        /\ job' = job /\ input' = input /\ records' = records
        /\ alloc_fields' = alloc_fields
    BY DEF PassOver, TakeHeader, TakeLine
  <1>2. lines + 1 \in 1 .. Len(input) /\ NextLine \in Seq(Char)
    BY <1>1, Types DEF Base, NextLine
  <1>3. vnlog_prologue' = vnlog_prologue
    BY <1>1 DEF vnlog_prologue
  <1>4. Legend(NextLine) \in 1 .. Len(NextLine) + 1 /\ 1 \in 1 .. Len(NextLine) + 1
    BY <1>2, LegendFacts
  <1>5. Line' = NextLine
    BY <1>1 DEF Line, NextLine
  <1>6. \/ status' \in {"reading", "data before header"}
        \/ Start(1)
        \/ Start(Legend(NextLine)) /\ vnlog_prologue
    BY <1>1 DEF PassOver, TakeHeader, TakeLine
  <1> QED BY <1>1, <1>2, <1>3, <1>4, <1>5, <1>6 DEF Start

LEMMA RecordsType ==
  ASSUME Base, job' = job, input' = input, records' = records,
         lines' = lines \/ lines' = lines + 1
  PROVE  /\ records' \in Seq(RecordType)
         /\ \A k \in DOMAIN records' :
              records'[k] \in [line : 1 .. lines', from : Nat \ {0},
                               fields : Seq(FieldType)]
PROOF
  <1>1. lines \in Nat
    BY Types DEF Base
  <1>2. 1 .. lines \subseteq 1 .. lines'
    BY <1>1
  <1> QED BY <1>2 DEF Base, TypeOK

LEMMA BaseStep == Base /\ [Next]_vars => Base'
PROOF
  <1> SUFFICES ASSUME Base, [Next]_vars PROVE Base'
    OBVIOUS
  <1>1. CASE PassOver \/ TakeHeader \/ TakeLine
    <2>1. /\ status = "reading" /\ lines' = lines + 1
          /\ lines + 1 \in 1 .. Len(input) /\ NextLine \in Seq(Char)
          /\ job' = job /\ input' = input /\ records' = records
          /\ alloc_fields' = alloc_fields
      BY <1>1, ReadsFacts
    <2>7. \/ status' \in {"reading", "data before header"}
          \/ /\ status' = "splitting" /\ Line' = NextLine
             /\ fields' = << >> /\ pos' = from' /\ from' \in 1 .. Len(NextLine) + 1
             /\ from' = 1 \/ vnlog_prologue'
      BY <1>1, ReadsFacts
    <2>2. fields' = fields \/ fields' = << >>
      BY <1>1 DEF PassOver, TakeHeader, TakeLine, Start
    <2>3. fields' \in Seq(FieldType) /\ Len(fields') <= alloc_fields'
      <3>1. << >> \in Seq(FieldType) /\ Len(<< >>) = 0
        OBVIOUS
      <3>2. /\ fields \in Seq(FieldType) /\ alloc_fields \in Nat
            /\ Len(fields) <= alloc_fields
        BY DEF Base, TypeOK, HasRoom
      <3>3. 0 <= alloc_fields
        BY <3>2
      <3> QED BY <2>1, <2>2, <3>1, <3>2, <3>3
    <2>4. /\ lines' \in 0 .. Len(input') /\ lines' > 0
          /\ status' \in {"reading", "splitting"} \cup Ended
      <3>1. lines \in Nat /\ Len(input) \in Nat
        BY Types DEF Base
      <3>2. lines' \in 0 .. Len(input') /\ lines' > 0
        BY <2>1, <3>1
      <3> QED BY <2>7, <3>2 DEF Ended
    <2>5. status' = "splitting" =>
            from' \in 1 .. Len(Line') + 1 /\ pos' \in from' .. Len(Line') + 2
      <3>1. Len(NextLine) \in Nat
        BY <2>1
      <3> QED BY <2>7, <3>1
    <2>6. TypeOK'
      BY <2>1, <2>3, <2>4, <2>5, RecordsType DEF Base, TypeOK
    <2>8. status' = "splitting" => from' = 1 \/ vnlog_prologue'
      BY <2>7
    <2> QED BY <2>1, <2>3, <2>6, <2>8, RecordsType DEF Base, HasRoom
  <1>2. CASE EndOfInput
    <2>1. /\ status' = "eof"
          /\ job' = job /\ input' = input /\ lines' = lines /\ fields' = fields
          /\ alloc_fields' = alloc_fields /\ records' = records
      BY <1>2 DEF EndOfInput
    <2>2. TypeOK'
      BY <2>1, RecordsType DEF Base, TypeOK, Ended
    <2> QED BY <2>1, <2>2 DEF Base, HasRoom
  <1>3. CASE SplitDelimited \/ SplitWords
    <2>1. /\ status = "splitting" /\ status' = status /\ job' = job /\ input' = input
          /\ lines' = lines /\ from' = from /\ records' = records
      BY <1>3 DEF SplitDelimited, SplitWords
    <2>2. Line' = Line /\ vnlog_prologue' = vnlog_prologue
      BY <2>1 DEF Line, vnlog_prologue
    <2>3. /\ Len(Line) \in Nat /\ from \in Nat \ {0} /\ pos \in Nat \ {0}
          /\ from <= Len(Line) + 1 /\ from <= pos
      BY <2>1, LineFacts DEF Base
    <2>4. \/ \E f \in FieldType : Add(f)
          \/ fields' = fields /\ alloc_fields' = alloc_fields
      BY <1>3, SplitDelimitedFacts, SplitWordsFacts
    <2>5. pos' \in from .. Len(Line) + 2
      <3>1. CASE SplitDelimited
        <4>1. PICK e \in pos .. Len(Line) + 1 : pos' = e + 1
          BY <3>1, SplitDelimitedFacts
        <4> QED BY <2>3, <4>1
      <3>2. CASE SplitWords
        <4>1. PICK b \in pos .. Len(Line) + 1 : \E e \in b .. Len(Line) + 1 : pos' = e
          BY <3>2, SplitWordsFacts
        <4> QED BY <2>3, <4>1
      <3> QED BY <1>3, <3>1, <3>2
    <2>6. /\ fields' \in Seq(FieldType) /\ alloc_fields' \in Nat
          /\ alloc_fields' # 0 /\ Len(fields') <= alloc_fields'
      BY <2>4, AddFits DEF Base, TypeOK, HasRoom
    <2>7. TypeOK'
      BY <2>1, <2>2, <2>5, <2>6, RecordsType DEF Base, TypeOK
    <2> QED BY <2>1, <2>2, <2>6, <2>7 DEF Base, HasRoom
  <1>4. CASE Return
    <2> DEFINE r == [line |-> lines, from |-> from, fields |-> fields]
    <2>1. /\ status = "splitting" /\ status' = "reading"
          /\ records' = Append(records, r)
          /\ job' = job /\ input' = input /\ lines' = lines
          /\ fields' = fields /\ alloc_fields' = alloc_fields
      BY <1>4 DEF Return
    <2>2. lines \in Nat \ {0} /\ from \in Nat \ {0} /\ fields \in Seq(FieldType)
      BY <2>1, Types, LineFacts DEF Base, TypeOK
    <2>3. /\ r \in RecordType
          /\ r \in [line : 1 .. lines, from : Nat \ {0}, fields : Seq(FieldType)]
      BY <2>2 DEF RecordType
    <2> HIDE DEF r
    <2>4. /\ records' \in Seq(RecordType)
          /\ \A k \in DOMAIN records' :
               records'[k] \in [line : 1 .. lines, from : Nat \ {0},
                                fields : Seq(FieldType)]
      <3>1. records \in Seq(RecordType)
        BY DEF Base
      <3>2. \A k \in DOMAIN records :
              records[k] \in [line : 1 .. lines, from : Nat \ {0},
                              fields : Seq(FieldType)]
        BY DEF Base, TypeOK
      <3>3. records' \in Seq(RecordType)
        BY <2>1, <2>3, <3>1
      <3>4. \A k \in DOMAIN records' :
              \/ k \in DOMAIN records /\ records'[k] = records[k]
              \/ records'[k] = r
        BY <2>1, <2>3, <3>1
      <3> QED BY <2>3, <3>2, <3>3, <3>4
    <2>5. TypeOK'
      BY <2>1, <2>4 DEF Base, TypeOK
    <2> QED BY <2>1, <2>4, <2>5 DEF Base, HasRoom
  <1>5. CASE UNCHANGED vars
    <2>1. /\ job' = job /\ input' = input /\ lines' = lines /\ from' = from
          /\ pos' = pos /\ fields' = fields /\ alloc_fields' = alloc_fields
          /\ records' = records /\ status' = status
      BY <1>5 DEF vars
    <2>2. Line' = Line
      BY <2>1 DEF Line
    <2>3. TypeOK'
      BY <2>1, <2>2 DEF Base, TypeOK
    <2> QED BY <2>1, <2>3 DEF Base, HasRoom, vnlog_prologue
  <1> QED BY <1>1, <1>2, <1>3, <1>4, <1>5 DEF Next, Stopped

-----------------------------------------------------------------------------
(* The fields.                                                             *)

LEMMA FieldsAre ==
  ASSUME NEW fs \in Seq(FieldType)
  PROVE  /\ Len(fs) \in Nat /\ DOMAIN fs = 1 .. Len(fs)
         /\ \A k \in 1 .. Len(fs) : fs[k].beg \in Nat /\ fs[k].end \in Nat
PROOF
  <1>1. \A k \in 1 .. Len(fs) : fs[k] \in FieldType
    OBVIOUS
  <1>2. \A k \in 1 .. Len(fs) : fs[k].beg \in Nat /\ fs[k].end \in Nat
    BY <1>1 DEF FieldType
  <1> QED BY <1>2

LEMMA DelimitedStart ==
  ASSUME NEW l
  PROVE  DelimitedTo(job, l, 1, << >>)
BY DEF DelimitedTo

LEMMA DelimitedStep ==
  ASSUME NEW l \in Seq(Char), l # << >>, NEW p \in 1 .. Len(l) + 1,
         NEW fs \in Seq(FieldType), DelimitedTo(job, l, p, fs),
         NEW e \in p .. Len(l) + 1, At(l, e) \in {NUL, job.in_tab},
         \A r \in p .. e - 1 : l[r] # job.in_tab,
         NEW gs \in Seq(FieldType), Len(gs) = Len(fs) + 1,
         \A k \in 1 .. Len(fs) : gs[k] = fs[k],
         gs[Len(fs) + 1] = [beg |-> p, end |-> e]
  PROVE  DelimitedTo(job, l, e + 1, gs)
PROOF
  <1> DEFINE n == Len(fs)
  <1>1. /\ Len(l) \in Nat /\ DOMAIN l = 1 .. Len(l) /\ n \in Nat
        /\ \A i \in 1 .. Len(l) : l[i] \in Char
        /\ DOMAIN fs = 1 .. n /\ DOMAIN gs = 1 .. n + 1 /\ gs # << >>
        /\ \A k \in 1 .. n : fs[k].beg \in Nat /\ fs[k].end \in Nat
    <2>1. /\ Len(l) \in Nat /\ DOMAIN l = 1 .. Len(l)
          /\ \A i \in 1 .. Len(l) : l[i] \in Char
      OBVIOUS
    <2>2. /\ n \in Nat /\ DOMAIN fs = 1 .. n
          /\ \A k \in 1 .. n : fs[k].beg \in Nat /\ fs[k].end \in Nat
      BY FieldsAre
    <2>3. DOMAIN gs = 1 .. n + 1
      BY FieldsAre
    <2>4. gs # << >>
      BY <2>2
    <2> QED BY <2>1, <2>2, <2>3, <2>4
  <1>2. gs[n + 1].beg = p /\ gs[n + 1].end = e
    OBVIOUS
  <1>3. gs[1].beg = 1
    <2>1. CASE n = 0
      BY <1>1, <1>2, <2>1 DEF DelimitedTo
    <2>2. CASE n # 0
      BY <1>1, <2>2 DEF DelimitedTo
    <2> QED BY <2>1, <2>2
  <1>4. e + 1 <= Len(l) + 1 => l[e] = job.in_tab
    BY <1>1, LineReaderAssumption DEF At
  <1>5. ASSUME NEW k \in 1 .. n + 1
        PROVE  /\ gs[k].beg <= gs[k].end
               /\ \A q \in gs[k].beg .. gs[k].end - 1 : l[q] # job.in_tab
    <2>1. CASE k = n + 1
      BY <1>2, <2>1
    <2>2. CASE k \in 1 .. n
      BY <1>1, <2>2 DEF DelimitedTo
    <2> QED BY <1>1, <2>1, <2>2
  <1>6. ASSUME NEW k \in 1 .. n
        PROVE  /\ gs[k + 1].beg = gs[k].end + 1
               /\ l[gs[k].end] = job.in_tab
    <2>1. CASE k = n
      <3>1. fs[n].end = p - 1 /\ l[p - 1] = job.in_tab /\ gs[n] = fs[n]
        BY <1>1, <2>1 DEF DelimitedTo
      <3> QED BY <1>1, <1>2, <2>1, <3>1
    <2>2. CASE k # n
      <3>1. n \in Nat /\ k \in 1 .. n /\ k # n
        BY <1>1, <2>2
      <3> HIDE DEF n
      <3>2. k \in 1 .. n - 1 /\ k + 1 \in 1 .. n
        BY <3>1
      <3> QED BY <1>1, <3>2 DEF DelimitedTo, n
    <2> QED BY <2>1, <2>2
  <1>7. Len(gs) = n + 1 /\ Len(gs) - 1 = n /\ e + 1 - 1 = e /\ e \in Nat
    BY <1>1
  <1> HIDE DEF n
  <1> QED BY <1>1, <1>2, <1>3, <1>4, <1>5, <1>6, <1>7 DEF DelimitedTo

LEMMA DelimitedEnd ==
  ASSUME NEW l \in Seq(Char), NEW fs, NEW p \in 1 .. Len(l) + 2,
         DelimitedTo(job, l, p, fs), ~(1 <= Len(l) /\ p <= Len(l) + 1)
  PROVE  DelimitedIs(job, l, fs)
PROOF
  <1>1. Len(l) \in Nat
    OBVIOUS
  <1>2. CASE l = << >>
    BY <1>2 DEF DelimitedTo, DelimitedIs
  <1>3. CASE l # << >>
    <2>1. Len(l) # 0
      BY <1>3
    <2>2. p = Len(l) + 2 /\ p - 1 = Len(l) + 1 /\ p # 1
      BY <1>1, <2>1
    <2> QED BY <1>3, <2>2 DEF DelimitedTo, DelimitedIs
  <1> QED BY <1>2, <1>3

LEMMA WordsStart ==
  ASSUME NEW l, NEW b \in Nat, NEW e \in Nat, b <= e
  PROVE  WordsTo(job, l, b, e, b, << >>)
PROOF
  <1>1. \A w \in Words(l, b, e) : ~(w.end <= b)
    BY DEF Words
  <1>2. WordIndex(<< >>) = {}
    BY DEF WordIndex
  <1>3. ~(Trailing(job, l, b, e) /\ b = e)
    BY DEF Trailing
  <1> QED BY <1>1, <1>2, <1>3 DEF WordsTo

LEMMA WordsEnd ==
  ASSUME NEW l, NEW b \in Nat, NEW e \in Nat, NEW fs, WordsTo(job, l, b, e, e, fs)
  PROVE  WordsAre(job, l, b, e, fs)
PROOF
  <1>1. \A w \in Words(l, b, e) : w.end <= e
    BY DEF Words
  <1> QED BY <1>1 DEF WordsTo, WordsAre

(* A word is found.                                                        *)
LEMMA WordsAdd ==
  ASSUME NEW l, NEW b \in Nat, NEW e \in Nat, NEW p \in Nat, p < e,
         NEW fs \in Seq(FieldType), WordsTo(job, l, b, e, p, fs),
         NEW wb \in p .. e, NEW we \in p .. e, wb < we,
         \A r \in p .. wb - 1 : l[r] \in Blank,
         \A r \in wb .. we - 1 : l[r] \notin Blank,
         we = e \/ l[we] \in Blank,
         NEW gs \in Seq(FieldType), Len(gs) = Len(fs) + 1,
         \A k \in 1 .. Len(fs) : gs[k] = fs[k],
         gs[Len(fs) + 1] = [beg |-> wb, end |-> we]
  PROVE  WordsTo(job, l, b, e, we, gs)
PROOF
  <1> DEFINE n == Len(fs)
             w == [beg |-> wb, end |-> we]
  <1>1. /\ n \in Nat /\ DOMAIN fs = 1 .. n /\ DOMAIN gs = 1 .. n + 1
        /\ \A k \in 1 .. n : fs[k].beg \in Nat /\ fs[k].end \in Nat
    BY FieldsAre
  <1>2. p \in b .. e /\ ((p = b /\ fs = << >>) \/ l[p] \in Blank)
    BY DEF WordsTo
  <1>3. w.beg = wb /\ w.end = we /\ gs[n + 1] = w
    OBVIOUS
  <1> HIDE DEF n, w
  <1>4. w \in Words(l, b, e)
    <2>1. w \in [beg : b .. e, end : b .. e]
      BY <1>2 DEF w
    <2>2. wb = b \/ l[wb - 1] \in Blank
      <3>1. CASE wb = p
        BY <1>2, <3>1
      <3>2. CASE wb # p
        BY <3>2
      <3> QED BY <3>1, <3>2
    <2> QED BY <1>3, <2>1, <2>2 DEF Words
  <1>5. ASSUME NEW v \in Words(l, b, e), v.end <= we, ~(v.end <= p)
        PROVE  v = w
    <2>1. /\ v.beg \in b .. e /\ v.end \in b .. e /\ v.beg < v.end
          /\ \A q \in v.beg .. v.end - 1 : l[q] \notin Blank
          /\ v.beg = b \/ l[v.beg - 1] \in Blank
          /\ v.end = e \/ l[v.end] \in Blank
          /\ v = [beg |-> v.beg, end |-> v.end]
      BY DEF Words
    <2>2. p <= v.beg
      BY <1>2, <1>5, <2>1
    <2>3. wb <= v.beg
      BY <1>2, <1>5, <2>1, <2>2, SMTT(30)
    <2>4. ~(wb < v.beg)
      <3>1. ASSUME wb < v.beg PROVE FALSE
        <4>1. v.beg - 1 \in wb .. we - 1 /\ v.beg # b
          BY <1>2, <1>5, <2>1, <3>1
        <4> QED BY <2>1, <4>1
      <3> QED BY <3>1
    <2>5. v.end = we
      BY <1>2, <1>5, <2>1, <2>3, <2>4
    <2> QED BY <2>1, <2>3, <2>4, <2>5 DEF w
  <1>6. {v \in Words(l, b, e) : v.end <= we} =
          {v \in Words(l, b, e) : v.end <= p} \cup {w}
    <2>1. \A v \in Words(l, b, e) : v.end <= p => v.end <= we
      BY DEF Words
    <2> QED BY <1>3, <1>4, <1>5, <2>1
  <1>7. WordIndex(gs) = WordIndex(fs) \cup {n + 1}
    BY <1>1, <1>3 DEF WordIndex, n
  <1>8. {gs[k] : k \in WordIndex(gs)} = {fs[k] : k \in WordIndex(fs)} \cup {w}
    <2>1. \A k \in WordIndex(fs) : gs[k] = fs[k]
      BY <1>1 DEF WordIndex, n
    <2> QED BY <1>3, <1>7, <2>1
  <1>9. \A k \in 1 .. n : fs[k].end < wb
    <2>1. \A k \in 1 .. n : fs[k].end <= p
      BY <1>1 DEF WordsTo
    <2>2. n # 0 => p < wb
      <3>1. ASSUME n # 0, p = wb PROVE FALSE
        <4>1. l[p] \in Blank /\ p \in wb .. we - 1
          BY <1>2, <3>1 DEF n
        <4> QED BY <4>1
      <3> QED BY <3>1
    <2> QED BY <1>1, <2>1, <2>2
  <1>10. \A k \in 1 .. Len(gs) - 1 : gs[k].end < gs[k + 1].beg
    <2> SUFFICES ASSUME NEW k \in 1 .. n PROVE gs[k].end < gs[k + 1].beg
      BY <1>1 DEF n
    <2>1. CASE k = n
      BY <1>1, <1>3, <1>9, <2>1 DEF n
    <2>2. CASE k # n
      <3>1. k \in 1 .. n - 1 /\ k + 1 \in 1 .. n
        BY <1>1, <2>2
      <3> QED BY <1>1, <3>1 DEF WordsTo, n
    <2> QED BY <2>1, <2>2
  <1>11. \A k \in DOMAIN gs : gs[k].end <= we
    <2> SUFFICES ASSUME NEW k \in 1 .. n + 1 PROVE gs[k].end <= we
      BY <1>1
    <2>1. CASE k = n + 1
      BY <1>3, <2>1
    <2>2. CASE k \in 1 .. n
      BY <1>1, <1>9, <2>2 DEF n
    <2> QED BY <1>1, <2>1, <2>2
  <1>12. DOMAIN gs \ WordIndex(gs) = {} /\ ~(Trailing(job, l, b, e) /\ we = e)
    <2>1. DOMAIN fs \ WordIndex(fs) = {}
      BY DEF WordsTo
    <2>2. we - 1 \in wb .. we - 1
      OBVIOUS
    <2> QED BY <1>1, <1>7, <2>1, <2>2 DEF Trailing
  <1>13. we \in b .. e
    BY <1>2
  <1>14. {gs[k] : k \in WordIndex(gs)} = {v \in Words(l, b, e) : v.end <= we}
    BY <1>6, <1>8 DEF WordsTo
  <1> QED BY <1>10, <1>11, <1>12, <1>13, <1>14 DEF WordsTo

(* Only blanks are left, which make a field but in vnlog.                  *)
LEMMA WordsBlank ==
  ASSUME NEW l, NEW b \in Nat, NEW e \in Nat, NEW p \in Nat, p < e,
         NEW fs \in Seq(FieldType), WordsTo(job, l, b, e, p, fs),
         \A r \in p .. e - 1 : l[r] \in Blank,
         NEW gs \in Seq(FieldType),
         \/ job.vnlog /\ gs = fs
         \/ /\ ~job.vnlog
            /\ Len(gs) = Len(fs) + 1
            /\ \A k \in 1 .. Len(fs) : gs[k] = fs[k]
            /\ gs[Len(fs) + 1] = [beg |-> e, end |-> e]
  PROVE  WordsTo(job, l, b, e, e, gs)
PROOF
  <1> DEFINE n == Len(fs)
  <1>1. /\ n \in Nat /\ DOMAIN fs = 1 .. n
        /\ \A k \in 1 .. n : fs[k].beg \in Nat /\ fs[k].end \in Nat
    BY FieldsAre
  <1>2. p \in b .. e
    BY DEF WordsTo
  <1>3. {v \in Words(l, b, e) : v.end <= e} = {v \in Words(l, b, e) : v.end <= p}
    <2>1. ASSUME NEW v \in Words(l, b, e), ~(v.end <= p) PROVE FALSE
      <3>1. /\ v.beg \in b .. e /\ v.end \in b .. e /\ v.beg < v.end
            /\ \A q \in v.beg .. v.end - 1 : l[q] \notin Blank
        BY DEF Words
      <3>2. v.end - 1 \in v.beg .. v.end - 1 /\ v.end - 1 \in p .. e - 1
        BY <1>2, <2>1, <3>1
      <3> QED BY <3>1, <3>2
    <2>2. \A v \in Words(l, b, e) : v.end <= p => v.end <= e
      BY DEF Words
    <2> QED BY <2>1, <2>2
  <1>4. /\ {fs[k] : k \in WordIndex(fs)} = {v \in Words(l, b, e) : v.end <= e}
        /\ \A k \in 1 .. n - 1 : fs[k].end < fs[k + 1].beg
        /\ \A k \in 1 .. n : fs[k].end <= p
        /\ DOMAIN fs \ WordIndex(fs) = {}
    BY <1>1, <1>3 DEF WordsTo
  <1>5. Trailing(job, l, b, e) <=> ~job.vnlog
    <2>1. e > b /\ e - 1 \in p .. e - 1
      BY <1>2
    <2> QED BY <2>1 DEF Trailing
  <1>6. \A k \in 1 .. n : fs[k].end < e
    BY <1>1, <1>4
  <1>7. e \in b .. e
    BY <1>2
  <1>8. CASE job.vnlog /\ gs = fs
    <2>1. \A k \in 1 .. n : fs[k].end <= e
      BY <1>1, <1>6
    <2> QED BY <1>1, <1>4, <1>5, <1>7, <1>8, <2>1 DEF WordsTo
  <1>9. CASE /\ ~job.vnlog
             /\ Len(gs) = n + 1
             /\ \A k \in 1 .. n : gs[k] = fs[k]
             /\ gs[n + 1] = [beg |-> e, end |-> e]
    <2>0. /\ ~job.vnlog /\ Len(gs) = n + 1 /\ \A k \in 1 .. n : gs[k] = fs[k]
          /\ gs[n + 1].beg = e /\ gs[n + 1].end = e
          /\ DOMAIN gs = 1 .. n + 1 /\ Len(gs) - 1 = n
      BY <1>1, <1>9, FieldsAre
    <2> HIDE DEF n
    <2>1. WordIndex(gs) = WordIndex(fs)
      BY <1>1, <2>0 DEF WordIndex
    <2>2. {gs[k] : k \in WordIndex(gs)} = {fs[k] : k \in WordIndex(fs)}
      <3>1. \A k \in WordIndex(fs) : gs[k] = fs[k]
        BY <1>1, <2>0 DEF WordIndex
      <3> QED BY <2>1, <3>1
    <2>3. DOMAIN gs \ WordIndex(gs) = {n + 1}
      <3>1. WordIndex(fs) = 1 .. n
        BY <1>1, <1>4 DEF WordIndex
      <3> QED BY <1>1, <2>0, <2>1, <3>1
    <2>4. \A k \in 1 .. n : gs[k].end < gs[k + 1].beg
      <3> SUFFICES ASSUME NEW k \in 1 .. n PROVE gs[k].end < gs[k + 1].beg
        OBVIOUS
      <3>1. CASE k = n
        BY <1>6, <2>0, <3>1
      <3>2. CASE k # n
        <4>1. k \in 1 .. n - 1 /\ k + 1 \in 1 .. n
          BY <1>1, <3>2
        <4> QED BY <1>4, <2>0, <4>1
      <3> QED BY <3>1, <3>2
    <2>5. \A k \in 1 .. n + 1 : gs[k].end <= e
      <3> SUFFICES ASSUME NEW k \in 1 .. n + 1 PROVE gs[k].end <= e
        OBVIOUS
      <3>1. CASE k = n + 1
        BY <2>0, <3>1
      <3>2. CASE k \in 1 .. n
        BY <1>1, <1>6, <2>0, <3>2
      <3> QED BY <1>1, <3>1, <3>2
    <2> QED BY <1>4, <1>5, <1>7, <2>0, <2>2, <2>3, <2>4, <2>5 DEF WordsTo
  <1> QED BY <1>8, <1>9

(* The part that is split ends where a comment begins, or with the line.   *)
LEMMA EndFacts ==
  ASSUME Base, status = "splitting"
  PROVE  LET e == EndOf(job, Line, vnlog_prologue)
         IN  /\ e \in from .. Len(Line) + 1
             /\ \A r \in from .. e - 1 : Line[r] \notin Comments
             /\ e = Len(Line) + 1 \/ Line[e] \in Comments
PROOF
  <1> DEFINE e == EndOf(job, Line, vnlog_prologue)
  <1>1. /\ Line \in Seq(Char) /\ Len(Line) \in Nat /\ from \in Nat \ {0}
        /\ from <= Len(Line) + 1 /\ DOMAIN Line = 1 .. Len(Line)
        /\ \A p \in 1 .. Len(Line) : Line[p] \in Char
    BY LineFacts DEF Base
  <1>2. CASE job.vnlog /\ ~vnlog_prologue
    <2>1. from = 1 /\ Comments = {Hash} /\ e = Past(Line, 1, Char \ {Hash})
      BY <1>2 DEF Base, Comments, EndOf
    <2>2. 1 \in 1 .. Len(Line) + 1 /\ NUL \notin Char \ {Hash}
      BY <1>1, LineReaderAssumption
    <2>3. /\ e \in 1 .. Len(Line) + 1 /\ At(Line, e) \notin Char \ {Hash}
          /\ \A r \in 1 .. e - 1 : Line[r] \in Char \ {Hash}
      BY <1>1, <2>1, <2>2, PastFacts, SMTT(30)
    <2> HIDE DEF e
    <2>4. e = Len(Line) + 1 \/ Line[e] = Hash
      BY <1>1, <2>3 DEF At
    <2> QED BY <2>1, <2>3, <2>4 DEF e
  <1>3. CASE ~(job.vnlog /\ ~vnlog_prologue)
    <2>1. e = Len(Line) + 1 /\ Comments = {}
      BY <1>3 DEF Comments, EndOf
    <2> QED BY <1>1, <2>1
  <1> QED BY <1>2, <1>3

LEMMA SplitDelimitedRight ==
  ASSUME Base, SplitRight, SplitDelimited
  PROVE  SplitRight'
PROOF
  <1>1. /\ ~job.whitespace /\ status = "splitting" /\ status' = status
        /\ job' = job /\ Line' = Line
        /\ Len(Line) >= from /\ pos <= Len(Line) + 1
    BY DEF SplitDelimited, MoreDelimited, Line
  <1>2. PICK e \in pos .. Len(Line) + 1 :
           /\ Comments = {} /\ from = 1
           /\ At(Line, e) \in {NUL, job.in_tab}
           /\ \A r \in pos .. e - 1 : Line[r] # job.in_tab
           /\ [beg |-> pos, end |-> e] \in FieldType
           /\ Add([beg |-> pos, end |-> e])
           /\ pos' = e + 1
    BY SplitDelimitedFacts
  <1>3. /\ Line \in Seq(Char) /\ Line # << >> /\ pos \in 1 .. Len(Line) + 1
        /\ fields \in Seq(FieldType)
    <2>1. Line \in Seq(Char) /\ pos \in Nat \ {0} /\ Len(Line) \in Nat
      BY <1>1, LineFacts DEF Base
    <2>2. Line # << >>
      BY <1>1, <1>2
    <2> QED BY <1>1, <2>1, <2>2 DEF Base, TypeOK
  <1>4. DelimitedTo(job, Line, pos, fields)
    BY <1>1 DEF SplitRight
  <1>5. /\ fields' \in Seq(FieldType) /\ Len(fields') = Len(fields) + 1
        /\ \A k \in 1 .. Len(fields) : fields'[k] = fields[k]
        /\ fields'[Len(fields) + 1] = [beg |-> pos, end |-> e]
    BY <1>2, AddFits
  <1>6. DelimitedTo(job, Line, e + 1, fields')
    BY <1>2, <1>3, <1>4, <1>5, DelimitedStep
  <1>7. DelimitedTo(job, Line', pos', fields')
    BY <1>1, <1>2, <1>6
  <1>8. DelimitedTo(job, Line, pos, fields)'
    BY <1>1, <1>7
  <1> QED BY <1>1, <1>8 DEF SplitRight

LEMMA SplitWordsRight ==
  ASSUME Base, SplitRight, SplitWords
  PROVE  SplitRight'
PROOF
  <1> DEFINE last == EndOf(job, Line, vnlog_prologue)
  <1>1. /\ job.whitespace /\ status = "splitting" /\ status' = status
        /\ job' = job /\ Line' = Line /\ from' = from
        /\ vnlog_prologue' = vnlog_prologue
    BY SplitWordsFacts DEF SplitWords, Line, vnlog_prologue
  <1>2. /\ Line \in Seq(Char) /\ Len(Line) \in Nat
        /\ DOMAIN Line = 1 .. Len(Line) /\ from \in Nat \ {0}
        /\ \A r \in 1 .. Len(Line) : Line[r] \in Char
        /\ fields \in Seq(FieldType)
    BY <1>1, LineFacts DEF Base, TypeOK
  <1>3. /\ last \in from .. Len(Line) + 1
        /\ \A r \in from .. last - 1 : Line[r] \notin Comments
        /\ last = Len(Line) + 1 \/ Line[last] \in Comments
    BY <1>1, EndFacts
  <1>4. WordsTo(job, Line, from, last, pos, fields)
    BY <1>1 DEF SplitRight
  <1>5. last' = last
    BY <1>1 DEF EndOf
  <1> HIDE DEF last
  <1>6. pos \in from .. last
    BY <1>4 DEF WordsTo
  <1>7. pos \in 1 .. Len(Line) /\ Line[pos] \notin Comments
    BY SplitWordsFacts
  <1>8. PICK b \in pos .. Len(Line) + 1, e \in pos .. Len(Line) + 1 :
           /\ b <= e
           /\ At(Line, b) \notin Blank
           /\ \A r \in pos .. b - 1 : Line[r] \in Blank
           /\ At(Line, e) \in Blank \cup Comments \cup {NUL}
           /\ \A r \in b .. e - 1 : Line[r] \notin Blank \cup Comments
           /\ [beg |-> b, end |-> e] \in FieldType
           /\ IF job.vnlog /\ e = b
              THEN fields' = fields /\ alloc_fields' = alloc_fields
              ELSE Add([beg |-> b, end |-> e])
           /\ pos' = e
    <2>1. PICK b \in pos .. Len(Line) + 1 : \E e \in b .. Len(Line) + 1 :
              /\ At(Line, b) \notin Blank
              /\ \A r \in pos .. b - 1 : Line[r] \in Blank
              /\ At(Line, e) \in Blank \cup Comments \cup {NUL}
              /\ \A r \in b .. e - 1 : Line[r] \notin Blank \cup Comments
              /\ [beg |-> b, end |-> e] \in FieldType
              /\ IF job.vnlog /\ e = b
                 THEN fields' = fields /\ alloc_fields' = alloc_fields
                 ELSE Add([beg |-> b, end |-> e])
              /\ pos' = e
      BY SplitWordsFacts
    <2>2. PICK e \in b .. Len(Line) + 1 :
              /\ At(Line, b) \notin Blank
              /\ \A r \in pos .. b - 1 : Line[r] \in Blank
              /\ At(Line, e) \in Blank \cup Comments \cup {NUL}
              /\ \A r \in b .. e - 1 : Line[r] \notin Blank \cup Comments
              /\ [beg |-> b, end |-> e] \in FieldType
              /\ IF job.vnlog /\ e = b
                 THEN fields' = fields /\ alloc_fields' = alloc_fields
                 ELSE Add([beg |-> b, end |-> e])
              /\ pos' = e
      BY <2>1
    <2>3. b <= e /\ e \in pos .. Len(Line) + 1
      BY <1>2, <1>7
    <2> QED BY <2>2, <2>3
  <1>9. Comments \cap Blank = {} /\ NUL \notin Char
    BY LineReaderAssumption DEF Comments
  <1>10. pos < last
    BY <1>2, <1>3, <1>6, <1>7
  <1>11. b <= last
    <2>1. ASSUME last < b PROVE FALSE
      <3>1. last \in pos .. b - 1 /\ last # Len(Line) + 1
        BY <1>2, <1>3, <1>7, <1>10, <2>1
      <3> QED BY <1>3, <1>8, <1>9, <3>1
    <2> QED BY <1>2, <1>3, <1>7, <2>1
  <1>12. e <= last
    <2>1. ASSUME last < e PROVE FALSE
      <3>1. last \in b .. e - 1 /\ last # Len(Line) + 1
        BY <1>2, <1>3, <1>7, <1>8, <1>11, <2>1
      <3> QED BY <1>3, <1>8, <3>1
    <2> QED BY <1>2, <1>3, <1>7, <2>1
  <1>13. ASSUME NEW q \in pos .. last - 1
         PROVE  At(Line, q) = Line[q] /\ At(Line, q) # NUL /\ At(Line, q) \notin Comments
    <2>1. q \in DOMAIN Line /\ q \in from .. last - 1
      BY <1>2, <1>3, <1>6, <1>7
    <2> QED BY <1>2, <1>3, <1>9, <2>1 DEF At
  <1>14. /\ last \in Nat /\ from \in Nat /\ pos \in Nat /\ b \in pos .. last
         /\ e \in pos .. last
    BY <1>2, <1>3, <1>7, <1>11, <1>12
  <1>15. WordsTo(job, Line, from, last, pos', fields')
    <2>1. CASE b < e
      <3>1. e = last \/ Line[e] \in Blank
        <4>1. ASSUME e # last PROVE Line[e] \in Blank
          <5>1. e \in pos .. last - 1
            BY <1>14, <4>1
          <5> QED BY <1>8, <1>13, <5>1
        <4> QED BY <4>1
      <3>2. Add([beg |-> b, end |-> e])
        BY <1>8, <1>14, <2>1
      <3>3. /\ fields' \in Seq(FieldType) /\ Len(fields') = Len(fields) + 1
            /\ \A k \in 1 .. Len(fields) : fields'[k] = fields[k]
            /\ fields'[Len(fields) + 1] = [beg |-> b, end |-> e]
        BY <1>8, <3>2, AddFits
      <3>4. \A r \in b .. e - 1 : Line[r] \notin Blank
        BY <1>8
      <3>5. WordsTo(job, Line, from, last, e, fields')
        BY <1>2, <1>4, <1>8, <1>10, <1>14, <2>1, <3>1, <3>3, <3>4, WordsAdd
      <3> QED BY <1>8, <3>5
    <2>2. CASE b = e
      <3>1. e = last
        <4>1. ASSUME e # last PROVE FALSE
          <5>1. e \in pos .. last - 1
            BY <1>14, <4>1
          <5> QED BY <1>8, <1>13, <2>2, <5>1
        <4> QED BY <4>1
      <3>2. /\ fields' \in Seq(FieldType)
            /\ \/ job.vnlog /\ fields' = fields
               \/ /\ ~job.vnlog
                  /\ Len(fields') = Len(fields) + 1
                  /\ \A k \in 1 .. Len(fields) : fields'[k] = fields[k]
                  /\ fields'[Len(fields) + 1] = [beg |-> last, end |-> last]
        <4>1. CASE job.vnlog
          BY <1>2, <1>8, <2>2, <4>1
        <4>2. CASE ~job.vnlog
          <5>1. Add([beg |-> b, end |-> e])
            BY <1>8, <4>2
          <5> QED BY <1>8, <2>2, <3>1, <4>2, <5>1, AddFits
        <4> QED BY <4>1, <4>2
      <3>3. \A r \in pos .. last - 1 : Line[r] \in Blank
        BY <1>8, <2>2, <3>1
      <3>4. WordsTo(job, Line, from, last, last, fields')
        BY <1>2, <1>4, <1>10, <1>14, <3>2, <3>3, WordsBlank
      <3> QED BY <1>8, <3>1, <3>4
    <2> QED BY <1>8, <1>14, <2>1, <2>2
  <1>16. WordsTo(job, Line', from', last', pos', fields')
    BY <1>1, <1>5, <1>15
  <1>17. WordsTo(job, Line, from, last, pos, fields)'
    BY <1>1, <1>16
  <1> QED BY <1>1, <1>17 DEF SplitRight, last

(* A line that is begun has no fields yet.                                 *)
LEMMA StartRight ==
  ASSUME Base, PassOver \/ TakeHeader \/ TakeLine
  PROVE  SplitRight'
PROOF
  <1>1. /\ lines + 1 \in 1 .. Len(input) /\ NextLine \in Seq(Char)
        /\ job' = job /\ records' = records
    BY ReadsFacts
  <1>2. SUFFICES ASSUME status' = "splitting" PROVE SplitRight'
    BY DEF SplitRight
  <1>3. /\ Line' = NextLine /\ fields' = << >> /\ pos' = from'
        /\ from' \in 1 .. Len(NextLine) + 1
    BY <1>2, ReadsFacts
  <1>4. from' = 1 \/ vnlog_prologue'
    BY <1>2, ReadsFacts
  <1>5. CASE job.whitespace
    <2> DEFINE last == EndOf(job, Line, vnlog_prologue)
    <2>1. last' = IF job.vnlog /\ ~vnlog_prologue' THEN Past(NextLine, 1, Char \ {Hash})
                  ELSE Len(NextLine) + 1
      BY <1>1, <1>3 DEF EndOf
    <2>2. last' \in from' .. Len(Line') + 1
      <3>1. CASE job.vnlog /\ ~vnlog_prologue'
        <4>1. 1 \in 1 .. Len(NextLine) + 1 /\ NUL \notin Char \ {Hash}
          BY <1>1, LineReaderAssumption
        <4>2. Past(NextLine, 1, Char \ {Hash}) \in 1 .. Len(NextLine) + 1
          BY <1>1, <4>1, PastFacts
        <4> QED BY <1>3, <1>4, <2>1, <3>1, <4>2
      <3>2. CASE ~(job.vnlog /\ ~vnlog_prologue')
        <4>1. Len(NextLine) \in Nat /\ from' \in 1 .. Len(NextLine) + 1
          BY <1>1, <1>3
        <4> QED BY <1>3, <2>1, <3>2, <4>1
      <3> QED BY <3>1, <3>2
    <2> HIDE DEF last
    <2>3. from' \in Nat /\ last' \in Nat /\ from' <= last' /\ Len(NextLine) \in Nat
      BY <1>1, <1>3, <2>2
    <2>4. WordsTo(job, Line', from', last', from', << >>)
      BY <2>3, WordsStart
    <2>5. WordsTo(job, Line, from, last, pos, fields)'
      BY <1>1, <1>3, <2>4
    <2> QED BY <1>1, <1>5, <2>5 DEF SplitRight, last
  <1>6. CASE ~job.whitespace
    <2>1. ~vnlog_prologue'
      BY <1>1, <1>6, Types DEF Base, vnlog_prologue
    <2>2. from' = 1
      BY <1>4, <2>1
    <2>3. DelimitedTo(job, Line', 1, << >>)
      BY DelimitedStart
    <2>4. DelimitedTo(job, Line, pos, fields)'
      BY <1>1, <1>3, <2>2, <2>3
    <2> QED BY <1>1, <1>6, <2>4 DEF SplitRight
  <1> QED BY <1>5, <1>6

(* What Return returns.                                                    *)
LEMMA ReturnRight ==
  ASSUME Base, SplitRight, Return
  PROVE  IF job.whitespace
         THEN WordsAre(job, Line, from, EndOf(job, Line, vnlog_prologue), fields)
         ELSE DelimitedIs(job, Line, fields)
PROOF
  <1> DEFINE last == EndOf(job, Line, vnlog_prologue)
  <1>1. /\ status = "splitting"
        /\ IF job.whitespace THEN ~MoreWords ELSE ~MoreDelimited
    BY DEF Return
  <1>2. /\ Line \in Seq(Char) /\ Len(Line) \in Nat
        /\ DOMAIN Line = 1 .. Len(Line) /\ from \in Nat \ {0}
        /\ pos \in Nat \ {0} /\ pos <= Len(Line) + 2
    BY <1>1, LineFacts DEF Base
  <1>3. CASE job.whitespace
    <2>1. /\ last \in from .. Len(Line) + 1
          /\ \A r \in from .. last - 1 : Line[r] \notin Comments
          /\ last = Len(Line) + 1 \/ Line[last] \in Comments
      BY <1>1, EndFacts
    <2>2. WordsTo(job, Line, from, last, pos, fields)
      BY <1>1, <1>3 DEF SplitRight
    <2> HIDE DEF last
    <2>3. pos \in from .. last
      BY <2>2 DEF WordsTo
    <2>4. ~(pos <= Len(Line) /\ Line[pos] \notin Comments)
      BY <1>1, <1>2, <1>3 DEF MoreWords, At
    <2>5. pos = last
      <3>1. ASSUME pos # last PROVE FALSE
        <4>1. pos \in from .. last - 1 /\ pos <= Len(Line)
          BY <1>2, <2>1, <2>3, <3>1
        <4> QED BY <2>1, <2>4, <4>1
      <3> QED BY <3>1
    <2>6. last \in Nat /\ from \in Nat
      BY <1>2, <2>1
    <2> QED BY <1>3, <2>2, <2>5, <2>6, WordsEnd DEF last
  <1>4. CASE ~job.whitespace
    <2>1. ~job.vnlog
      BY <1>4, Types DEF Base
    <2>2. from = 1 /\ Comments = {}
      BY <1>1, <2>1 DEF Base, vnlog_prologue, Comments
    <2>3. ~(1 <= Len(Line) /\ pos <= Len(Line) + 1)
      BY <1>1, <1>2, <1>4, <2>2 DEF MoreDelimited
    <2>4. DelimitedTo(job, Line, pos, fields) /\ pos \in 1 .. Len(Line) + 2
      BY <1>1, <1>2, <1>4 DEF SplitRight
    <2> QED BY <1>2, <1>4, <2>3, <2>4, DelimitedEnd
  <1> QED BY <1>3, <1>4

LEMMA FieldsStep ==
  Base /\ SplitRight /\ RecordsRight /\ [Next]_vars => SplitRight' /\ RecordsRight'
PROOF
  <1> SUFFICES ASSUME Base, SplitRight, RecordsRight, [Next]_vars
               PROVE  SplitRight' /\ RecordsRight'
    OBVIOUS
  <1>0. ASSUME job' = job, input' = input, records' = records
        PROVE  RecordsRight'
    BY <1>0 DEF RecordsRight
  <1>1. CASE PassOver \/ TakeHeader \/ TakeLine
    <2>1. job' = job /\ input' = input /\ records' = records
      BY <1>1, ReadsFacts
    <2> QED BY <1>0, <1>1, <2>1, StartRight
  <1>2. CASE EndOfInput
    <2>1. status' = "eof" /\ job' = job /\ input' = input /\ records' = records
      BY <1>2 DEF EndOfInput
    <2> QED BY <1>0, <2>1 DEF SplitRight
  <1>3. CASE SplitDelimited \/ SplitWords
    <2>1. job' = job /\ input' = input /\ records' = records
      BY <1>3 DEF SplitDelimited, SplitWords
    <2> QED BY <1>0, <1>3, <2>1, SplitDelimitedRight, SplitWordsRight
  <1>4. CASE Return
    <2> DEFINE r == [line |-> lines, from |-> from, fields |-> fields]
               n == Len(records)
    <2>1. /\ status' = "reading" /\ job' = job /\ input' = input
          /\ records' = Append(records, r)
      BY <1>4 DEF Return
    <2>2. r.line = lines /\ r.from = from /\ r.fields = fields /\ Line = input[r.line]
      BY DEF Line
    <2> HIDE DEF r
    <2>3. records \in Seq(RecordType) /\ n \in Nat /\ DOMAIN records = 1 .. n
      BY DEF Base
    <2>4. /\ DOMAIN records' = 1 .. n + 1 /\ records'[n + 1] = r
          /\ \A k \in 1 .. n : records'[k] = records[k]
      BY <2>1, <2>3
    <2>6. vnlog_prologue <=> job.vnlog /\ job.named /\ n + 1 = 1
      BY <2>3 DEF vnlog_prologue
    <2>7. IF job.whitespace
          THEN WordsAre(job, Line, from, EndOf(job, Line, vnlog_prologue), fields)
          ELSE DelimitedIs(job, Line, fields)
      BY <1>4, ReturnRight
    <2>8. IF job.whitespace
          THEN WordsAre(job, Line, from,
                          EndOf(job, Line, job.vnlog /\ job.named /\ n + 1 = 1), fields)
          ELSE DelimitedIs(job, Line, fields)
      BY <2>6, <2>7 DEF EndOf
    <2>9. RecordOf(job, input, r, n + 1 = 1)
      BY <2>2, <2>8 DEF RecordOf
    <2>10. ASSUME NEW k \in 1 .. n + 1
           PROVE  RecordOf(job, input, records'[k], k = 1)
      <3>1. k \in 1 .. n \/ k = n + 1
        BY <2>3
      <3> QED BY <2>3, <2>4, <2>9, <3>1 DEF RecordsRight
    <2>11. RecordsRight'
      BY <2>1, <2>4, <2>10 DEF RecordsRight
    <2> QED BY <2>1, <2>11 DEF SplitRight
  <1>5. CASE UNCHANGED vars
    <2>1. /\ job' = job /\ input' = input /\ lines' = lines /\ from' = from
          /\ pos' = pos /\ fields' = fields /\ records' = records /\ status' = status
      BY <1>5 DEF vars
    <2>2. SplitRight'
      BY <2>1 DEF SplitRight, vnlog_prologue, Line
    <2> QED BY <1>0, <2>1, <2>2
  <1> QED BY <1>1, <1>2, <1>3, <1>4, <1>5 DEF Next, Stopped

-----------------------------------------------------------------------------
(* The lines.                                                              *)

LEMMA CountFacts ==
  ASSUME NEW l
  PROVE  /\ LeadingCommentCount(l) \in {0, 1, 2}
         /\ LeadingCommentCount(l) = 0 <=> First(l) \notin {Hash, NUL}
         /\ LeadingCommentCount(l) = 1 => First(l) = Hash
PROOF
  <1> DEFINE c == Past(l, 1, Blank)
             next == At(l, c + 1) \in {Hash, Bang}
  <1>1. First(l) = At(l, c)
    BY DEF First
  <1>2. Hash # NUL
    BY DEF Hash, NUL
  <1>3. LeadingCommentCount(l) =
          CASE First(l) = NUL -> 2
            [] First(l) \notin {Hash, NUL} -> 0
            [] First(l) = Hash /\ next -> 2
            [] OTHER -> 1
    BY <1>1 DEF LeadingCommentCount
  <1> HIDE DEF next
  <1> QED BY <1>2, <1>3

(* Which lines are passed over, and what is the first one that is not when *)
(* the header is wanted.                                                   *)
LEMMA PassedFacts ==
  ASSUME Base, NEW l \in Seq(Char)
  PROVE  /\ Passed(l) => LeftOut(job, l)
         /\ ~vnlog_prologue => (Passed(l) <=> LeftOut(job, l))
         /\ vnlog_prologue /\ ~Passed(l) =>
              IF LeadingCommentCount(l) = 1
              THEN LeftOut(job, l) /\ At(l, Legend(l)) \notin Blank \cup {NUL}
              ELSE ~LeftOut(job, l)
PROOF
  <1>1. /\ First(l) = NUL <=> BlankLine(l)
        /\ First(l) \in {Hash} <=> Begins(l, {Hash})
        /\ First(l) \in {Hash, Semicolon} <=> Begins(l, {Hash, Semicolon})
    <2>1. /\ {Hash} \in SUBSET (Char \ Blank)
          /\ {Hash, Semicolon} \in SUBSET (Char \ Blank)
      BY LineReaderAssumption
    <2> QED BY <2>1, FirstFacts
  <1>2. job.vnlog => (LeftOut(job, l) <=> First(l) \in {Hash, NUL})
    BY <1>1 DEF LeftOut
  <1>3. ~job.vnlog => (LeftOut(job, l) <=> job.skip_comments /\ IsComment(l))
    BY <1>1 DEF LeftOut, IsComment
  <1>4. CASE vnlog_prologue
    <2>1. job.vnlog
      BY <1>4 DEF vnlog_prologue
    <2>2. Passed(l) <=> \/ LeadingCommentCount(l) = 2
                        \/ LeadingCommentCount(l) = 1 /\ At(l, Legend(l)) = NUL
      BY <1>4 DEF Passed
    <2>3. At(l, Legend(l)) \notin Blank
      BY LegendFacts
    <2> QED BY <1>2, <1>4, <2>1, <2>2, <2>3, CountFacts
  <1>5. CASE ~vnlog_prologue
    BY <1>2, <1>3, <1>5 DEF Passed
  <1> QED BY <1>4, <1>5

LEMMA InitLines == Init => LinesRight
BY DEF Init, LinesRight, Taken, HeaderLines, LinesRead

(* Where a line is begun or left.                                          *)
LEMMA ReadsLines ==
  ASSUME Base, LinesRight, PassOver \/ TakeHeader \/ TakeLine
  PROVE  LinesRight'
PROOF
  <1>1. /\ status = "reading" /\ lines' = lines + 1
        /\ lines + 1 \in 1 .. Len(input) /\ NextLine \in Seq(Char)
        /\ job' = job /\ input' = input /\ records' = records
    BY ReadsFacts
  <1>2. lines \in Nat /\ NextLine = input[lines + 1] /\ Line' = NextLine
    BY <1>1, Types DEF Base, NextLine, Line
  <1>3. vnlog_prologue' = vnlog_prologue /\ Taken' = Taken /\ HeaderLines' = HeaderLines
    BY <1>1 DEF vnlog_prologue, Taken, HeaderLines
  <1>5. /\ Taken = HeaderLines \cup {n \in 1 .. lines : ~LeftOut(job, input[n])}
        /\ \A k \in 1 .. Len(records) - 1 : records[k].line < records[k + 1].line
        /\ \A n \in HeaderLines : LeftOut(job, input[n]) /\ records[1].fields # << >>
    BY <1>1 DEF LinesRight, LinesRead
  <1>6. \A n \in HeaderLines' : LeftOut(job, input'[n]) /\ records'[1].fields # << >>
    BY <1>1, <1>3, <1>5
  <1>7. CASE status' = "reading" /\ Passed(NextLine)
    <2>1. LeftOut(job, NextLine)
      BY <1>1, <1>7, PassedFacts
    <2>2. {n \in 1 .. lines + 1 : ~LeftOut(job, input[n])} =
            {n \in 1 .. lines : ~LeftOut(job, input[n])}
      BY <1>2, <2>1
    <2>3. LinesRead' = 1 .. lines + 1
      BY <1>1, <1>7 DEF LinesRead
    <2>4. Taken' = HeaderLines' \cup {n \in LinesRead' : ~LeftOut(job, input'[n])}
      BY <1>1, <1>3, <1>5, <2>2, <2>3
    <2> QED BY <1>1, <1>5, <1>6, <1>7, <2>4 DEF LinesRight
  <1>8. CASE /\ status' = "splitting"
             /\ LeftOut(job, NextLine) <=> vnlog_prologue
             /\ vnlog_prologue => At(NextLine, from') \notin Blank \cup {NUL}
             /\ pos' = from'
    <2>1. LinesRead' = 1 .. lines
      BY <1>1, <1>2, <1>8 DEF LinesRead
    <2>2. Taken' = HeaderLines' \cup {n \in LinesRead' : ~LeftOut(job, input'[n])}
      BY <1>1, <1>3, <1>5, <2>1
    <2>3. \A k \in DOMAIN records' : records'[k].line < lines'
      <3>1. \A k \in DOMAIN records : records[k].line \in 1 .. lines
        BY DEF Base, TypeOK
      <3> QED BY <1>1, <1>2, <3>1
    <2>4. LeftOut(job, Line') <=> vnlog_prologue'
      BY <1>2, <1>3, <1>8
    <2> QED BY <1>1, <1>2, <1>3, <1>5, <1>6, <1>8, <2>2, <2>3, <2>4 DEF LinesRight
  <1>9. CASE status' = "data before header" /\ vnlog_prologue /\ ~LeftOut(job, NextLine)
    <2>1. records' = << >> /\ lines' > 0
      <3>1. records = << >>
        BY <1>9 DEF vnlog_prologue
      <3>2. lines + 1 > 0
        BY <1>2
      <3> QED BY <1>1, <3>1, <3>2
    <2>2. ~LeftOut(job, input'[lines'])
      BY <1>1, <1>2, <1>9
    <2> QED BY <1>1, <1>5, <1>6, <1>9, <2>1, <2>2 DEF LinesRight
  <1>10. \/ status' = "reading" /\ Passed(NextLine)
         \/ /\ status' = "splitting"
            /\ LeftOut(job, NextLine) <=> vnlog_prologue
            /\ vnlog_prologue => At(NextLine, from') \notin Blank \cup {NUL}
            /\ pos' = from'
         \/ status' = "data before header" /\ vnlog_prologue /\ ~LeftOut(job, NextLine)
    <2>1. CASE PassOver
      BY <2>1 DEF PassOver
    <2>2. CASE TakeLine
      BY <1>1, <2>2, PassedFacts DEF TakeLine, Start
    <2>3. CASE TakeHeader
      <3>1. vnlog_prologue /\ ~Passed(NextLine)
        BY <2>3 DEF TakeHeader
      <3>2. CASE LeadingCommentCount(NextLine) = 1
        BY <1>1, <2>3, <3>1, <3>2, PassedFacts DEF TakeHeader, Start
      <3>3. CASE LeadingCommentCount(NextLine) # 1
        BY <1>1, <2>3, <3>1, <3>3, PassedFacts DEF TakeHeader
      <3> QED BY <3>2, <3>3
    <2> QED BY <2>1, <2>2, <2>3
  <1> QED BY <1>7, <1>8, <1>9, <1>10

(* Where a field is found.                                                 *)
LEMMA SplitLines ==
  ASSUME Base, LinesRight, SplitDelimited \/ SplitWords
  PROVE  LinesRight'
PROOF
  <1>1. /\ status = "splitting" /\ status' = status
        /\ job' = job /\ input' = input /\ lines' = lines /\ from' = from
        /\ records' = records /\ Line' = Line
    BY DEF SplitDelimited, SplitWords, Line
  <1>2. /\ vnlog_prologue' = vnlog_prologue /\ Taken' = Taken
        /\ HeaderLines' = HeaderLines /\ LinesRead' = LinesRead
    BY <1>1 DEF vnlog_prologue, Taken, HeaderLines, LinesRead
  <1>3. ASSUME vnlog_prologue
        PROVE  /\ At(Line, from) \notin Blank \cup {NUL}
               /\ fields' # << >>
    <2>1. /\ At(Line, from) \notin Blank \cup {NUL}
          /\ pos = from \/ fields # << >>
      BY <1>1, <1>3 DEF LinesRight
    <2>2. SplitWords
      <3>1. job.whitespace
        BY <1>3, Types DEF Base, vnlog_prologue
      <3> QED BY <3>1 DEF SplitDelimited
    <2>3. /\ Line \in Seq(Char) /\ Len(Line) \in Nat /\ DOMAIN Line = 1 .. Len(Line)
          /\ fields \in Seq(FieldType)
      BY <1>1, LineFacts DEF Base, TypeOK
    <2>4. Comments = {}
      BY <1>3 DEF Comments
    <2>5. pos \in 1 .. Len(Line)
      BY <2>2, SplitWordsFacts
    <2>6. PICK b \in pos .. Len(Line) + 1 : \E e \in b .. Len(Line) + 1 :
            /\ At(Line, b) \notin Blank
            /\ \A r \in pos .. b - 1 : Line[r] \in Blank
            /\ At(Line, e) \in Blank \cup Comments \cup {NUL}
            /\ [beg |-> b, end |-> e] \in FieldType
            /\ IF job.vnlog /\ e = b
               THEN fields' = fields /\ alloc_fields' = alloc_fields
               ELSE Add([beg |-> b, end |-> e])
      BY <2>2, SplitWordsFacts
    <2>7. PICK e \in b .. Len(Line) + 1 :
            /\ At(Line, e) \in Blank \cup {NUL}
            /\ [beg |-> b, end |-> e] \in FieldType
            /\ IF job.vnlog /\ e = b
               THEN fields' = fields /\ alloc_fields' = alloc_fields
               ELSE Add([beg |-> b, end |-> e])
      BY <2>4, <2>6
    <2>8. CASE pos = from
      <3>1. At(Line, pos) = Line[pos]
        BY <2>3, <2>5 DEF At
      <3>2. b = pos
        <4>1. ASSUME b # pos PROVE FALSE
          <5>1. pos \in pos .. b - 1
            BY <2>5, <4>1
          <5> QED BY <2>1, <2>6, <2>8, <3>1, <5>1
        <4> QED BY <4>1
      <3>3. e # b
        BY <2>1, <2>7, <2>8, <3>2
      <3>4. Add([beg |-> b, end |-> e])
        BY <2>7, <3>3
      <3> QED BY <2>1, <2>7, <3>4, AddFits
    <2>9. CASE fields # << >>
      BY <2>1, <2>7, <2>9, AddFits
    <2> QED BY <2>1, <2>8, <2>9
  <1>4. /\ \A k \in 1 .. Len(records) - 1 : records[k].line < records[k + 1].line
        /\ \A k \in DOMAIN records : records[k].line < lines
        /\ LeftOut(job, Line) <=> vnlog_prologue
        /\ Taken = HeaderLines \cup {n \in LinesRead : ~LeftOut(job, input[n])}
        /\ \A n \in HeaderLines : LeftOut(job, input[n]) /\ records[1].fields # << >>
    BY <1>1 DEF LinesRight
  <1> QED BY <1>1, <1>2, <1>3, <1>4 DEF LinesRight

(* Where a record is returned.                                             *)
LEMMA ReturnLines ==
  ASSUME Base, LinesRight, Return
  PROVE  LinesRight'
PROOF
  <1> DEFINE r == [line |-> lines, from |-> from, fields |-> fields]
             n == Len(records)
  <1>1. /\ status = "splitting" /\ status' = "reading" /\ job' = job /\ input' = input
        /\ lines' = lines /\ records' = Append(records, r)
    BY DEF Return
  <1>2. r.line = lines /\ r.fields = fields
    OBVIOUS
  <1> HIDE DEF r
  <1>3. /\ records \in Seq(RecordType) /\ n \in Nat /\ DOMAIN records = 1 .. n
        /\ lines \in Nat \ {0}
    BY <1>1, Types DEF Base, TypeOK
  <1>4. /\ DOMAIN records' = 1 .. n + 1 /\ records'[n + 1] = r /\ Len(records') = n + 1
        /\ \A k \in 1 .. n : records'[k] = records[k]
    BY <1>1, <1>3
  <1>5. /\ \A k \in 1 .. n - 1 : records[k].line < records[k + 1].line
        /\ \A k \in 1 .. n : records[k].line < lines
        /\ LeftOut(job, Line) <=> vnlog_prologue
        /\ Taken = HeaderLines \cup {m \in 1 .. lines - 1 : ~LeftOut(job, input[m])}
        /\ \A m \in HeaderLines : LeftOut(job, input[m]) /\ records[1].fields # << >>
        /\ vnlog_prologue => pos = from \/ fields # << >>
        /\ vnlog_prologue => At(Line, from) # NUL
    BY <1>1, <1>3 DEF LinesRight, LinesRead
  <1> HIDE DEF n
  <1>6. Taken' = Taken \cup {lines}
    <2>1. Taken = {records[k].line : k \in 1 .. n}
      BY <1>3 DEF Taken
    <2>2. Taken' = {records'[k].line : k \in 1 .. n + 1}
      BY <1>4 DEF Taken
    <2>3. \A k \in 1 .. n + 1 : k \in 1 .. n \/ k = n + 1
      BY <1>3
    <2>4. 1 .. n \subseteq 1 .. n + 1 /\ n + 1 \in 1 .. n + 1
      BY <1>3
    <2> QED BY <1>2, <1>4, <2>1, <2>2, <2>3, <2>4
  <1>7. LinesRead' = 1 .. lines
    BY <1>1 DEF LinesRead
  <1>8. Line = input[lines]
    BY DEF Line
  <1>9. \A k \in 1 .. n : records'[k].line < records'[k + 1].line
    <2> SUFFICES ASSUME NEW k \in 1 .. n
                 PROVE  records'[k].line < records'[k + 1].line
      OBVIOUS
    <2>1. CASE k = n
      BY <1>2, <1>4, <1>5, <2>1
    <2>2. CASE k # n
      <3>1. k \in 1 .. n - 1 /\ k + 1 \in 1 .. n
        BY <1>3, <2>2
      <3> QED BY <1>4, <1>5, <3>1
    <2> QED BY <2>1, <2>2
  <1>10. records' # << >>
    BY <1>3, <1>4
  <1>13. \A k \in 1 .. Len(records') - 1 : records'[k].line < records'[k + 1].line
    <2>1. Len(records') - 1 = n
      BY <1>3, <1>4
    <2> QED BY <1>9, <2>1
  <1>11. CASE vnlog_prologue
    <2>1. records = << >> /\ job.vnlog /\ job.named /\ n = 0
      BY <1>11 DEF vnlog_prologue, n
    <2>2. fields # << >>
      <3>1. job.whitespace
        BY <2>1, Types DEF Base
      <3>2. ~(pos <= Len(Line) /\ At(Line, pos) \notin Comments)
        BY <3>1 DEF Return, MoreWords
      <3>3. Comments = {} /\ Len(Line) \in Nat /\ from \in Nat
        BY <1>1, <1>11, LineFacts DEF Comments, Base
      <3>4. pos # from
        <4>1. ASSUME pos = from PROVE FALSE
          <5>1. ~(from \in DOMAIN Line)
            <6>1. ~(from <= Len(Line))
              BY <3>2, <3>3, <4>1
            <6>2. DOMAIN Line = 1 .. Len(Line)
              BY <1>1, LineFacts DEF Base
            <6> QED BY <3>3, <6>1, <6>2
          <5> QED BY <1>5, <1>11, <5>1 DEF At
        <4> QED BY <4>1
      <3> QED BY <1>5, <1>11, <3>4
    <2>3. Taken = {} /\ HeaderLines = {}
      BY <2>1 DEF Taken, HeaderLines
    <2>4. HeaderLines' = {lines} /\ records'[1].fields = fields
      BY <1>1, <1>2, <1>4, <1>10, <2>1 DEF HeaderLines
    <2>5. {m \in 1 .. lines : ~LeftOut(job, input[m])} = {}
      <3>1. {m \in 1 .. lines - 1 : ~LeftOut(job, input[m])} = {}
        BY <1>5, <2>3
      <3>2. LeftOut(job, input[lines])
        BY <1>5, <1>8, <1>11
      <3> QED BY <1>3, <3>1, <3>2
    <2>6. Taken' = HeaderLines' \cup {m \in LinesRead' : ~LeftOut(job', input'[m])}
      BY <1>1, <1>6, <1>7, <2>3, <2>4, <2>5
    <2>7. \A m \in HeaderLines' : /\ LeftOut(job', input'[m])
                                  /\ records'[1].fields # << >>
      BY <1>1, <1>5, <1>8, <1>11, <2>2, <2>4
    <2> QED BY <1>1, <1>13, <2>6, <2>7 DEF LinesRight
  <1>12. CASE ~vnlog_prologue
    <2>1. HeaderLines' = HeaderLines
      <3>1. job.vnlog /\ job.named => n # 0 /\ records # << >>
        BY <1>3, <1>12 DEF vnlog_prologue, n
      <3>2. n # 0 => records'[1] = records[1]
        BY <1>3, <1>4
      <3> QED BY <1>1, <1>10, <3>1, <3>2 DEF HeaderLines
    <2>2. HeaderLines # {} => records'[1] = records[1]
      <3>1. HeaderLines # {} => n # 0
        BY <1>3 DEF HeaderLines, n
      <3> QED BY <1>3, <1>4, <3>1
    <2>3. {m \in 1 .. lines : ~LeftOut(job, input[m])} =
            {m \in 1 .. lines - 1 : ~LeftOut(job, input[m])} \cup {lines}
      BY <1>3, <1>5, <1>8, <1>12
    <2>4. Taken' = HeaderLines' \cup {m \in 1 .. lines : ~LeftOut(job, input[m])}
      BY <1>5, <1>6, <2>1, <2>3
    <2>5. Taken' = HeaderLines' \cup {m \in LinesRead' : ~LeftOut(job', input'[m])}
      BY <1>1, <1>7, <2>4
    <2>6. \A m \in HeaderLines' : /\ LeftOut(job', input'[m])
                                  /\ records'[1].fields # << >>
      BY <1>1, <1>5, <2>1, <2>2
    <2> QED BY <1>1, <1>13, <2>5, <2>6 DEF LinesRight
  <1> QED BY <1>11, <1>12

LEMMA LinesStep == Base /\ LinesRight /\ [Next]_vars => LinesRight'
PROOF
  <1> SUFFICES ASSUME Base, LinesRight, [Next]_vars PROVE LinesRight'
    OBVIOUS
  <1>1. CASE EndOfInput \/ UNCHANGED vars
    <2>1. /\ job' = job /\ input' = input /\ lines' = lines /\ from' = from
          /\ pos' = pos /\ fields' = fields /\ records' = records
          /\ status' = status \/ (status = "reading" /\ status' = "eof")
      <3>1. CASE EndOfInput
        BY <3>1 DEF EndOfInput
      <3>2. CASE UNCHANGED vars
        BY <3>2 DEF vars
      <3> QED BY <1>1, <3>1, <3>2
    <2>2. /\ Line' = Line /\ vnlog_prologue' = vnlog_prologue /\ Taken' = Taken
          /\ HeaderLines' = HeaderLines /\ LinesRead' = LinesRead
      BY <2>1 DEF Line, vnlog_prologue, Taken, HeaderLines, LinesRead
    <2> QED BY <2>1, <2>2 DEF LinesRight
  <1> QED BY <1>1, ReadsLines, SplitLines, ReturnLines DEF Next, Stopped

-----------------------------------------------------------------------------
(* The header.                                                             *)

(* line_leading_comment_count and the three strspn that follow it find the *)
(* header, and its names.                                                  *)
LEMMA LegendIs ==
  ASSUME NEW l \in Seq(Char)
  PROVE  /\ LeadingCommentCount(l) = 1 /\ At(l, Legend(l)) # NUL
              => NamesIn(l, Legend(l))
         /\ IsLegend(l)
              => LeadingCommentCount(l) = 1 /\ At(l, Legend(l)) # NUL
PROOF
  <1> DEFINE c == Past(l, 1, Blank)
  <1>1. /\ Len(l) \in Nat /\ DOMAIN l = 1 .. Len(l)
        /\ \A i \in 1 .. Len(l) : l[i] \in Char
    OBVIOUS
  <1>2. /\ NUL \notin Blank /\ NUL \notin Char /\ NUL \notin {Hash}
        /\ Hash \notin Blank /\ Bang \notin Blank
        /\ NUL # Bang
    BY LineReaderAssumption DEF NUL, Hash, Bang
  <1>3. /\ c \in 1 .. Len(l) + 1 /\ At(l, c) \notin Blank
        /\ \A r \in 1 .. c - 1 : l[r] \in Blank
    BY <1>1, <1>2, PastFacts
  <1>4. /\ LeadingCommentCount(l) =
             CASE At(l, c) = NUL -> 2
               [] At(l, c) \notin {Hash, NUL} -> 0
               [] At(l, c) = Hash /\ At(l, c + 1) \in {Hash, Bang} -> 2
               [] OTHER -> 1
        /\ Legend(l) = Past(l, Past(l, c, {Hash}), Blank)
    BY DEF LeadingCommentCount, Legend
  <1>5. LeadingCommentCount(l) = 1 <=>
          At(l, c) = Hash /\ At(l, c + 1) \notin {Hash, Bang}
    BY <1>2, <1>4
  <1>6. ASSUME At(l, c) = Hash, At(l, c + 1) \notin {Hash, Bang}
        PROVE  /\ c \in 1 .. Len(l) /\ l[c] = Hash /\ c + 1 \in 1 .. Len(l) + 1
               /\ Legend(l) = Past(l, c + 1, Blank)
    <2>1. c \in 1 .. Len(l) /\ l[c] = Hash
      BY <1>1, <1>2, <1>3, <1>6 DEF At
    <2>2. c + 1 \in c .. Len(l) + 1 /\ \A r \in c .. c + 1 - 1 : r = c
      BY <1>1, <2>1
    <2> HIDE DEF c
    <2>3. Past(l, c, {Hash}) = c + 1
      <3>1. c \in 1 .. Len(l) + 1 /\ At(l, c + 1) \notin {Hash}
        BY <1>3, <1>6
      <3>2. \A r \in c .. c + 1 - 1 : l[r] \in {Hash}
        BY <2>1, <2>2
      <3> QED BY <1>2, <2>2, <3>1, <3>2, PastIs
    <2> QED BY <1>1, <1>4, <2>1, <2>3
  <1> HIDE DEF c
  <1>7. ASSUME LeadingCommentCount(l) = 1, At(l, Legend(l)) # NUL
        PROVE  NamesIn(l, Legend(l))
    <2> DEFINE b == Legend(l)
    <2>1. At(l, c) = Hash /\ At(l, c + 1) \notin {Hash, Bang}
      BY <1>5, <1>7
    <2>2. /\ c \in 1 .. Len(l) /\ l[c] = Hash /\ c + 1 \in 1 .. Len(l) + 1
          /\ b = Past(l, c + 1, Blank)
      BY <1>6, <2>1
    <2>3. /\ b \in c + 1 .. Len(l) + 1 /\ At(l, b) \notin Blank
          /\ \A r \in c + 1 .. b - 1 : l[r] \in Blank
      <3>1. /\ Past(l, c + 1, Blank) \in c + 1 .. Len(l) + 1
            /\ At(l, Past(l, c + 1, Blank)) \notin Blank
            /\ \A r \in c + 1 .. Past(l, c + 1, Blank) - 1 : l[r] \in Blank
        BY <1>2, <2>2, PastFacts
      <3> QED BY <2>2, <3>1
    <2>4. b \in DOMAIN l /\ At(l, b) = l[b]
      BY <1>7 DEF At
    <2> HIDE DEF b
    <2>5. c \in 1 .. b - 1 /\ \A q \in (1 .. b - 1) \ {c} : l[q] \in Blank
      BY <1>1, <1>3, <2>2, <2>3, <2>4
    <2>6. l[b] \notin Blank /\ (b = c + 1 => l[b] \notin {Hash, Bang})
      BY <2>1, <2>3, <2>4
    <2>7. NamesAt(l, b)
      BY <2>2, <2>5, <2>6 DEF NamesAt
    <2> QED BY <2>4, <2>7 DEF NamesIn, b
  <1>8. ASSUME IsLegend(l)
        PROVE  LeadingCommentCount(l) = 1 /\ At(l, Legend(l)) # NUL
    <2>1. PICK b \in DOMAIN l : NamesAt(l, b)
      BY <1>8 DEF IsLegend
    <2>2. PICK p \in 1 .. b - 1 :
            /\ l[p] = Hash /\ \A q \in (1 .. b - 1) \ {p} : l[q] \in Blank
            /\ l[b] \notin Blank
            /\ b = p + 1 => l[b] \notin {Hash, Bang}
      BY <2>1 DEF NamesAt
    <2>3. /\ b \in 1 .. Len(l) /\ p \in 1 .. Len(l) /\ p < b /\ p + 1 \in 1 .. Len(l)
          /\ At(l, b) = l[b] /\ At(l, p) = l[p] /\ At(l, p + 1) = l[p + 1]
      BY <1>1, <2>1, <2>2 DEF At
    <2>4. c = p
      <3>1. /\ p \in 1 .. Len(l) + 1 /\ At(l, p) \notin Blank /\ 1 \in 1 .. Len(l) + 1
            /\ \A r \in 1 .. p - 1 : l[r] \in Blank
        BY <1>1, <1>2, <2>2, <2>3
      <3> QED BY <1>2, <3>1, PastIs DEF c
    <2>5. At(l, p + 1) \notin {Hash, Bang}
      <3>1. CASE b = p + 1
        BY <2>2, <2>3, <3>1
      <3>2. CASE b # p + 1
        <4>1. p + 1 \in (1 .. b - 1) \ {p}
          BY <1>1, <2>2, <2>3, <3>2
        <4>2. l[p + 1] \in Blank
          BY <2>2, <4>1
        <4> QED BY <1>2, <2>3, <4>2
      <3> QED BY <3>1, <3>2
    <2>6. Legend(l) = Past(l, p + 1, Blank)
      BY <1>6, <2>2, <2>3, <2>4, <2>5
    <2>7. Legend(l) = b
      <3>1. /\ p + 1 \in 1 .. Len(l) + 1 /\ b \in p + 1 .. Len(l) + 1
            /\ At(l, b) \notin Blank
            /\ \A r \in p + 1 .. b - 1 : l[r] \in Blank
        BY <1>1, <2>2, <2>3
      <3>2. Past(l, p + 1, Blank) = b
        BY <1>2, <3>1, PastIs
      <3> QED BY <2>6, <3>2
    <2>8. At(l, b) # NUL
      BY <1>1, <1>2, <2>3
    <2> QED BY <1>5, <2>2, <2>3, <2>4, <2>5, <2>7, <2>8
  <1> QED BY <1>7, <1>8

LEMMA InitHeader == Init => HeaderRight
BY DEF Init, HeaderRight, NoLegend, LinesRead

LEMMA ReadsHeader ==
  ASSUME Base, LinesRight, HeaderRight, PassOver \/ TakeHeader \/ TakeLine
  PROVE  HeaderRight'
PROOF
  <1>1. /\ status = "reading" /\ lines' = lines + 1
        /\ NextLine \in Seq(Char)
        /\ job' = job /\ input' = input /\ records' = records
    BY ReadsFacts
  <1>2. /\ lines \in Nat /\ NextLine = input[lines + 1] /\ Line' = NextLine
    BY <1>1, Types DEF Base, NextLine, Line
  <1>3. CASE ~ (job.vnlog /\ job.named)
    BY <1>1, <1>3 DEF HeaderRight
  <1>4. CASE job.vnlog /\ job.named /\ records # << >>
    BY <1>1, <1>4 DEF HeaderRight
  <1>5. CASE job.vnlog /\ job.named /\ records = << >>
    <2>1. vnlog_prologue
      BY <1>5 DEF vnlog_prologue
    <2>2. NoLegend(input, 1 .. lines)
      BY <1>1, <1>5 DEF HeaderRight, LinesRead
    <2>3. Passed(NextLine) <=>
            \/ LeadingCommentCount(NextLine) = 2
            \/ LeadingCommentCount(NextLine) = 1 /\ At(NextLine, Legend(NextLine)) = NUL
      BY <2>1 DEF Passed
    <2>4. CASE IsLegend(NextLine)
      <3>1. LeadingCommentCount(NextLine) = 1 /\ At(NextLine, Legend(NextLine)) # NUL
        BY <1>1, <2>4, LegendIs
      <3>2. ~Passed(NextLine)
        BY <2>3, <3>1
      <3>3. status' = "splitting" /\ from' = Legend(NextLine)
        BY <2>1, <3>1, <3>2 DEF PassOver, TakeHeader, TakeLine, Start
      <3>4. NamesIn(Line', from')
        BY <1>1, <1>2, <3>1, <3>3, LegendIs
      <3>5. LinesRead' = 1 .. lines
        BY <1>1, <1>2, <3>3 DEF LinesRead
      <3> QED BY <1>1, <1>5, <2>2, <3>3, <3>4, <3>5 DEF HeaderRight
    <2>5. CASE ~IsLegend(NextLine)
      <3>1. status' # "splitting"
        <4>1. ASSUME status' = "splitting" PROVE FALSE
          <5>1. ~Passed(NextLine) /\ LeadingCommentCount(NextLine) = 1
            BY <1>1, <2>1, <4>1 DEF PassOver, TakeHeader, TakeLine, Start
          <5>2. NamesIn(NextLine, Legend(NextLine))
            BY <1>1, <2>3, <5>1, LegendIs
          <5> QED BY <2>5, <5>2 DEF NamesIn, IsLegend
        <4> QED BY <4>1
      <3>2. LinesRead' = 1 .. lines + 1
        BY <1>1, <3>1 DEF LinesRead
      <3>3. NoLegend(input, 1 .. lines + 1)
        BY <1>2, <2>2, <2>5 DEF NoLegend
      <3> QED BY <1>1, <1>5, <3>1, <3>2, <3>3 DEF HeaderRight
    <2> QED BY <2>4, <2>5
  <1> QED BY <1>3, <1>4, <1>5

LEMMA ReturnHeader ==
  ASSUME Base, HeaderRight, Return
  PROVE  HeaderRight'
PROOF
  <1> DEFINE r == [line |-> lines, from |-> from, fields |-> fields]
  <1>1. /\ status = "splitting" /\ status' = "reading" /\ job' = job /\ input' = input
        /\ records' = Append(records, r)
    BY DEF Return
  <1>2. r.line = lines /\ r.from = from
    OBVIOUS
  <1> HIDE DEF r
  <1>3. records \in Seq(RecordType) /\ lines \in Nat
    BY Types DEF Base
  <1>4. records' # << >> /\ (records = << >> => records'[1] = r)
                        /\ (records # << >> => records'[1] = records[1])
    BY <1>1, <1>3
  <1>5. CASE ~ (job.vnlog /\ job.named)
    BY <1>1, <1>5 DEF HeaderRight
  <1>6. CASE job.vnlog /\ job.named /\ records # << >>
    BY <1>1, <1>4, <1>6 DEF HeaderRight
  <1>7. CASE job.vnlog /\ job.named /\ records = << >>
    <2>1. NoLegend(input, 1 .. lines - 1) /\ NamesIn(input[lines], from)
      BY <1>1, <1>7 DEF HeaderRight, LinesRead, Line
    <2> QED BY <1>1, <1>2, <1>4, <1>7, <2>1 DEF HeaderRight
  <1> QED BY <1>5, <1>6, <1>7

LEMMA HeaderStep ==
  ASSUME Base, LinesRight, HeaderRight, [Next]_vars
  PROVE  HeaderRight'
PROOF
  <1>1. CASE EndOfInput \/ SplitDelimited \/ SplitWords \/ UNCHANGED vars
    <2>1. /\ job' = job /\ input' = input /\ lines' = lines /\ from' = from
          /\ records' = records
          /\ status' = status \/ (status = "reading" /\ status' = "eof")
      <3>1. CASE EndOfInput
        BY <3>1 DEF EndOfInput
      <3>2. CASE SplitDelimited \/ SplitWords
        BY <3>2 DEF SplitDelimited, SplitWords
      <3>3. CASE UNCHANGED vars
        BY <3>3 DEF vars
      <3> QED BY <1>1, <3>1, <3>2, <3>3
    <2>2. Line' = Line /\ LinesRead' = LinesRead
      BY <2>1 DEF Line, LinesRead
    <2> QED BY <2>1, <2>2 DEF HeaderRight
  <1> QED BY <1>1, ReadsHeader, ReturnHeader DEF Next, Stopped

(* The first record is that of the header.                                 *)
LEMMA HeaderIs ==
  ASSUME IInv
  PROVE  HeaderLines =
           {n \in LinesRead : /\ job.vnlog /\ job.named /\ IsLegend(input[n])
                              /\ \A m \in 1 .. n - 1 : ~IsLegend(input[m])}
PROOF
  <1>1. CASE ~ (job.vnlog /\ job.named)
    BY <1>1 DEF HeaderLines
  <1>2. CASE job.vnlog /\ job.named /\ records = << >>
    BY <1>2 DEF IInv, HeaderRight, NoLegend, HeaderLines
  <1>3. CASE job.vnlog /\ job.named /\ records # << >>
    <2> DEFINE L == records[1].line
    <2>1. HeaderLines = {L}
      BY <1>3 DEF HeaderLines
    <2>2. IsLegend(input[L]) /\ \A m \in 1 .. L - 1 : ~IsLegend(input[m])
      BY <1>3 DEF IInv, HeaderRight, NamesIn, NoLegend, IsLegend
    <2>3. 1 \in DOMAIN records
      BY <1>3 DEF IInv, Base
    <2>4. L \in 1 .. lines /\ lines \in Nat /\ (status = "splitting" => L < lines)
      BY <2>3, Types DEF IInv, Base, TypeOK, LinesRight
    <2> HIDE DEF L
    <2>5. L \in LinesRead /\ LinesRead \subseteq Nat \ {0}
      BY <2>4 DEF LinesRead
    <2>6. ASSUME NEW n \in LinesRead, IsLegend(input[n]),
                 \A m \in 1 .. n - 1 : ~IsLegend(input[m])
          PROVE  n = L
      <3>1. n \in Nat \ {0} /\ L \in Nat \ {0}
        BY <2>5
      <3>2. ~ (n < L)
        BY <2>2, <2>6, <3>1
      <3>3. ~ (L < n)
        BY <2>2, <2>6, <3>1
      <3> QED BY <3>1, <3>2, <3>3
    <2> QED BY <1>3, <2>1, <2>2, <2>5, <2>6
  <1> QED BY <1>1, <1>2, <1>3

-----------------------------------------------------------------------------
(* Fields stay within their lines.                                         *)

LEMMA WithinStep ==
  ASSUME Base, FieldsWithin, [Next]_vars
  PROVE  FieldsWithin'
PROOF
  <1> DEFINE Kept == \A n \in DOMAIN records : \A k \in DOMAIN records[n].fields :
                       Within(records[n].fields[k], input[records[n].line])
  <1>1. Kept
    BY DEF FieldsWithin
  <1>2. CASE PassOver \/ TakeHeader \/ TakeLine
    <2>1. /\ input' = input /\ records' = records
          /\ status' = "splitting" => fields' = << >>
      BY <1>2, ReadsFacts
    <2> QED BY <1>1, <2>1 DEF FieldsWithin
  <1>3. CASE EndOfInput
    BY <1>1, <1>3 DEF EndOfInput, FieldsWithin
  <1>4. CASE SplitDelimited \/ SplitWords
    <2>1. /\ status = "splitting" /\ input' = input /\ lines' = lines
          /\ records' = records /\ Line' = Line
      BY <1>4 DEF SplitDelimited, SplitWords, Line
    <2>2. \A k \in DOMAIN fields : Within(fields[k], Line)
      BY <2>1 DEF FieldsWithin
    <2>3. pos \in Nat /\ Len(Line) \in Nat /\ fields \in Seq(FieldType)
      BY <2>1, LineFacts DEF Base, TypeOK
    <2>4. \/ fields' = fields
          \/ \E f \in FieldType : Add(f) /\ Within(f, Line)
      <3>1. CASE SplitDelimited
        <4>1. PICK e \in pos .. Len(Line) + 1 :
                [beg |-> pos, end |-> e] \in FieldType /\ Add([beg |-> pos, end |-> e])
          BY <3>1, SplitDelimitedFacts
        <4>2. Within([beg |-> pos, end |-> e], Line)
          BY <2>3 DEF Within
        <4> QED BY <4>1, <4>2
      <3>2. CASE SplitWords
        <4>1. PICK b \in pos .. Len(Line) + 1 : \E e \in b .. Len(Line) + 1 :
                /\ [beg |-> b, end |-> e] \in FieldType
                /\ fields' = fields \/ Add([beg |-> b, end |-> e])
          BY <3>2, SplitWordsFacts
        <4>2. PICK e \in b .. Len(Line) + 1 :
                /\ [beg |-> b, end |-> e] \in FieldType
                /\ fields' = fields \/ Add([beg |-> b, end |-> e])
          BY <4>1
        <4>3. Within([beg |-> b, end |-> e], Line)
          BY <2>3 DEF Within
        <4> QED BY <4>2, <4>3
      <3> QED BY <1>4, <3>1, <3>2
    <2>5. CASE fields' = fields
      BY <1>1, <2>1, <2>2, <2>5 DEF FieldsWithin
    <2>6. CASE \E f \in FieldType : Add(f) /\ Within(f, Line)
      <3>1. PICK f \in FieldType : Add(f) /\ Within(f, Line)
        BY <2>6
      <3>2. \A k \in DOMAIN fields' : fields'[k] = f \/ (k \in DOMAIN fields /\ fields'[k] = fields[k])
        BY <2>3, <3>1 DEF Add
      <3>3. \A k \in DOMAIN fields' : Within(fields'[k], Line)
        BY <2>2, <3>1, <3>2
      <3> QED BY <1>1, <2>1, <3>3 DEF FieldsWithin
    <2> QED BY <2>4, <2>5, <2>6
  <1>5. CASE Return
    <2> DEFINE r == [line |-> lines, from |-> from, fields |-> fields]
    <2>1. /\ status = "splitting" /\ status' = "reading" /\ input' = input
          /\ records' = Append(records, r)
      BY <1>5 DEF Return
    <2>2. r.line = lines /\ r.fields = fields /\ Line = input[lines]
      BY DEF Line
    <2> HIDE DEF r
    <2>3. \A k \in DOMAIN r.fields : Within(r.fields[k], input[r.line])
      BY <2>1, <2>2 DEF FieldsWithin
    <2>4. \A n \in DOMAIN records' :
            records'[n] = r \/ (n \in DOMAIN records /\ records'[n] = records[n])
      BY <2>1 DEF Base
    <2>5. ASSUME NEW n \in DOMAIN records', NEW k \in DOMAIN records'[n].fields
          PROVE  Within(records'[n].fields[k], input'[records'[n].line])
      BY <1>1, <2>1, <2>3, <2>4
    <2> QED BY <2>1, <2>5 DEF FieldsWithin
  <1>6. CASE UNCHANGED vars
    BY <1>1, <1>6 DEF vars, FieldsWithin, Line
  <1> QED BY <1>2, <1>3, <1>4, <1>5, <1>6 DEF Next, Stopped

-----------------------------------------------------------------------------
(* What the invariant says of a line, in the words of the properties.      *)

LEMMA DelimitedIsRight ==
  ASSUME TypeOK, NEW l \in Seq(Char), NEW fs \in Seq(FieldType),
         DelimitedIs(job, l, fs)
  PROVE  DelimitedRight(l, fs)
PROOF
  <1>1. CASE l = << >>
    BY <1>1 DEF DelimitedIs, DelimitedRight
  <1>2. CASE l # << >>
    <2>1. Len(l) \in Nat /\ Len(l) # 0
      BY <1>2
    <2>2. DelimitedTo(job, l, Len(l) + 2, fs)
      BY <1>2 DEF DelimitedIs
    <2>3. fs # << >>
      BY <2>1, <2>2 DEF DelimitedTo
    <2>4. fs[1].beg = 1 /\ fs[Len(fs)].end = Len(l) + 1
      BY <2>1, <2>2, <2>3 DEF DelimitedTo
    <2> QED BY <1>2, <2>2, <2>3, <2>4 DEF DelimitedTo, DelimitedRight
  <1> QED BY <1>1, <1>2

LEMMA WordsAreRight ==
  ASSUME NEW l, NEW b, NEW e, NEW fs, WordsAre(job, l, b, e, fs)
  PROVE  WordsRight(l, b, e, fs)
PROOF
  BY DEF WordsAre, WordsRight, WordIndex, Trailing

-----------------------------------------------------------------------------
(* The invariant and what follows from it.                                 *)

LEMMA InitIInv == Init => IInv
PROOF
  <1> SUFFICES ASSUME Init PROVE IInv
    OBVIOUS
  <1>1. SplitRight /\ RecordsRight
    BY DEF Init, SplitRight, RecordsRight
  <1>2. FieldsWithin
    BY DEF Init, FieldsWithin
  <1> QED BY <1>1, <1>2, InitBase, InitLines, InitHeader DEF IInv

LEMMA NextIInv == IInv /\ [Next]_vars => IInv'
PROOF
  BY BaseStep, FieldsStep, LinesStep, HeaderStep, WithinStep DEF IInv

LEMMA Invariance == Spec => []IInv
PROOF
  BY InitIInv, NextIInv, PTL DEF Spec

(* The state of the line reader is of its type: a scan never looks behind  *)
(* the NUL that ends the line (line_record_parse_fields).                  *)
THEOREM TypeCorrect == Spec => []TypeOK
PROOF
  <1>1. IInv => TypeOK
    BY DEF IInv, Base
  <1> QED BY <1>1, Invariance, PTL

(* Room is made before a field is stored, in whatever record the reader    *)
(* uses again (line_record_reserve_fields): num_fields is at most          *)
(* alloc_fields, and what the buf and len of a field name lies within the  *)
(* line that the field was found in.                                       *)
THEOREM RecordsHaveRoom == Spec => []FieldsFit
PROOF
  <1>1. IInv => FieldsFit
    BY DEF IInv, Base, FieldsFit
  <1> QED BY <1>1, Invariance, PTL

(* Every record that line_record_fread returned has the fields that the    *)
(* documents promise: those between the delimiters, all of them, or the    *)
(* words of the line, and an empty field for blanks at the end of it.      *)
THEOREM SplitsAsPromised == Spec => []FieldsRight
PROOF
  <1>1. IInv => FieldsRight
    <2> SUFFICES ASSUME IInv, NEW k \in DOMAIN records
                 PROVE  LET l == input[records[k].line]
                            header == job.vnlog /\ job.named /\ k = 1
                            end == IF job.vnlog /\ ~header
                                   THEN Past(l, 1, Char \ {Hash}) ELSE Len(l) + 1
                        IN IF job.whitespace
                           THEN WordsRight(l, records[k].from, end, records[k].fields)
                           ELSE DelimitedRight(l, records[k].fields)
      BY DEF FieldsRight
    <2>1. TypeOK /\ RecordOf(job, input, records[k], k = 1)
      BY DEF IInv, Base, RecordsRight
    <2>2. records[k].line \in 1 .. Len(input) /\ records[k].fields \in Seq(FieldType)
      BY <2>1, Types DEF TypeOK
    <2>3. input[records[k].line] \in Seq(Char)
      BY <2>1, <2>2, Types
    <2> QED BY <2>1, <2>2, <2>3, DelimitedIsRight, WordsAreRight
            DEF RecordOf, EndOf
  <1> QED BY <1>1, Invariance, PTL

(* The loop of line_record_fread passes over comments, and over nothing    *)
(* but them: every other line that was read became a record, once and in   *)
(* order.  A vnlog file's first record is its header, the first line with  *)
(* a single # and a name, split from that name on.                         *)
THEOREM ReadsTheRightLines == Spec => []RightLines
PROOF
  <1>1. IInv => RightLines
    <2> SUFFICES ASSUME IInv PROVE RightLines
      OBVIOUS
    <2> DEFINE header == {n \in LinesRead :
                            /\ job.vnlog /\ job.named /\ IsLegend(input[n])
                            /\ \A m \in 1 .. n - 1 : ~IsLegend(input[m])}
    <2>1. HeaderLines = header
      BY HeaderIs
    <2> HIDE DEF header
    <2>2. /\ \A k \in 1 .. Len(records) - 1 : records[k].line < records[k + 1].line
          /\ status # "data before header" =>
               Taken = header \cup {n \in LinesRead : ~LeftOut(job, input[n])}
          /\ status = "data before header" =>
               records = << >> /\ header = {} /\ ~LeftOut(job, input[lines])
      BY <2>1 DEF IInv, LinesRight, HeaderLines
    <2>3. \A n \in header : /\ records[1].line = n /\ records[1].fields # << >>
                            /\ NamesAt(input[n], records[1].from)
      BY <2>1 DEF IInv, LinesRight, HeaderRight, HeaderLines, NamesIn
    <2>4. job.vnlog /\ job.named /\ records # << >> => header # {}
      BY <2>1 DEF HeaderLines
    <2> QED BY <2>2, <2>3, <2>4 DEF RightLines, Taken, header, LinesRead, LeftOut
  <1> QED BY <1>1, Invariance, PTL
=============================================================================
