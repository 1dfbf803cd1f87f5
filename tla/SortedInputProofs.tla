------------------------- MODULE SortedInputProofs --------------------------
(***************************************************************************)
(* Proofs about SortedInput: for every input, every command line and every *)
(* size of the pipe, whatever sort does and whenever it does it.           *)
(***************************************************************************)
EXTENDS SortedInput, SequenceTheorems, FiniteSetTheorems, WellFoundedInduction,
        TLAPS

-----------------------------------------------------------------------------
(* The inductive invariant.                                                *)

(* How far the two processes are, and what is there by then.               *)
Stages ==
  /\ status = "start" => off = 0 /\ header = << >> /\ child = "none"
  /\ status = "start" => columns = [i \in DOMAIN job.grps |-> job.grps[i].num]
  /\ status \in {"start", "header", "unknown column"} => data = << >>
  /\ child # "none" => UsesSort
  /\ UsesSort /\ child = "none" => status \in {"start", "unknown column"}
  /\ child \in {"none", "reading", "refused"} =>
       /\ pipe = << >> /\ sorted = << >>
       /\ UsesSort => data = << >>
  /\ child = "exited" => sorted = << >>

Numbers == 1 .. Len(input)

(* The lines one of which comes before the other.                          *)
Order == {ab \in Numbers \X Numbers : Before(ab[1], ab[2])}

(* All that sort has sorted, wherever it is.                               *)
Stream == (data \o pipe) \o sorted

InOrder ==
  /\ HasBlanks(input) => job.whitespace
  /\ UsesSort /\ Stream # << >> => 0 \notin Range(columns)
  /\ UsesSort =>
       \A i, k \in 1 .. Len(Stream) : i < k => <<Stream[i], Stream[k]>> \in Order

(* rmdup --sort --header-in looks for a header among the sorted lines.     *)
HeaderReadTwice == job.mode = "rmdup" /\ job.sort /\ job.header_in

Headed ==
  status \notin {"start", "unknown column"} /\ (UsesSort \/ status # "header") =>
    Len(header) = HeaderCount /\ (HeaderCount = 1 => header[1] = 1)

ReadFromStdin ==
  /\ status = "header" => header = << >>
  /\ off = Len(header) + Len(data)
  /\ \A i \in 1 .. Len(data) : data[i] = Len(header) + i

ReadFromSort ==
  /\ child = "reading" =>
       off = HeaderCount /\ (0 \in Range(columns) => input = << >> /\ Named(job) # {})
  /\ child = "refused" => input = << >> /\ Named(job) # {}
  /\ child \in {"writing", "exited"} =>
       Range(Stream) = HeaderCount + 1 .. Len(input)

Delivered ==
  ~HeaderReadTwice =>
    /\ Headed
    /\ ~UsesSort => ReadFromStdin
    /\ UsesSort => ReadFromSort
    /\ status = "done" => child \in {"none", "exited"} /\ AtEof
    /\ status = "read error on close" => child \in {"refused", "failed"}

IInv == TypeOK /\ Stages /\ InOrder /\ Delivered

-----------------------------------------------------------------------------
(* Types.                                                                  *)

(* The values behind the variables.                                        *)
LEMMA Values ==
  ASSUME TypeOK
  PROVE  /\ job \in JobType /\ ValidJob(job) /\ input \in Seq(Line)
         /\ Len(input) \in Nat /\ DOMAIN input = Numbers
         /\ Len(job.grps) \in Nat /\ DOMAIN job.grps = 1 .. Len(job.grps)
         /\ DOMAIN columns = 1 .. Len(job.grps)
         /\ \A i \in 1 .. Len(job.grps) : columns[i] \in Nat
         /\ \A n \in Numbers : input[n] \in Line
PROOF
  <1>1. ValidJob(job) /\ input \in Seq(Line)
    BY SortedInputAssumption DEF TypeOK
  <1>2. job \in JobType
    BY <1>1 DEF ValidJob
  <1>3. job.grps \in Seq(Column)
    BY <1>2 DEF JobType
  <1>4. Len(input) \in Nat /\ DOMAIN input = Numbers
        /\ \A n \in Numbers : input[n] \in Line
    BY <1>1 DEF Numbers
  <1>5. Len(job.grps) \in Nat /\ DOMAIN job.grps = 1 .. Len(job.grps)
    BY <1>3
  <1>6. columns \in [DOMAIN job.grps -> Nat]
    BY DEF TypeOK
  <1> QED BY <1>1, <1>2, <1>4, <1>5, <1>6

LEMMA LineFacts ==
  ASSUME NEW l \in Line
  PROVE  /\ Len(l.fields) \in Nat /\ DOMAIN l.fields = 1 .. Len(l.fields)
         /\ \A f \in DOMAIN l.fields :
              /\ l.fields[f].blanks \in Nat /\ l.fields[f].blanks <= MaxBlanks
              /\ l.fields[f].text \in Text
PROOF
  <1>1. l.fields \in Seq(Field)
    BY DEF Line
  <1>2. Len(l.fields) \in Nat /\ DOMAIN l.fields = 1 .. Len(l.fields)
        /\ \A f \in DOMAIN l.fields : l.fields[f] \in Field
    BY <1>1
  <1>3. \A f \in DOMAIN l.fields :
          l.fields[f].blanks \in 0 .. MaxBlanks /\ l.fields[f].text \in Text
    BY <1>2 DEF Field
  <1> QED BY <1>2, <1>3, SortedInputAssumption

(* The least-number principle, for sets.                                   *)
LEMMA Least ==
  ASSUME NEW T, T \subseteq Nat, T # {}
  PROVE  \E x \in T : \A y \in T : x <= y
PROOF
  <1> DEFINE R == OpToRel(<, Nat)
  <1>1. IsWellFoundedOn(R, Nat)
    BY NatLessThanWellFounded
  <1>2. \A x, y \in Nat : x < y => <<x, y>> \in R
    BY DEF OpToRel
  <1> HIDE DEF R
  <1>3. PICK x \in T : \A y \in T : ~ (<<y, x>> \in R)
    BY <1>1, WFMin
  <1>4. \A y \in T : ~ (y < x)
    BY <1>2, <1>3
  <1>5. x \in Nat /\ \A y \in T : y \in Nat
    BY <1>3
  <1> QED BY <1>3, <1>4, <1>5

(* A name in the header line becomes the number of its column.             *)
LEMMA FieldNumberFacts ==
  ASSUME NEW l \in Line, NEW name \in Texts(l)
  PROVE  FieldNumber(l, name) \in DOMAIN l.fields /\ FieldNumber(l, name) \in Nat \ {0}
PROOF
  <1> DEFINE T == {f \in DOMAIN l.fields : l.fields[f].text = name}
  <1>1. T # {}
    BY DEF Texts
  <1>2. T \subseteq Nat
    BY LineFacts
  <1>3. \E x \in T : \A y \in T : x <= y
    BY <1>1, <1>2, Least
  <1>4. FieldNumber(l, name) = CHOOSE x \in T : \A y \in T : x <= y
    BY DEF FieldNumber, Min
  <1> HIDE DEF T
  <1>5. FieldNumber(l, name) \in T
    BY <1>3, <1>4
  <1>6. FieldNumber(l, name) \in DOMAIN l.fields
    BY <1>5 DEF T
  <1> QED BY <1>6, LineFacts

LEMMA TakeHeaderFacts ==
  ASSUME TypeOK, NEW n \in Numbers, NEW next, TakeHeader(n, next)
  PROVE  /\ columns' \in [DOMAIN job.grps -> Nat]
         /\ status' \in {next, "unknown column"}
         /\ status' # "unknown column" => 0 \notin Range(columns')
         /\ 0 \notin Range(columns) => columns' = columns
PROOF
  <1>1. input[n] \in Line
    BY Values
  <1>2. columns \in [DOMAIN job.grps -> Nat]
    BY DEF TypeOK
  <1>3. CASE Wanted \subseteq Texts(input[n])
    <2>1. columns' = Resolved(input[n]) /\ status' = next
      BY <1>3 DEF TakeHeader
    <2>2. ASSUME NEW i \in DOMAIN columns PROVE columns'[i] \in Nat \ {0}
      <3>1. columns'[i] = IF columns[i] = 0 THEN FieldNumber(input[n], job.grps[i].name)
                          ELSE columns[i]
        BY <2>1 DEF Resolved
      <3>2. CASE columns[i] = 0
        <4>1. job.grps[i].name \in Texts(input[n])
          BY <1>3, <3>2 DEF Wanted
        <4> QED BY <1>1, <3>1, <3>2, <4>1, FieldNumberFacts
      <3> QED BY <1>2, <3>1, <3>2
    <2>3. DOMAIN columns' = DOMAIN columns
      BY <2>1 DEF Resolved
    <2>4. columns' = [i \in DOMAIN columns |-> columns'[i]]
      BY <2>1, <2>3 DEF Resolved
    <2>5. columns' \in [DOMAIN job.grps -> Nat]
      <3> DEFINE c == columns'
      <3>1. DOMAIN c = DOMAIN job.grps /\ c = [i \in DOMAIN job.grps |-> c[i]]
        BY <1>2, <2>3, <2>4
      <3>2. \A i \in DOMAIN job.grps : c[i] \in Nat
        BY <1>2, <2>2
      <3> HIDE DEF c
      <3>3. c \in [DOMAIN job.grps -> Nat]
        BY <3>1, <3>2
      <3> QED BY <3>3 DEF c
    <2>6. 0 \notin Range(columns')
      BY <2>2, <2>3 DEF Range
    <2>7. ASSUME 0 \notin Range(columns) PROVE columns' = columns
      <3>1. \A i \in DOMAIN columns : columns[i] # 0
        BY <2>7 DEF Range
      <3>2. Resolved(input[n]) = [i \in DOMAIN columns |-> columns[i]]
        BY <3>1 DEF Resolved
      <3> QED BY <1>2, <2>1, <3>2
    <2> QED BY <2>1, <2>5, <2>6, <2>7
  <1>4. CASE ~ (Wanted \subseteq Texts(input[n]))
    BY <1>2, <1>4 DEF TakeHeader
  <1> QED BY <1>3, <1>4

-----------------------------------------------------------------------------
(* Queues of lines.                                                        *)

LEMMA Longer ==
  ASSUME NEW S, NEW q \in Seq(S), NEW x \in S
  PROVE  /\ Append(q, x) \in Seq(S) /\ Len(Append(q, x)) = Len(q) + 1
         /\ \A k \in 1 .. Len(q) : Append(q, x)[k] = q[k]
         /\ Append(q, x)[Len(q) + 1] = x
         /\ Append(q, x) # << >>
         /\ Append(q, x) = q \o <<x>> /\ <<x>> \in Seq(S)
PROOF
  <1>1. Append(q, x) = q \o <<x>>
    BY AppendIsConcat
  <1> QED BY <1>1, AppendProperties

LEMMA Shorter ==
  ASSUME NEW S, NEW q \in Seq(S), q # << >>
  PROVE  /\ Head(q) \in S /\ Tail(q) \in Seq(S) /\ Len(Tail(q)) = Len(q) - 1
         /\ Len(q) \in Nat \ {0} /\ Head(q) = q[1]
         /\ \A k \in 1 .. Len(q) - 1 : Tail(q)[k] = q[k + 1]
         /\ <<Head(q)>> \in Seq(S) /\ q = <<Head(q)>> \o Tail(q)
PROOF
  <1>1. /\ Len(q) \in Nat \ {0} /\ Head(q) \in S /\ Head(q) = q[1] /\ Tail(q) \in Seq(S)
        /\ Len(Tail(q)) = Len(q) - 1
        /\ \A k \in 1 .. Len(q) - 1 : Tail(q)[k] = q[k + 1]
    OBVIOUS
  <1> DEFINE h == Head(q)
             t == Tail(q)
  <1>2. h \in S /\ h = q[1]
    BY <1>1
  <1>3. t \in Seq(S)
    BY <1>1
  <1>9. Len(t) = Len(q) - 1 /\ \A k \in 1 .. Len(q) - 1 : t[k] = q[k + 1]
    BY <1>1
  <1> HIDE DEF h, t
  <1>4. <<h>> \in Seq(S) /\ Len(<<h>>) = 1 /\ <<h>>[1] = h
    BY <1>2
  <1> DEFINE u == <<h>>
             r == u \o t
  <1>5. u \in Seq(S)
    BY <1>4
  <1>10. Len(u) = 1 /\ u[1] = h
    BY <1>4
  <1> HIDE DEF u
  <1>6. /\ r \in Seq(S) /\ Len(r) = Len(q)
        /\ \A i \in 1 .. Len(q) : r[i] = IF i <= 1 THEN u[i] ELSE t[i - 1]
    <2>1. /\ r \in Seq(S) /\ Len(r) = Len(u) + Len(t)
          /\ \A i \in 1 .. Len(u) + Len(t) :
               r[i] = IF i <= Len(u) THEN u[i] ELSE t[i - Len(u)]
      BY ONLY <1>3, <1>5, ConcatProperties
    <2>2. Len(u) + Len(t) = Len(q)
      BY <1>1, <1>9, <1>10
    <2> HIDE DEF r
    <2> QED BY <1>10, <2>1, <2>2
  <1> HIDE DEF r
  <1>7. \A i \in 1 .. Len(q) : r[i] = q[i]
    <2> SUFFICES ASSUME NEW i \in 1 .. Len(q) PROVE r[i] = q[i]
      OBVIOUS
    <2>1. CASE i = 1
      BY <1>2, <1>10, <1>6, <2>1
    <2>2. CASE i # 1
      <3>1. i - 1 \in 1 .. Len(q) - 1 /\ ~(i <= 1) /\ i - 1 + 1 = i
        BY <1>1, <2>2
      <3> QED BY <1>9, <1>6, <3>1
    <2> QED BY <2>1, <2>2
  <1>8. q = r
    BY <1>6, <1>7, SeqEqual
  <1> QED BY <1>1, <1>4, <1>8 DEF h, t, r, u

(* A line goes from one queue to the next.                                 *)
LEMMA MoveOne ==
  ASSUME NEW S, NEW a \in Seq(S), NEW b \in Seq(S), b # << >>
  PROVE  Append(a, Head(b)) \o Tail(b) = a \o b
PROOF
  <1> DEFINE h == <<Head(b)>>
             t == Tail(b)
  <1>1. h \in Seq(S) /\ t \in Seq(S) /\ b = h \o t /\ Append(a, Head(b)) = a \o h
    BY Shorter, Longer
  <1> HIDE DEF h, t
  <1>2. (a \o h) \o t = a \o (h \o t)
    BY <1>1, ConcatAssociative
  <1> QED BY <1>1, <1>2 DEF t

Three(a, b, c) == (a \o b) \o c

LEMMA MoveInto ==
  ASSUME NEW S, NEW a, NEW b, NEW c, a \in Seq(S), b \in Seq(S), c \in Seq(S), c # << >>
  PROVE  Three(a, Append(b, Head(c)), Tail(c)) = Three(a, b, c)
PROOF
  <1> DEFINE h == <<Head(c)>>
             t == Tail(c)
  <1>1. c = h \o t /\ Append(b, Head(c)) = b \o h
    BY Shorter, Longer
  <1>2. h \in Seq(S) /\ t \in Seq(S)
    BY Shorter
  <1> HIDE DEF h, t
  <1>3. (a \o b) \o h = a \o (b \o h)
    BY ONLY <1>2, a \in Seq(S), b \in Seq(S), ConcatAssociative
  <1> DEFINE ab == a \o b
  <1>4. ab \in Seq(S)
    BY ONLY a \in Seq(S), b \in Seq(S), ConcatProperties
  <1> HIDE DEF ab
  <1>5. (ab \o h) \o t = ab \o (h \o t)
    BY ONLY <1>2, <1>4, ConcatAssociative
  <1> QED BY <1>1, <1>3, <1>5 DEF t, ab, Three

(* What sort may write for some lines: each once.                          *)
LEMMA SortingsFacts ==
  ASSUME TypeOK, NEW S \in SUBSET Numbers, NEW s \in Sortings(S)
  PROVE  /\ s \in Seq(Numbers) /\ Range(s) = S
         /\ \A i, k \in 1 .. Len(s) : i < k => Before(s[i], s[k])
PROOF
  <1> DEFINE m == Cardinality(S)
  <1>1. IsFiniteSet(S)
    <2>1. IsFiniteSet(Numbers)
      BY Values, FS_Interval DEF Numbers
    <2> QED BY <2>1, FS_Subset
  <1>2. m \in Nat
    BY <1>1, FS_CardinalityType
  <1>3. s \in [1 .. m -> S] /\ \A i, j \in 1 .. m : i # j => s[i] # s[j]
    BY DEF Sortings, SetToSeqs
  <1>4. \A i, k \in DOMAIN s : i < k => Before(s[i], s[k])
    BY DEF Sortings
  <1>5. s \in Injection(1 .. m, S)
    BY <1>3 DEF Injection, IsInjective
  <1>6. Cardinality(1 .. m) = m
    <2> HIDE DEF m
    <2>1. Cardinality(1 .. m) = IF 1 > m THEN 0 ELSE m - 1 + 1
      BY <1>2, FS_Interval
    <2> QED BY <1>2, <2>1
  <1>7. s \in Surjection(1 .. m, S)
    BY <1>1, <1>5, <1>6, FS_Injection
  <1> HIDE DEF m
  <1>8. \A y \in S : \E x \in 1 .. m : s[x] = y
    BY <1>7 DEF Surjection
  <1>9. DOMAIN s = 1 .. m /\ Range(s) = S
    BY <1>3, <1>8 DEF Range
  <1>10. s \in Seq(S) /\ Len(s) = m
    BY <1>2, <1>3, IsASeq, LenProperties
  <1>11. s \in Seq(Numbers)
    BY <1>10, SeqMonotonic
  <1> QED BY <1>4, <1>9, <1>10, <1>11

-----------------------------------------------------------------------------
(* The type invariant.                                                     *)

Places == {"none", "reading", "writing"} \cup ChildEnded

(* The line that is read next.                                             *)
LEMMA ConsumeFacts ==
  ASSUME TypeOK, CanRead, Consume
  PROVE  /\ NextPos \in Numbers /\ off' \in 0 .. Len(input)
         /\ pipe' \in Seq(Numbers) /\ Len(pipe') <= PipeSize
PROOF
  <1>1. /\ pipe \in Seq(Numbers) /\ off \in 0 .. Len(input) /\ Len(input) \in Nat
        /\ Len(pipe) <= PipeSize /\ PipeSize \in Nat
    BY Values, SortedInputAssumption DEF TypeOK, Numbers
  <1>2. CASE UsesSort
    <2>1. pipe # << >> /\ NextPos = Head(pipe) /\ pipe' = Tail(pipe) /\ off' = off
      BY <1>2 DEF CanRead, Consume, NextPos
    <2>2. /\ Head(pipe) \in Numbers /\ Tail(pipe) \in Seq(Numbers)
          /\ Len(Tail(pipe)) = Len(pipe) - 1 /\ Len(pipe) \in Nat
      BY <1>1, <2>1, Shorter
    <2> QED BY <1>1, <2>1, <2>2
  <1>3. CASE ~UsesSort
    <2>1. off < Len(input) /\ NextPos = off + 1 /\ pipe' = pipe /\ off' = off + 1
      BY <1>3 DEF CanRead, Consume, NextPos
    <2> QED BY <1>1, <2>1 DEF Numbers
  <1> QED BY <1>2, <1>3

LEMMA HeaderAppended ==
  ASSUME TypeOK, NEW n \in Numbers, NEW next, TakeHeader(n, next)
  PROVE  /\ header' \in Seq(Numbers) /\ header' = Append(header, n)
         /\ Len(header') = Len(header) + 1
         /\ header' # << >> /\ header'[Len(header) + 1] = n
         /\ UNCHANGED data => line_number' = Len(header') + Len(data')
PROOF
  <1>1. header \in Seq(Numbers) /\ line_number = Len(header) + Len(data)
        /\ Len(header) \in Nat /\ Len(data) \in Nat
    BY DEF TypeOK, Numbers
  <1>2. header' = Append(header, n) /\ line_number' = line_number + 1
    BY DEF TakeHeader
  <1>3. /\ Append(header, n) \in Seq(Numbers) /\ Len(Append(header, n)) = Len(header) + 1
        /\ Append(header, n)[Len(header) + 1] = n /\ Append(header, n) # << >>
    BY <1>1, Longer
  <1> QED BY <1>1, <1>2, <1>3

LEMMA OpenInputType == TypeOK /\ Stages /\ OpenInput => TypeOK'
PROOF
  <1> SUFFICES ASSUME TypeOK, Stages, OpenInput PROVE TypeOK'
    OBVIOUS
  <1>1. UNCHANGED <<job, input, data, sorted, pipe>> /\ status = "start"
    BY DEF OpenInput
  <1>2. Len(input) \in Nat /\ data \in Seq(Numbers) /\ Numbers' = Numbers
    BY <1>1, Values DEF TypeOK, Numbers
  <1>3. child' \in Places
    BY DEF OpenInput, Places
  <1>4. CASE UsesSort /\ job.header_in /\ input # << >>
    <2>1. off' = 1 /\ TakeHeader(1, "header")
      BY <1>4 DEF OpenInput
    <2>2. 1 \in Numbers
      <3>1. input \in Seq(Line)
        BY Values
      <3> QED BY <1>4, <3>1, EmptySeq DEF Numbers
    <2>3. /\ columns' \in [DOMAIN job.grps -> Nat]
          /\ status' \in {"header", "unknown column"}
      BY <2>1, <2>2, TakeHeaderFacts
    <2>4. header' \in Seq(Numbers) /\ line_number' = Len(header') + Len(data')
      BY <1>1, <2>1, <2>2, HeaderAppended
    <2>5. off' \in 0 .. Len(input)
      BY <1>2, <2>1, <2>2 DEF Numbers
    <2> QED BY <1>1, <1>2, <1>3, <2>3, <2>4, <2>5 DEF TypeOK, Numbers, Errors, Ended, Places
  <1>5. CASE ~ (UsesSort /\ job.header_in /\ input # << >>)
    <2>1. status' = "header" /\ UNCHANGED <<off, columns, line_number, header>>
      BY <1>5 DEF OpenInput
    <2> QED BY <1>1, <1>3, <2>1 DEF TypeOK, Places
  <1> QED BY <1>4, <1>5

LEMMA ReadHeaderType == TypeOK /\ ReadHeader => TypeOK'
PROOF
  <1> SUFFICES ASSUME TypeOK, ReadHeader PROVE TypeOK'
    OBVIOUS
  <1>1. UNCHANGED <<job, input, data, child, sorted>>
    BY DEF ReadHeader
  <1>2. CASE CanRead /\ Consume /\ TakeHeader(NextPos, "reading")
    <2>1. /\ NextPos \in Numbers /\ off' \in 0 .. Len(input)
          /\ pipe' \in Seq(Numbers) /\ Len(pipe') <= PipeSize
      BY <1>2, ConsumeFacts
    <2>2. /\ columns' \in [DOMAIN job.grps -> Nat]
          /\ status' \in {"reading", "unknown column"}
      BY <1>2, <2>1, TakeHeaderFacts
    <2>3. header' \in Seq(Numbers) /\ line_number' = Len(header') + Len(data')
      BY <1>1, <1>2, <2>1, HeaderAppended
    <2> QED BY <1>1, <2>1, <2>2, <2>3 DEF TypeOK, Numbers, Errors, Ended
  <1>3. CASE status' = "reading" /\ UNCHANGED <<off, pipe, header, line_number, columns>>
    BY <1>1, <1>3 DEF TypeOK
  <1> QED BY <1>2, <1>3 DEF ReadHeader

LEMMA ReadLineType == TypeOK /\ ReadLine => TypeOK'
PROOF
  <1> SUFFICES ASSUME TypeOK, ReadLine PROVE TypeOK'
    OBVIOUS
  <1>1. /\ UNCHANGED <<job, input, columns, header, child, sorted>>
        /\ CanRead /\ Consume /\ line_number' = line_number + 1
        /\ data' = Append(data, NextPos)
    BY DEF ReadLine
  <1>2. /\ NextPos \in Numbers /\ off' \in 0 .. Len(input)
        /\ pipe' \in Seq(Numbers) /\ Len(pipe') <= PipeSize
    BY <1>1, ConsumeFacts
  <1>3. data \in Seq(Numbers) /\ header \in Seq(Numbers)
    BY DEF TypeOK, Numbers
  <1>4. Len(data) \in Nat /\ Len(header) \in Nat
    BY <1>3
  <1>5. data' \in Seq(Numbers) /\ Len(data') = Len(data) + 1
    BY <1>1, <1>2, <1>3, Longer
  <1>6. line_number' = Len(header') + Len(data')
    BY <1>1, <1>4, <1>5 DEF TypeOK
  <1>7. status' \in {"bad line", "reading"}
    BY DEF ReadLine
  <1> QED BY <1>1, <1>2, <1>5, <1>6, <1>7 DEF TypeOK, Numbers, Errors, Ended

LEMMA SortReadsType == TypeOK /\ SortReads => TypeOK'
PROOF
  <1> SUFFICES ASSUME TypeOK, SortReads PROVE TypeOK'
    OBVIOUS
  <1>1. UNCHANGED <<job, input, columns, line_number, header, data, status, pipe>>
    BY DEF SortReads
  <1>2. CASE child' = "refused" /\ UNCHANGED <<off, sorted>>
    BY <1>1, <1>2 DEF TypeOK, ChildEnded
  <1>3. CASE /\ child' = "writing" /\ off' = Len(input)
             /\ sorted' \in Sortings(off + 1 .. Len(input))
    <2>1. Len(input) \in Nat /\ off \in 0 .. Len(input)
      BY Values DEF TypeOK
    <2>2. (off + 1) .. Len(input) \in SUBSET Numbers
      BY <2>1 DEF Numbers
    <2>3. sorted' \in Seq(Numbers)
      BY <1>3, <2>2, SortingsFacts
    <2>4. off' \in 0 .. Len(input)
      BY <1>3, <2>1
    <2> QED BY <1>1, <1>3, <2>3, <2>4 DEF TypeOK, Numbers
  <1> QED BY <1>2, <1>3 DEF SortReads

LEMMA SortWritesType == TypeOK /\ SortWrites => TypeOK'
PROOF
  <1> SUFFICES ASSUME TypeOK, SortWrites PROVE TypeOK'
    OBVIOUS
  <1>1. /\ UNCHANGED <<job, input, off, columns, line_number, header, data,
                       status, child>>
        /\ sorted # << >> /\ Len(pipe) < PipeSize
        /\ pipe' = Append(pipe, Head(sorted)) /\ sorted' = Tail(sorted)
    BY DEF SortWrites
  <1>2. sorted \in Seq(Numbers) /\ pipe \in Seq(Numbers) /\ PipeSize \in Nat
    BY SortedInputAssumption DEF TypeOK, Numbers
  <1>3. Head(sorted) \in Numbers /\ sorted' \in Seq(Numbers)
    BY <1>1, <1>2, Shorter
  <1>4. pipe' \in Seq(Numbers) /\ Len(pipe') = Len(pipe) + 1
    BY <1>1, <1>2, <1>3, Longer
  <1>5. Len(pipe') <= PipeSize
    BY <1>1, <1>2, <1>4
  <1> QED BY <1>1, <1>3, <1>4, <1>5 DEF TypeOK, Numbers

LEMMA TypeStep == TypeOK /\ Stages /\ [Next]_vars => TypeOK'
PROOF
  <1> SUFFICES ASSUME TypeOK, Stages, [Next]_vars PROVE TypeOK'
    OBVIOUS
  <1>1. CASE OpenInput
    BY <1>1, OpenInputType
  <1>2. CASE ReadHeader
    BY <1>2, ReadHeaderType
  <1>3. CASE ReadLine
    BY <1>3, ReadLineType
  <1>4. CASE CloseInput
    BY <1>4 DEF CloseInput, TypeOK, Errors, Ended
  <1>5. CASE SortReads
    BY <1>5, SortReadsType
  <1>6. CASE SortWrites
    BY <1>6, SortWritesType
  <1>7. CASE SortExits
    BY <1>7 DEF SortExits, TypeOK, ChildEnded
  <1>8. ASSUME SortBreaks \/ SortIsKilled PROVE TypeOK'
    <2>1. /\ UNCHANGED <<job, input, off, columns, line_number, header, data,
                         status, pipe>>
          /\ child' = "failed" /\ sorted' = << >>
      BY <1>8 DEF SortBreaks, SortIsKilled
    <2>2. sorted' \in Seq(Numbers)
      BY <2>1, EmptySeq
    <2> QED BY <2>1, <2>2 DEF TypeOK, ChildEnded, Numbers
  <1>9. CASE UNCHANGED vars
    BY <1>9 DEF vars, TypeOK
  <1> QED BY <1>1, <1>2, <1>3, <1>4, <1>5, <1>6, <1>7, <1>8, <1>9
          DEF Next, Datamash, Sort

-----------------------------------------------------------------------------
(* The stages.                                                             *)

(* Only a sort that is there can give a line.                              *)
LEMMA SortGives ==
  ASSUME Stages, CanRead
  PROVE  /\ UsesSort => child \notin {"none", "reading", "refused"}
         /\ ~UsesSort => child = "none"
  BY DEF Stages, CanRead

LEMMA StagesStep == TypeOK /\ Stages /\ [Next]_vars => Stages'
PROOF
  <1> SUFFICES ASSUME TypeOK, Stages, [Next]_vars PROVE Stages'
    OBVIOUS
  <1>1. CASE OpenInput
    <2>1. /\ UNCHANGED <<job, data, sorted, pipe>> /\ status = "start"
          /\ child' = IF UsesSort /\ status' = "header" THEN "reading" ELSE "none"
      BY <1>1 DEF OpenInput
    <2>2. status' \in {"header", "unknown column"}
      BY <1>1 DEF OpenInput, TakeHeader
    <2>3. /\ data = << >> /\ pipe = << >> /\ sorted = << >> /\ UsesSort' = UsesSort
      BY <2>1 DEF Stages, UsesSort
    <2> QED BY <2>1, <2>2, <2>3 DEF Stages
  <1>2. CASE ReadHeader
    <2>1. UNCHANGED <<job, input, data, child, sorted>> /\ status = "header"
      BY <1>2 DEF ReadHeader
    <2>2. status' \in {"reading", "unknown column"} /\ UsesSort' = UsesSort
      BY <1>2, <2>1 DEF ReadHeader, TakeHeader, UsesSort
    <2>3. child \in {"none", "reading", "refused"} => pipe' = << >>
      <3>1. CASE CanRead /\ Consume
        BY <3>1, SortGives DEF Stages, Consume
      <3>2. CASE UNCHANGED pipe
        BY <3>2 DEF Stages
      <3> QED BY <1>2, <3>1, <3>2 DEF ReadHeader
    <2>4. UsesSort => child # "none"
      BY <2>1 DEF Stages
    <2> QED BY <2>1, <2>2, <2>3, <2>4 DEF Stages
  <1>3. CASE ReadLine
    <2>1. /\ UNCHANGED <<job, input, child, sorted>> /\ status = "reading"
          /\ CanRead /\ Consume
      BY <1>3 DEF ReadLine
    <2>2. status' \in {"reading", "bad line"} /\ UsesSort' = UsesSort
      BY <1>3, <2>1 DEF ReadLine, UsesSort
    <2>3. /\ UsesSort => child \notin {"none", "reading", "refused"}
          /\ ~UsesSort => child = "none" /\ pipe' = pipe
      BY <2>1, SortGives DEF Consume
    <2> QED BY <2>1, <2>2, <2>3 DEF Stages
  <1>4. CASE CloseInput
    <2>1. /\ UNCHANGED <<job, header, data, child, sorted, pipe>>
          /\ status = "reading" /\ status' \in {"read error on close", "done"}
      BY <1>4 DEF CloseInput
    <2>2. UsesSort' = UsesSort
      BY <2>1 DEF UsesSort
    <2> QED BY <2>1, <2>2 DEF Stages
  <1>5. CASE SortReads
    <2>1. /\ UNCHANGED <<job, header, data, status, pipe>>
          /\ child = "reading" /\ child' \in {"refused", "writing"}
          /\ child' = "refused" => sorted' = sorted
      BY <1>5 DEF SortReads
    <2>2. UsesSort' = UsesSort
      BY <2>1 DEF UsesSort
    <2> QED BY <2>1, <2>2 DEF Stages
  <1>6. CASE SortWrites
    <2>1. UNCHANGED <<job, off, header, data, status, child>> /\ child = "writing"
      BY <1>6 DEF SortWrites
    <2>2. UsesSort' = UsesSort
      BY <2>1 DEF UsesSort
    <2> QED BY <2>1, <2>2 DEF Stages
  <1>7. CASE SortExits
    <2>1. /\ UNCHANGED <<job, off, header, data, status, sorted, pipe>>
          /\ child = "writing" /\ child' = "exited" /\ sorted = << >>
      BY <1>7 DEF SortExits
    <2>2. UsesSort' = UsesSort
      BY <2>1 DEF UsesSort
    <2> QED BY <2>1, <2>2 DEF Stages
  <1>8. ASSUME SortBreaks \/ SortIsKilled PROVE Stages'
    <2>1. /\ UNCHANGED <<job, off, header, data, status, pipe>>
          /\ child \in {"reading", "writing"} /\ child' = "failed" /\ sorted' = << >>
      BY <1>8 DEF SortBreaks, SortIsKilled
    <2>2. UsesSort' = UsesSort
      BY <2>1 DEF UsesSort
    <2> QED BY <2>1, <2>2 DEF Stages
  <1>9. CASE UNCHANGED vars
    BY <1>9 DEF vars, Stages, UsesSort
  <1> QED BY <1>1, <1>2, <1>3, <1>4, <1>5, <1>6, <1>7, <1>8, <1>9
          DEF Next, Datamash, Sort

-----------------------------------------------------------------------------
(* The stream of sorted lines.                                             *)

LEMMA StreamType ==
  ASSUME TypeOK
  PROVE  /\ Stream \in Seq(Numbers) /\ Len(Stream) = Len(data) + Len(pipe) + Len(sorted)
         /\ Len(data) \in Nat /\ Len(pipe) \in Nat /\ Len(sorted) \in Nat
         /\ \A i \in 1 .. Len(data) : Stream[i] = data[i]
         /\ \A i \in 1 .. Len(data) + Len(pipe) : Stream[i] = (data \o pipe)[i]
PROOF
  <1>1. data \in Seq(Numbers) /\ pipe \in Seq(Numbers) /\ sorted \in Seq(Numbers)
    BY DEF TypeOK, Numbers
  <1>2. Len(data) \in Nat /\ Len(pipe) \in Nat /\ Len(sorted) \in Nat
    BY <1>1
  <1> DEFINE dp == data \o pipe
             st == dp \o sorted
  <1>3. /\ dp \in Seq(Numbers) /\ Len(dp) = Len(data) + Len(pipe)
        /\ \A i \in 1 .. Len(data) + Len(pipe) :
             dp[i] = IF i <= Len(data) THEN data[i] ELSE pipe[i - Len(data)]
    BY <1>1, ConcatProperties
  <1> HIDE DEF dp
  <1>4. /\ st \in Seq(Numbers) /\ Len(st) = Len(dp) + Len(sorted)
        /\ \A i \in 1 .. Len(dp) + Len(sorted) :
             st[i] = IF i <= Len(dp) THEN dp[i] ELSE sorted[i - Len(dp)]
    <2>1. dp \in Seq(Numbers) /\ sorted \in Seq(Numbers)
      BY <1>1, <1>3
    <2> QED BY ONLY <2>1, ConcatProperties
  <1> HIDE DEF st
  <1>5. \A i \in 1 .. Len(data) + Len(pipe) : st[i] = dp[i]
    BY <1>2, <1>3, <1>4
  <1>6. \A i \in 1 .. Len(data) : st[i] = data[i]
    BY <1>2, <1>3, <1>5
  <1>7. Stream = st
    BY DEF Stream, st, dp
  <1> QED BY <1>2, <1>3, <1>4, <1>5, <1>6, <1>7 DEF dp

(* The order of lines stays when what it depends on does.                  *)
LEMMA SameOrder ==
  ASSUME UNCHANGED <<job, input, columns>>
  PROVE  Order' = Order
PROOF
  <1>1. UNCHANGED <<job, input, columns>>
    OBVIOUS
  <1>2. ASSUME NEW n PROVE Weight(n)' = Weight(n)
    BY <1>1 DEF Weight, SortKey, Letters
  <1>3. ASSUME NEW a, NEW b PROVE Before(a, b)' <=> Before(a, b)
    <2>1. Weight(a)' = Weight(a) /\ Weight(b)' = Weight(b)
      BY <1>2
    <2> QED BY <1>1, <2>1 DEF Before
  <1>4. Numbers' = Numbers
    BY <1>1 DEF Numbers
  <1> QED BY <1>3, <1>4 DEF Order

Keeps == \/ OpenInput \/ ReadLine \/ CloseInput \/ SortWrites \/ SortExits
         \/ (SortReads /\ child' = "refused")
         \/ (ReadHeader /\ UNCHANGED pipe)
         \/ UNCHANGED vars

Breaks == SortBreaks \/ SortIsKilled

(* A line that goes on is still in the stream.                             *)
LEMMA StreamKept ==
  ASSUME TypeOK, UsesSort, Keeps
  PROVE  Stream' = Stream
PROOF
  <1>1. data \in Seq(Numbers) /\ pipe \in Seq(Numbers) /\ sorted \in Seq(Numbers)
    BY DEF TypeOK, Numbers
  <1>2. CASE UNCHANGED <<data, pipe, sorted>>
    BY <1>2 DEF Stream
  <1>3. CASE ReadLine
    <2>1. /\ pipe # << >> /\ data' = Append(data, Head(pipe)) /\ pipe' = Tail(pipe)
          /\ sorted' = sorted
      BY <1>3 DEF ReadLine, CanRead, Consume, NextPos
    <2>2. data' \o pipe' = data \o pipe
      BY <1>1, <2>1, MoveOne
    <2> QED BY <2>1, <2>2 DEF Stream
  <1>4. CASE SortWrites
    <2>1. /\ sorted # << >> /\ pipe' = Append(pipe, Head(sorted)) /\ sorted' = Tail(sorted)
          /\ data' = data
      BY <1>4 DEF SortWrites
    <2>2. Three(data, Append(pipe, Head(sorted)), Tail(sorted)) = Three(data, pipe, sorted)
      BY <1>1, <2>1, MoveInto
    <2> QED BY <2>1, <2>2 DEF Stream, Three
  <1> QED BY <1>2, <1>3, <1>4
          DEF Keeps, OpenInput, CloseInput, SortExits, SortReads, ReadHeader, vars

(* sort fills an empty stream.                                             *)
LEMMA StreamFilled ==
  ASSUME TypeOK, Stages, SortReads, child' # "refused"
  PROVE  /\ UsesSort /\ child = "reading" /\ child' = "writing"
         /\ 0 \notin Range(columns) /\ UNCHANGED <<job, input, columns>>
         /\ Stream' = sorted' /\ sorted' \in Seq(Numbers)
         /\ Range(sorted') = (off + 1) .. Len(input)
         /\ \A i, k \in 1 .. Len(sorted') : i < k => <<sorted'[i], sorted'[k]>> \in Order
PROOF
  <1>1. /\ UNCHANGED <<job, input, columns, data, pipe>> /\ child = "reading"
        /\ 0 \notin Range(columns) /\ child' = "writing"
        /\ sorted' \in Sortings(off + 1 .. Len(input))
    BY DEF SortReads
  <1>2. UsesSort /\ data = << >> /\ pipe = << >>
    BY <1>1 DEF Stages
  <1>3. Len(input) \in Nat /\ off \in 0 .. Len(input)
    BY Values DEF TypeOK
  <1>4. (off + 1) .. Len(input) \in SUBSET Numbers
    BY <1>3 DEF Numbers
  <1>5. /\ sorted' \in Seq(Numbers) /\ Range(sorted') = (off + 1) .. Len(input)
        /\ \A i, k \in 1 .. Len(sorted') : i < k => Before(sorted'[i], sorted'[k])
    BY <1>1, <1>4, SortingsFacts
  <1>8. \A i \in 1 .. Len(sorted') : sorted'[i] \in Numbers
    BY <1>5
  <1>9. \A i, k \in 1 .. Len(sorted') : i < k => <<sorted'[i], sorted'[k]>> \in Order
    BY <1>5, <1>8 DEF Order
  <1>6. Stream' = (<< >> \o << >>) \o sorted'
    BY <1>1, <1>2 DEF Stream
  <1>7. << >> \o << >> = << >> /\ << >> \o sorted' = sorted'
    BY <1>5, ConcatEmptySeq, EmptySeq
  <1> QED BY <1>1, <1>2, <1>5, <1>6, <1>7, <1>9

(* What a broken sort has not written is lost.                             *)
LEMMA StreamCut ==
  ASSUME TypeOK, TypeOK', Breaks
  PROVE  /\ UNCHANGED <<job, input, columns>>
         /\ Len(Stream') <= Len(Stream)
         /\ \A i \in 1 .. Len(Stream') : Stream'[i] = Stream[i]
PROOF
  <1>1. UNCHANGED <<job, input, columns, data, pipe>> /\ sorted' = << >>
    BY DEF Breaks, SortBreaks, SortIsKilled
  <1>2. data \in Seq(Numbers) /\ pipe \in Seq(Numbers)
    BY DEF TypeOK, Numbers
  <1>3. Stream' = (data \o pipe) \o << >>
    BY <1>1 DEF Stream
  <1>4. data \o pipe \in Seq(Numbers) /\ Len(data \o pipe) = Len(data) + Len(pipe)
    BY <1>2, ConcatProperties
  <1>5. Stream' = data \o pipe
    BY <1>3, <1>4, ConcatEmptySeq
  <1>6. /\ Len(Stream) = Len(data) + Len(pipe) + Len(sorted)
        /\ Len(data) \in Nat /\ Len(pipe) \in Nat /\ Len(sorted) \in Nat
        /\ \A i \in 1 .. Len(data) + Len(pipe) : Stream[i] = (data \o pipe)[i]
    BY StreamType
  <1> HIDE DEF Stream
  <1> QED BY <1>1, <1>4, <1>5, <1>6

(* A header line taken from sort is gone.                                  *)
LEMMA StreamShifted ==
  ASSUME TypeOK, Stages, UsesSort, status = "header", pipe # << >>,
         pipe' = Tail(pipe), UNCHANGED <<data, sorted>>
  PROVE  /\ Stream # << >>
         /\ Len(Stream') = Len(Stream) - 1
         /\ \A i \in 1 .. Len(Stream') : Stream'[i] = Stream[i + 1]
PROOF
  <1>1. pipe \in Seq(Numbers) /\ sorted \in Seq(Numbers) /\ data = << >>
    BY DEF TypeOK, Numbers, Stages
  <1> DEFINE h == <<Head(pipe)>>
             t == Tail(pipe)
             r == t \o sorted
             s == h \o r
  <1>2. h \in Seq(Numbers) /\ t \in Seq(Numbers) /\ pipe = h \o t
    BY <1>1, Shorter
  <1>3. Len(h) = 1
    OBVIOUS
  <1>4. Stream = (<< >> \o pipe) \o sorted /\ Stream' = (<< >> \o t) \o sorted
    BY <1>1 DEF Stream
  <1> HIDE DEF h, t
  <1>5. << >> \o pipe = pipe /\ << >> \o t = t
    BY <1>1, <1>2, ConcatEmptySeq
  <1>6. Stream' = r
    BY <1>4, <1>5
  <1>7. Stream = (h \o t) \o sorted
    BY <1>2, <1>4, <1>5
  <1>8. (h \o t) \o sorted = s
    <2>1. h \in Seq(Numbers) /\ t \in Seq(Numbers) /\ sorted \in Seq(Numbers)
      BY <1>1, <1>2
    <2> QED BY ONLY <2>1, ConcatAssociative
  <1>9. r \in Seq(Numbers)
    BY <1>1, <1>2, ConcatProperties
  <1> HIDE DEF r
  <1>10. /\ s \in Seq(Numbers) /\ Len(s) = Len(h) + Len(r)
         /\ \A i \in 1 .. Len(h) + Len(r) :
              s[i] = IF i <= Len(h) THEN h[i] ELSE r[i - Len(h)]
    BY <1>2, <1>9, ConcatProperties
  <1> HIDE DEF s
  <1>11. Stream = s
    BY <1>7, <1>8
  <1>12. Len(r) \in Nat /\ Len(s) = 1 + Len(r)
    BY <1>3, <1>9, <1>10
  <1>13. ASSUME NEW i \in 1 .. Len(r) PROVE r[i] = s[i + 1]
    <2>1. i + 1 \in 1 .. Len(h) + Len(r) /\ ~(i + 1 <= Len(h)) /\ (i + 1) - Len(h) = i
      BY <1>3, <1>12
    <2> QED BY <1>10, <2>1
  <1>14. s # << >>
    BY <1>12
  <1> QED BY <1>6, <1>11, <1>12, <1>13, <1>14

-----------------------------------------------------------------------------
(* The lines of the stream are in the order of their keys.                 *)

Ascending ==
  UsesSort =>
    \A i, k \in 1 .. Len(Stream) : i < k => <<Stream[i], Stream[k]>> \in Order

KeysResolved == UsesSort /\ Stream # << >> => 0 \notin Range(columns)

BlanksMeant == HasBlanks(input) => job.whitespace

LEMMA InOrderParts == InOrder <=> BlanksMeant /\ KeysResolved /\ Ascending
  BY DEF InOrder, BlanksMeant, KeysResolved, Ascending

(* A stretch of the stream is in order as well.                            *)
LEMMA AscendingPart ==
  ASSUME Ascending, UNCHANGED <<job, input, columns>>, TypeOK, TypeOK',
         NEW d \in Nat, Len(Stream') + d <= Len(Stream),
         \A i \in 1 .. Len(Stream') : Stream'[i] = Stream[i + d]
  PROVE  Ascending'
PROOF
  <1>1. UsesSort' = UsesSort /\ Order' = Order
    BY SameOrder DEF UsesSort
  <1> SUFFICES ASSUME UsesSort, NEW i \in 1 .. Len(Stream'), NEW k \in 1 .. Len(Stream'),
                      i < k
               PROVE  <<Stream'[i], Stream'[k]>> \in Order
    BY <1>1 DEF Ascending
  <1>2. Len(Stream) \in Nat /\ Len(Stream') \in Nat
    <2>1. data' \in Seq(Numbers') /\ pipe' \in Seq(Numbers') /\ sorted' \in Seq(Numbers')
      BY DEF TypeOK, Numbers
    <2>2. data' \o pipe' \in Seq(Numbers')
      BY <2>1, ConcatProperties
    <2>3. Stream' \in Seq(Numbers')
      BY <2>1, <2>2, ConcatProperties DEF Stream
    <2> QED BY <2>3, StreamType
  <1>3. i + d \in 1 .. Len(Stream) /\ k + d \in 1 .. Len(Stream) /\ i + d < k + d
    BY <1>2
  <1>4. <<Stream[i + d], Stream[k + d]>> \in Order
    BY <1>3 DEF Ascending
  <1> QED BY <1>4
LEMMA InOrderStep == TypeOK /\ TypeOK' /\ Stages /\ InOrder /\ [Next]_vars => InOrder'
PROOF
  <1> SUFFICES ASSUME TypeOK, TypeOK', Stages, InOrder, [Next]_vars PROVE InOrder'
    OBVIOUS
  <1>1. BlanksMeant /\ KeysResolved /\ Ascending
    BY InOrderParts
  <1>2. UNCHANGED <<job, input>>
    BY DEF Next, Datamash, Sort, OpenInput, ReadHeader, ReadLine, CloseInput, SortReads,
           SortWrites, SortExits, SortBreaks, SortIsKilled, vars
  <1>3. UsesSort' = UsesSort /\ BlanksMeant'
    BY <1>1, <1>2 DEF UsesSort, BlanksMeant, HasBlanks
  <1>4. ASSUME UsesSort, UNCHANGED columns, Stream' = Stream
        PROVE  KeysResolved' /\ Ascending'
    <2>1. Order' = Order
      BY <1>2, <1>4, SameOrder
    <2> QED BY <1>1, <1>3, <1>4, <2>1 DEF KeysResolved, Ascending
  <1>5. ASSUME UsesSort, UNCHANGED columns, NEW d \in Nat,
               Stream' = << >> \/ Stream # << >>,
               Len(Stream') + d <= Len(Stream),
               \A i \in 1 .. Len(Stream') : Stream'[i] = Stream[i + d]
        PROVE  KeysResolved' /\ Ascending'
    <2>1. Ascending'
      BY <1>1, <1>2, <1>5, AscendingPart
    <2> QED BY <1>1, <1>3, <1>5, <2>1 DEF KeysResolved
  <1>6. ASSUME UsesSort, OpenInput PROVE KeysResolved' /\ Ascending'
    <2>1. Stream' = Stream
      BY <1>6, StreamKept DEF Keeps
    <2>2. data = << >> /\ pipe = << >> /\ sorted = << >>
      BY <1>6 DEF OpenInput, Stages
    <2>3. Stream = << >> /\ Len(Stream) = 0
      <3>1. << >> \o << >> = << >> /\ Len(<< >>) = 0
        BY EmptySeq, ConcatEmptySeq
      <3> QED BY <2>2, <3>1 DEF Stream
    <2> QED BY <2>1, <2>3 DEF KeysResolved, Ascending
  <1>7. ASSUME UsesSort, ReadHeader PROVE KeysResolved' /\ Ascending'
    <2>1. CASE CanRead /\ Consume /\ TakeHeader(NextPos, "reading")
      <3>1. /\ status = "header" /\ pipe # << >> /\ pipe' = Tail(pipe)
            /\ UNCHANGED <<data, sorted>>
        BY <1>7, <2>1 DEF ReadHeader, CanRead, Consume
      <3>2. /\ Stream # << >> /\ Len(Stream') = Len(Stream) - 1
            /\ \A i \in 1 .. Len(Stream') : Stream'[i] = Stream[i + 1]
        BY <1>7, <3>1, StreamShifted
      <3>3. 0 \notin Range(columns)
        BY <1>1, <1>7, <3>2 DEF KeysResolved
      <3>4. columns' = columns
        BY <2>1, <3>3, ConsumeFacts, TakeHeaderFacts
      <3>5. Len(Stream') + 1 <= Len(Stream)
        BY <3>2, StreamType
      <3> QED BY <1>5, <1>7, <3>2, <3>4, <3>5
    <2>2. CASE UNCHANGED <<off, pipe, header, line_number, columns>>
      <3>1. Stream' = Stream
        BY <1>7, <2>2, StreamKept DEF Keeps
      <3> QED BY <1>4, <1>7, <2>2, <3>1
    <2> QED BY <1>7, <2>1, <2>2 DEF ReadHeader
  <1>8. ASSUME UsesSort, ReadLine \/ CloseInput \/ SortWrites \/ SortExits \/ UNCHANGED vars
        PROVE  KeysResolved' /\ Ascending'
    <2>1. Stream' = Stream
      BY <1>8, StreamKept DEF Keeps
    <2>2. columns' = columns
      BY <1>8 DEF ReadLine, CloseInput, SortWrites, SortExits, vars
    <2> QED BY <1>4, <1>8, <2>1, <2>2
  <1>9. ASSUME UsesSort, SortReads PROVE KeysResolved' /\ Ascending'
    <2>1. CASE child' = "refused"
      <3>1. Stream' = Stream
        BY <1>9, <2>1, StreamKept DEF Keeps
      <3> QED BY <1>4, <1>9, <3>1 DEF SortReads
    <2>2. CASE child' # "refused"
      <3>1. /\ 0 \notin Range(columns) /\ UNCHANGED <<job, input, columns>>
            /\ Stream' = sorted'
            /\ \A i, k \in 1 .. Len(sorted') : i < k => <<sorted'[i], sorted'[k]>> \in Order
        BY <1>9, <2>2, StreamFilled
      <3>2. Order' = Order
        BY <3>1, SameOrder
      <3> QED BY <1>3, <1>9, <3>1, <3>2 DEF KeysResolved, Ascending
    <2> QED BY <2>1, <2>2
  <1>10. ASSUME UsesSort, SortBreaks \/ SortIsKilled PROVE KeysResolved' /\ Ascending'
    <2>1. /\ UNCHANGED columns /\ Len(Stream') <= Len(Stream)
          /\ \A i \in 1 .. Len(Stream') : Stream'[i] = Stream[i]
      BY <1>10, StreamCut DEF Breaks
    <2>2. Len(Stream) \in Nat /\ (Stream = << >> => Len(Stream) = 0)
      BY StreamType
    <2>3. data' \in Seq(Numbers') /\ pipe' \in Seq(Numbers') /\ sorted' \in Seq(Numbers')
      BY DEF TypeOK, Numbers
    <2>4. data' \o pipe' \in Seq(Numbers')
      BY <2>3, ConcatProperties
    <2>5. Stream' \in Seq(Numbers')
      BY <2>3, <2>4, ConcatProperties DEF Stream
    <2>6. Stream' = << >> \/ Stream # << >>
      BY <2>1, <2>2, <2>5
    <2>7. /\ Len(Stream') + 0 <= Len(Stream)
          /\ \A i \in 1 .. Len(Stream') : Stream'[i] = Stream[i + 0]
      BY <2>1, <2>2, <2>5
    <2> QED BY <1>5, <1>10, <2>1, <2>6, <2>7
  <1>11. CASE ~UsesSort
    BY <1>3, <1>11, InOrderParts DEF KeysResolved, Ascending, InOrder, BlanksMeant
  <1>12. CASE UsesSort
    <2>1. KeysResolved' /\ Ascending'
      BY <1>6, <1>7, <1>8, <1>9, <1>10, <1>12 DEF Next, Datamash, Sort
    <2> QED BY <1>3, <2>1 DEF KeysResolved, Ascending, InOrder, BlanksMeant
  <1> QED BY <1>11, <1>12

-----------------------------------------------------------------------------
(* Every line behind the header reaches the loop.                          *)

LEMMA HeaderCounts ==
  ASSUME TypeOK
  PROVE  /\ HeaderCount \in {0, 1} /\ HeaderCount <= Len(input) /\ Len(input) \in Nat
         /\ job.header_in /\ input # << >> <=> HeaderCount = 1
PROOF
  <1>1. input \in Seq(Line) /\ Len(input) \in Nat
    BY Values
  <1>2. input # << >> => Len(input) >= 1
    BY <1>1
  <1> QED BY <1>1, <1>2 DEF HeaderCount

(* A header line that open_input took is not taken again.                  *)
LEMMA NotTwice ==
  ASSUME TypeOK, Stages, Headed, UsesSort, ~HeaderReadTwice, ReadHeader
  PROVE  /\ status' = "reading"
         /\ UNCHANGED <<off, pipe, header, line_number, columns>>
PROOF
  <1>1. status = "header" /\ data = << >>
    BY DEF ReadHeader, Stages
  <1>2. Len(header) = HeaderCount
    BY <1>1 DEF Headed
  <1>3. line_number = HeaderCount
    BY <1>1, <1>2, HeaderCounts DEF TypeOK
  <1>4. ~ (ReadsHeader /\ CanRead)
    <2> SUFFICES ASSUME ReadsHeader, CanRead PROVE FALSE
      OBVIOUS
    <2>1. job.header_in /\ (job.mode = "groupby" => line_number = 0)
      BY DEF ReadsHeader
    <2>2. pipe # << >> /\ pipe \in Seq(Numbers)
      BY DEF CanRead, TypeOK, Numbers
    <2>3. pipe[1] \in Numbers
      BY <2>2
    <2>4. input # << >>
      <3>1. Len(input) \in Nat /\ Len(input) # 0
        BY <2>3, HeaderCounts DEF Numbers
      <3> QED BY <3>1, EmptySeq
    <2>5. HeaderCount = 1
      BY <2>1, <2>4, HeaderCounts
    <2>6. job.mode \in {"groupby", "rmdup"}
      BY Values DEF JobType
    <2>7. job.sort
      BY DEF UsesSort
    <2> QED BY <1>3, <2>1, <2>5, <2>6, <2>7 DEF HeaderReadTwice
  <1> QED BY <1>4 DEF ReadHeader

LEMMA OpenInputFacts ==
  ASSUME TypeOK, Stages, OpenInput
  PROVE  /\ UsesSort => off' = HeaderCount
         /\ status' \in {"header", "unknown column"}
         /\ UsesSort => Len(header') = HeaderCount /\ (HeaderCount = 1 => header'[1] = 1)
         /\ UsesSort /\ status' = "header" /\ 0 \in Range(columns') =>
              input = << >> /\ Named(job) # {}
         /\ ~UsesSort => UNCHANGED <<off, header, data>> /\ status' = "header"
PROOF
  <1>1. /\ status = "start" /\ off = 0 /\ header = << >> /\ UNCHANGED data
        /\ columns = [i \in DOMAIN job.grps |-> job.grps[i].num]
    BY DEF OpenInput, Stages
  <1>2. Len(header) = 0
    BY <1>1, EmptySeq
  <1>3. CASE UsesSort /\ job.header_in /\ input # << >>
    <2>1. off' = 1 /\ TakeHeader(1, "header") /\ HeaderCount = 1
      BY <1>3 DEF OpenInput, HeaderCount
    <2>2. 1 \in Numbers
      BY <1>3, HeaderCounts, <2>1 DEF Numbers
    <2>3. Len(header') = 1 /\ header'[1] = 1
      BY <1>2, <2>1, <2>2, HeaderAppended
    <2>4. /\ status' \in {"header", "unknown column"}
          /\ status' # "unknown column" => 0 \notin Range(columns')
      BY <2>1, <2>2, TakeHeaderFacts
    <2> QED BY <1>3, <2>1, <2>3, <2>4
  <1>4. CASE UsesSort /\ ~ (job.header_in /\ input # << >>)
    <2>1. status' = "header" /\ UNCHANGED <<off, columns, line_number, header>>
      BY <1>4 DEF OpenInput
    <2>2. HeaderCount = 0
      BY <1>4 DEF HeaderCount
    <2>3. ASSUME 0 \in Range(columns') PROVE input = << >> /\ Named(job) # {}
      <3>1. PICK i \in DOMAIN job.grps : job.grps[i].num = 0
        BY <1>1, <2>1, <2>3 DEF Range
      <3>2. Named(job) # {}
        BY <3>1 DEF Named
      <3>3. job.header_in
        BY <3>2, Values DEF ValidJob
      <3> QED BY <1>4, <3>2, <3>3
    <2> QED BY <1>1, <1>2, <1>4, <2>1, <2>2, <2>3
  <1>5. CASE ~UsesSort
    BY <1>1, <1>5 DEF OpenInput
  <1> QED BY <1>3, <1>4, <1>5

(* Without sort, the first line is the header.                             *)
LEMMA StdinHeader ==
  ASSUME TypeOK, Stages, ReadFromStdin, ~UsesSort, ReadHeader
  PROVE  /\ off' = Len(header') + Len(data') /\ data' = << >>
         /\ status' \in {"reading", "unknown column"}
         /\ status' = "reading" =>
              Len(header') = HeaderCount /\ (HeaderCount = 1 => header'[1] = 1)
PROOF
  <1>1. status = "header" /\ data = << >> /\ header = << >> /\ data' = data
    BY DEF ReadHeader, Stages, ReadFromStdin
  <1>2. Len(header) = 0 /\ Len(data) = 0
    BY <1>1, EmptySeq
  <1>3. off = 0 /\ line_number = 0
    BY <1>2 DEF ReadFromStdin, TypeOK
  <1>4. ReadsHeader <=> job.header_in
    BY <1>3 DEF ReadsHeader
  <1>5. CASE ReadsHeader /\ CanRead /\ Consume /\ TakeHeader(NextPos, "reading")
    <2>1. NextPos = 1 /\ off' = 1 /\ 0 < Len(input)
      BY <1>3, <1>5 DEF NextPos, Consume, CanRead
    <2>2. 1 \in Numbers
      BY <2>1, HeaderCounts DEF Numbers
    <2>3. Len(header') = 1 /\ header'[1] = 1
      BY <1>2, <1>5, <2>1, <2>2, HeaderAppended
    <2>4. status' \in {"reading", "unknown column"}
      BY <1>5 DEF TakeHeader
    <2>5. HeaderCount = 1
      <3>1. input # << >>
        BY <2>1, EmptySeq
      <3> QED BY <1>4, <1>5, <3>1 DEF HeaderCount
    <2>6. data' = << >> /\ Len(data') = 0
      BY <1>1, <1>2
    <2>7. off' = Len(header') + Len(data')
      <3>1. Len(header') = 1 /\ Len(data') = 0 /\ off' = 1
        BY <2>1, <2>3, <2>6
      <3> QED BY ONLY <3>1
    <2>8. Len(header') = HeaderCount /\ header'[1] = 1
      BY ONLY <2>3, <2>5
    <2> QED BY ONLY <2>4, <2>6, <2>7, <2>8
  <1>6. CASE /\ ~ReadsHeader \/ AtEof
             /\ status' = "reading"
             /\ UNCHANGED <<off, pipe, header, line_number, columns>>
    <2>1. HeaderCount = 0
      <3>1. ASSUME AtEof PROVE input = << >>
        <4>1. Len(input) = 0 /\ input \in Seq(Line)
          BY <1>3, <3>1, Values DEF AtEof
        <4> QED BY <4>1
      <3> QED BY <1>4, <1>6, <3>1 DEF HeaderCount
    <2>2. off' = 0 /\ header' = << >> /\ data' = << >>
      BY <1>1, <1>3, <1>6
    <2>3. Len(header') = 0 /\ Len(data') = 0
      BY <2>2, EmptySeq
    <2>4. status' = "reading"
      BY <1>6
    <2> QED BY <2>1, <2>2, <2>3, <2>4
  <1> QED BY <1>5, <1>6 DEF ReadHeader

(* The parts of Delivered, one after the other.                            *)

LEMMA HeadedStep ==
  TypeOK /\ Stages /\ Delivered /\ ~HeaderReadTwice /\ [Next]_vars => Headed'
PROOF
  <1> SUFFICES ASSUME TypeOK, Stages, Delivered, ~HeaderReadTwice, [Next]_vars
               PROVE  Headed'
    OBVIOUS
  <1>1. Headed /\ (~UsesSort => ReadFromStdin)
    BY DEF Delivered
  <1>2. /\ UNCHANGED <<job, input>>
    BY DEF Next, Datamash, Sort, OpenInput, ReadHeader, ReadLine, CloseInput, SortReads,
           SortWrites, SortExits, SortBreaks, SortIsKilled, vars
  <1>3. UsesSort' = UsesSort /\ HeaderCount' = HeaderCount
    BY <1>2 DEF UsesSort, HeaderCount
  <1>4. CASE OpenInput
    BY <1>3, <1>4, OpenInputFacts DEF Headed
  <1>5. CASE ReadHeader
    <2>1. CASE UsesSort
      <3>1. status' = "reading" /\ header' = header /\ status = "header"
        BY <1>1, <1>5, <2>1, NotTwice DEF ReadHeader
      <3> QED BY <1>1, <1>3, <2>1, <3>1 DEF Headed
    <2>2. CASE ~UsesSort
      BY <1>1, <1>3, <1>5, <2>2, StdinHeader DEF Headed
    <2> QED BY <2>1, <2>2
  <1>6. CASE ReadLine \/ CloseInput
    <2>1. status = "reading" /\ header' = header
      BY <1>6 DEF ReadLine, CloseInput
    <2> QED BY <1>1, <1>3, <2>1 DEF Headed
  <1>7. CASE UNCHANGED <<header, status>>
    BY <1>1, <1>3, <1>7 DEF Headed
  <1> QED BY <1>4, <1>5, <1>6, <1>7
          DEF Next, Datamash, Sort, SortReads, SortWrites, SortExits, SortBreaks,
              SortIsKilled, vars

LEMMA StdinStep ==
  TypeOK /\ Stages /\ Delivered /\ ~HeaderReadTwice /\ ~UsesSort /\ [Next]_vars
    => ReadFromStdin'
PROOF
  <1> SUFFICES ASSUME TypeOK, Stages, Delivered, ~HeaderReadTwice, ~UsesSort, [Next]_vars
               PROVE  ReadFromStdin'
    OBVIOUS
  <1>1. ReadFromStdin
    BY DEF Delivered
  <1>2. child = "none"
    BY DEF Stages
  <1>3. CASE OpenInput
    <2>1. UNCHANGED <<off, header, data>> /\ header = << >>
      BY <1>3, OpenInputFacts DEF OpenInput, Stages
    <2> QED BY <1>1, <2>1 DEF ReadFromStdin
  <1>4. CASE ReadHeader
    <2>1. /\ off' = Len(header') + Len(data') /\ data' = << >>
          /\ status' \in {"reading", "unknown column"}
      BY <1>1, <1>4, StdinHeader
    <2>2. \A i \in 1 .. Len(data') : data'[i] = Len(header') + i
      <3>1. Len(data') = 0
        BY <2>1, EmptySeq
      <3> QED BY <3>1
    <2> QED BY <2>1, <2>2 DEF ReadFromStdin
  <1>5. CASE ReadLine
    <2>1. /\ data' = Append(data, NextPos) /\ header' = header /\ NextPos = off + 1
          /\ off' = off + 1 /\ CanRead /\ Consume
          /\ status' \in {"reading", "bad line"}
      BY <1>5 DEF ReadLine, NextPos, Consume
    <2>2. NextPos \in Numbers
      BY <2>1, ConsumeFacts
    <2>3. data \in Seq(Numbers) /\ header \in Seq(Numbers)
      BY DEF TypeOK, Numbers
    <2>4. Len(data) \in Nat /\ Len(header) \in Nat
      BY <2>3
    <2> DEFINE q == Append(data, NextPos)
    <2>5. /\ Len(q) = Len(data) + 1 /\ \A i \in 1 .. Len(data) : q[i] = data[i]
          /\ q[Len(data) + 1] = NextPos
      BY <2>2, <2>3, Longer
    <2> HIDE DEF q
    <2>6. data' = q
      BY <2>1 DEF q
    <2>7. off = Len(header) + Len(data)
          /\ \A i \in 1 .. Len(data) : data[i] = Len(header) + i
      BY <1>1 DEF ReadFromStdin
    <2>8. off' = Len(header') + Len(data')
      <3>1. off' = off + 1 /\ header' = header /\ Len(data') = Len(q)
        BY <2>1, <2>6
      <3> QED BY ONLY <2>4, <2>5, <2>7, <3>1
    <2>9. \A i \in 1 .. Len(q) : q[i] = Len(header) + i
      <3> SUFFICES ASSUME NEW i \in 1 .. Len(q) PROVE q[i] = Len(header) + i
        OBVIOUS
      <3>1. CASE i \in 1 .. Len(data)
        BY ONLY <2>5, <2>7, <3>1
      <3>2. CASE i = Len(data) + 1
        <4>1. NextPos = off + 1
          BY <2>1
        <4> QED BY ONLY <2>4, <2>5, <2>7, <3>2, <4>1
      <3>3. i \in 1 .. Len(data) \/ i = Len(data) + 1
        BY ONLY <2>4, <2>5, i \in 1 .. Len(q)
      <3> QED BY <3>1, <3>2, <3>3
    <2> QED BY <2>1, <2>6, <2>8, <2>9 DEF ReadFromStdin
  <1>6. CASE CloseInput
    BY <1>1, <1>6 DEF CloseInput, ReadFromStdin
  <1>7. CASE UNCHANGED vars
    BY <1>1, <1>7 DEF vars, ReadFromStdin
  <1>8. ~ (Sort \/ SortBreaks)
    BY <1>2 DEF Sort, SortReads, SortWrites, SortExits, SortIsKilled, SortBreaks
  <1> QED BY <1>3, <1>4, <1>5, <1>6, <1>7, <1>8 DEF Next, Datamash

LEMMA SortStep ==
  TypeOK /\ Stages /\ Delivered /\ ~HeaderReadTwice /\ UsesSort /\ [Next]_vars
    => ReadFromSort'
PROOF
  <1> SUFFICES ASSUME TypeOK, Stages, Delivered, ~HeaderReadTwice, UsesSort, [Next]_vars
               PROVE  ReadFromSort'
    OBVIOUS
  <1>1. ReadFromSort /\ Headed
    BY DEF Delivered
  <1>2. /\ UNCHANGED <<job, input>>
    BY DEF Next, Datamash, Sort, OpenInput, ReadHeader, ReadLine, CloseInput, SortReads,
           SortWrites, SortExits, SortBreaks, SortIsKilled, vars
  <1>3. HeaderCount' = HeaderCount /\ Named(job)' = Named(job)
    BY <1>2 DEF HeaderCount, Named
  <1>4. ASSUME UNCHANGED <<off, columns>> \/ child # "reading",
               Stream' = Stream, UNCHANGED child
        PROVE  ReadFromSort'
    <2>1. Range(Stream)' = Range(Stream)
      BY <1>4
    <2> QED BY <1>1, <1>2, <1>3, <1>4, <2>1 DEF ReadFromSort
  <1>5. CASE OpenInput
    <2>1. child' = IF status' = "header" THEN "reading" ELSE "none"
      BY <1>5 DEF OpenInput
    <2>2. /\ off' = HeaderCount
          /\ status' = "header" /\ 0 \in Range(columns') => input = << >> /\ Named(job) # {}
      BY <1>5, OpenInputFacts
    <2>3. child' # "refused" /\ child' \notin {"writing", "exited"}
      BY <2>1
    <2>4. child' = "reading" => status' = "header"
      BY <2>1
    <2> HIDE DEF HeaderCount, Named
    <2> QED BY <1>2, <1>3, <2>2, <2>3, <2>4 DEF ReadFromSort
  <1>6. CASE ReadHeader
    <2>1. UNCHANGED <<off, pipe, columns, child>>
      BY <1>1, <1>6, NotTwice DEF ReadHeader
    <2> QED BY <1>4, <1>6, <2>1, StreamKept DEF Keeps
  <1>7. CASE ReadLine
    <2>1. child # "reading" /\ child' = child
      BY <1>7, SortGives DEF ReadLine
    <2> QED BY <1>4, <1>7, <2>1, StreamKept DEF Keeps
  <1>8. CASE CloseInput \/ UNCHANGED vars
    <2>1. UNCHANGED <<off, columns, child>>
      BY <1>8 DEF CloseInput, vars
    <2> QED BY <1>4, <1>8, <2>1, StreamKept DEF Keeps
  <1>9. CASE SortReads
    <2>1. CASE child' = "refused"
      <3>1. child = "reading" /\ 0 \in Range(columns)
        BY <1>9, <2>1 DEF SortReads
      <3>2. input = << >> /\ Named(job) # {}
        BY <1>1, <3>1 DEF ReadFromSort
      <3> QED BY <1>2, <1>3, <2>1, <3>2 DEF ReadFromSort
    <2>2. CASE child' # "refused"
      <3>1. /\ child = "reading" /\ child' = "writing"
            /\ Stream' = sorted' /\ Range(sorted') = (off + 1) .. Len(input)
        BY <1>9, <2>2, StreamFilled
      <3>2. off = HeaderCount
        BY <1>1, <3>1 DEF ReadFromSort
      <3>3. Range(Stream)' = (HeaderCount' + 1) .. Len(input')
        BY <1>2, <1>3, <3>1, <3>2
      <3> QED BY <3>1, <3>3 DEF ReadFromSort
    <2> QED BY <2>1, <2>2
  <1>10. CASE SortWrites
    <2>1. child # "reading" /\ child' = child
      BY <1>10 DEF SortWrites
    <2> QED BY <1>4, <1>10, <2>1, StreamKept DEF Keeps
  <1>11. CASE SortExits
    <2>1. child = "writing" /\ child' = "exited"
      BY <1>11 DEF SortExits
    <2>2. Stream' = Stream
      BY <1>11, StreamKept DEF Keeps
    <2>3. Range(Stream)' = Range(Stream)
      BY <2>2
    <2> QED BY <1>1, <1>2, <1>3, <2>1, <2>3 DEF ReadFromSort
  <1>12. CASE SortBreaks \/ SortIsKilled
    <2>1. child' = "failed"
      BY <1>12 DEF SortBreaks, SortIsKilled
    <2> QED BY <2>1 DEF ReadFromSort
  <1> QED BY <1>5, <1>6, <1>7, <1>8, <1>9, <1>10, <1>11, <1>12 DEF Next, Datamash, Sort

EndsRight ==
  /\ status = "done" => child \in {"none", "exited"} /\ AtEof
  /\ status = "read error on close" => child \in {"refused", "failed"}

LEMMA EndStep ==
  TypeOK /\ Stages /\ EndsRight /\ [Next]_vars => EndsRight'
PROOF
  <1> SUFFICES ASSUME TypeOK, Stages, EndsRight, [Next]_vars PROVE EndsRight'
    OBVIOUS
  <1>1. CASE OpenInput \/ ReadHeader \/ ReadLine
    <2>1. status' \in {"header", "reading", "unknown column", "bad line"}
      BY <1>1 DEF OpenInput, ReadHeader, ReadLine, TakeHeader
    <2> QED BY <2>1 DEF EndsRight
  <1>2. CASE CloseInput
    <2>1. /\ UNCHANGED <<job, input, off, pipe, child>> /\ AtEof /\ status = "reading"
          /\ status' = IF child \in {"refused", "failed"}
                       THEN "read error on close" ELSE "done"
      BY <1>2 DEF CloseInput
    <2>2. AtEof'
      BY <2>1 DEF AtEof, UsesSort
    <2>3. child \in {"none", "exited", "refused", "failed"}
      <3>1. UsesSort => child \in ChildEnded
        BY <2>1 DEF AtEof
      <3>2. ~UsesSort => child = "none"
        BY DEF Stages
      <3> QED BY <3>1, <3>2 DEF ChildEnded
    <2> QED BY <2>1, <2>2, <2>3 DEF EndsRight
  <1>3. CASE Sort \/ SortBreaks
    <2>1. /\ child \in {"reading", "writing"} /\ status' = status
      BY <1>3 DEF Sort, SortReads, SortWrites, SortExits, SortIsKilled, SortBreaks
    <2> QED BY <2>1 DEF EndsRight
  <1>4. CASE UNCHANGED vars
    <2>1. UNCHANGED <<job, input, off, pipe, child, status>>
      BY <1>4 DEF vars
    <2>2. AtEof' = AtEof
      BY <2>1 DEF AtEof, UsesSort
    <2> QED BY <2>1, <2>2 DEF EndsRight
  <1> QED BY <1>1, <1>2, <1>3, <1>4 DEF Next, Datamash

LEMMA DeliveredStep == TypeOK /\ Stages /\ Delivered /\ [Next]_vars => Delivered'
PROOF
  <1> SUFFICES ASSUME TypeOK, Stages, Delivered, [Next]_vars PROVE Delivered'
    OBVIOUS
  <1>1. UNCHANGED job
    BY DEF Next, Datamash, Sort, OpenInput, ReadHeader, ReadLine, CloseInput, SortReads,
           SortWrites, SortExits, SortBreaks, SortIsKilled, vars
  <1>2. HeaderReadTwice' = HeaderReadTwice /\ UsesSort' = UsesSort
    BY <1>1 DEF HeaderReadTwice, UsesSort
  <1>3. ASSUME ~HeaderReadTwice
        PROVE  /\ Headed' /\ (~UsesSort => ReadFromStdin') /\ (UsesSort => ReadFromSort')
               /\ EndsRight'
    <2>1. EndsRight
      BY <1>3 DEF Delivered, EndsRight
    <2> QED BY <1>3, <2>1, HeadedStep, StdinStep, SortStep, EndStep
  <1> QED BY <1>2, <1>3 DEF Delivered, EndsRight

-----------------------------------------------------------------------------
(* The invariant.                                                          *)

LEMMA InitIInv == Init => IInv
PROOF
  <1> SUFFICES ASSUME Init PROVE IInv
    OBVIOUS
  <1>1. /\ job \in Jobs /\ input \in Inputs /\ (HasBlanks(input) => job.whitespace)
        /\ off = 0 /\ line_number = 0 /\ header = << >> /\ data = << >>
        /\ status = "start" /\ child = "none" /\ sorted = << >> /\ pipe = << >>
        /\ columns = [i \in DOMAIN job.grps |-> job.grps[i].num]
    BY DEF Init
  <1>2. job.grps \in Seq(Column) /\ input \in Seq(Line)
    BY <1>1, SortedInputAssumption DEF ValidJob, JobType
  <1>3. Len(input) \in Nat /\ \A i \in DOMAIN job.grps : job.grps[i] \in Column
    BY <1>2
  <1>4. columns \in [DOMAIN job.grps -> Nat]
    BY <1>1, <1>3 DEF Column
  <1>5. << >> \in Seq(1 .. Len(input)) /\ Len(<< >>) = 0
    BY EmptySeq
  <1>6. TypeOK
    BY <1>1, <1>3, <1>4, <1>5, SortedInputAssumption DEF TypeOK
  <1>7. Stages
    BY <1>1 DEF Stages
  <1>8. Stream = << >> /\ Len(Stream) = 0
    <2>1. << >> \o << >> = << >>
      BY ConcatEmptySeq, EmptySeq
    <2> QED BY <1>1, <1>5, <2>1 DEF Stream
  <1>9. InOrder
    BY <1>1, <1>8 DEF InOrder
  <1>10. Headed /\ ReadFromStdin /\ ReadFromSort
    <2>1. off = Len(header) + Len(data) /\ Len(data) = 0
      BY <1>1, <1>5
    <2> QED BY <1>1, <2>1 DEF Headed, ReadFromStdin, ReadFromSort
  <1>11. Delivered
    BY <1>1, <1>10 DEF Delivered
  <1> QED BY <1>6, <1>7, <1>9, <1>11 DEF IInv

LEMMA StepIInv == IInv /\ [Next]_vars => IInv'
PROOF
  <1> SUFFICES ASSUME IInv, [Next]_vars PROVE IInv'
    OBVIOUS
  <1>1. TypeOK /\ Stages /\ InOrder /\ Delivered
    BY DEF IInv
  <1>2. TypeOK'
    BY <1>1, TypeStep
  <1>3. Stages'
    BY <1>1, StagesStep
  <1>4. InOrder'
    BY <1>1, <1>2, InOrderStep
  <1>5. Delivered'
    BY <1>1, DeliveredStep
  <1> QED BY <1>2, <1>3, <1>4, <1>5 DEF IInv

LEMMA Invariant == Spec => []IInv
  BY InitIInv, StepIInv, PTL DEF Spec

(* Every variable keeps its type, and the line number counts the lines     *)
(* that were read.                                                         *)
THEOREM TypeCorrect == Spec => []TypeOK
  BY Invariant, PTL DEF IInv

-----------------------------------------------------------------------------
(* The order of the keys.                                                  *)

Keys == 1 .. Len(job.grps)

LEMMA WeightFacts ==
  ASSUME TypeOK, NEW n \in Numbers
  PROVE  /\ DOMAIN Weight(n) = Keys
         /\ Weight(n) = [k \in Keys |-> SortKey(input[n], columns[k])]
         /\ \A k \in Keys : Weight(n)[k] \in Int \X Int
PROOF
  <1>1. DOMAIN columns = Keys /\ input[n] \in Line /\ Len(job.grps) \in Nat
    BY Values DEF Keys
  <1>2. Weight(n) = [k \in Keys |-> SortKey(input[n], columns[k])]
    BY <1>1 DEF Weight
  <1>3. ASSUME NEW k \in Keys PROVE SortKey(input[n], columns[k]) \in Int \X Int
    <2> DEFINE l == input[n]
               c == columns[k]
    <2>1. CASE c \in DOMAIN l.fields
      <3>1. l.fields[c].blanks \in Nat /\ l.fields[c].text \in Text
        BY <1>1, <2>1, LineFacts
      <3>2. Letters(l.fields[c].text) \in Text
        BY <3>1, SortedInputAssumption DEF Letters
      <3>3. Rank[Letters(l.fields[c].text)] \in Int /\ -l.fields[c].blanks \in Int
        BY <3>1, <3>2, SortedInputAssumption
      <3> QED BY <2>1, <3>3 DEF SortKey
    <2>2. CASE c \notin DOMAIN l.fields
      <3>1. -MaxBlanks - 1 \in Int
        BY SortedInputAssumption
      <3> QED BY <2>2, <3>1 DEF SortKey
    <2> QED BY <2>1, <2>2
  <1> QED BY <1>2, <1>3

(* The order of weights that Before is made of.                            *)
Lex(v, w, n) ==
  \E k \in 1 .. n : Less(v[k], w[k]) /\ \A m \in 1 .. k - 1 : v[m] = w[m]

LEMMA LexOnce ==
  ASSUME NEW n \in Nat, NEW v, NEW w,
         \A k \in 1 .. n : v[k] \in Int \X Int /\ w[k] \in Int \X Int,
         Lex(v, w, n)
  PROVE  ~Lex(w, v, n)
PROOF
  <1> SUFFICES ASSUME Lex(w, v, n) PROVE FALSE
    OBVIOUS
  <1>1. PICK k \in 1 .. n : Less(v[k], w[k]) /\ \A m \in 1 .. k - 1 : v[m] = w[m]
    BY DEF Lex
  <1>2. PICK h \in 1 .. n : Less(w[h], v[h]) /\ \A m \in 1 .. h - 1 : w[m] = v[m]
    BY DEF Lex
  <1>3. ASSUME NEW x \in Int \X Int, NEW y \in Int \X Int, Less(x, y)
        PROVE  ~Less(y, x) /\ x # y
    BY <1>3 DEF Less
  <1>4. v[k] # w[k] /\ v[h] # w[h] /\ ~Less(w[k], v[k])
    BY <1>1, <1>2, <1>3
  <1>5. CASE k < h
    <2>1. k \in 1 .. h - 1
      BY <1>5
    <2> QED BY <1>2, <1>4, <2>1
  <1>6. CASE h < k
    <2>1. h \in 1 .. k - 1
      BY <1>6
    <2> QED BY <1>1, <1>4, <2>1
  <1>7. CASE h = k
    BY <1>2, <1>4, <1>7
  <1> QED BY <1>5, <1>6, <1>7

LEMMA BeforeIsLex ==
  ASSUME TypeOK, NEW a \in Numbers, NEW b \in Numbers
  PROVE  Before(a, b) <=> \/ Lex(Weight(a), Weight(b), Len(job.grps))
                          \/ Weight(a) = Weight(b) /\ a < b
  BY Values DEF Before, Lex

(* No line comes before itself; and between two lines with the same keys   *)
(* there are only lines with these keys.                                   *)
LEMMA OrderFacts ==
  ASSUME TypeOK
  PROVE  /\ \A a \in Numbers : <<a, a>> \notin Order
         /\ \A a, b, c \in Numbers :
              /\ <<a, b>> \in Order /\ <<b, c>> \in Order
              /\ Weight(a) = Weight(c)
              => Weight(b) = Weight(a)
         /\ \A a, b \in Numbers :
              <<a, b>> \in Order /\ Weight(a) = Weight(b) => a < b
PROOF
  <1>1. Len(job.grps) \in Nat /\ \A a \in Numbers : a \in Int
    BY Values DEF Numbers
  <1>2. ASSUME NEW a \in Numbers, NEW b \in Numbers
        PROVE  ~ (Lex(Weight(a), Weight(b), Len(job.grps))
                    /\ Lex(Weight(b), Weight(a), Len(job.grps)))
    <2> DEFINE v == Weight(a)
               w == Weight(b)
               n == Len(job.grps)
    <2>1. \A k \in 1 .. n : v[k] \in Int \X Int /\ w[k] \in Int \X Int
      BY WeightFacts DEF Keys
    <2> HIDE DEF v, w, n
    <2>2. n \in Nat
      BY <1>1 DEF n
    <2>3. ~ (Lex(v, w, n) /\ Lex(w, v, n))
      BY <2>1, <2>2, LexOnce
    <2> QED BY <2>3 DEF v, w, n
  <1>3. ASSUME NEW a \in Numbers, NEW b \in Numbers
        PROVE  <<a, b>> \in Order <=> \/ Lex(Weight(a), Weight(b), Len(job.grps))
                                      \/ Weight(a) = Weight(b) /\ a < b
    <2>1. <<a, b>> \in Order <=> Before(a, b)
      BY DEF Order
    <2> QED BY <2>1, BeforeIsLex
  <1>4. ASSUME NEW a \in Numbers PROVE <<a, a>> \notin Order
    <2>1. ~ (a < a)
      BY <1>1
    <2> QED BY <1>2, <1>3, <2>1
  <1>5. ASSUME NEW a \in Numbers, NEW b \in Numbers, NEW c \in Numbers,
               <<a, b>> \in Order, <<b, c>> \in Order, Weight(a) = Weight(c)
        PROVE  Weight(b) = Weight(a)
    <2>1. Lex(Weight(a), Weight(b), Len(job.grps)) \/ Weight(a) = Weight(b)
      BY <1>3, <1>5
    <2>2. Lex(Weight(b), Weight(a), Len(job.grps)) \/ Weight(b) = Weight(a)
      BY <1>3, <1>5
    <2> QED BY <1>2, <2>1, <2>2
  <1>6. ASSUME NEW a \in Numbers, NEW b \in Numbers,
               <<a, b>> \in Order, Weight(a) = Weight(b)
        PROVE  a < b
    <2>1. ~Lex(Weight(a), Weight(b), Len(job.grps))
      BY <1>2, <1>6
    <2> QED BY <1>3, <1>6, <2>1
  <1> QED BY <1>4, <1>5, <1>6

-----------------------------------------------------------------------------
(* Groups.                                                                 *)

SameBlanksIn(a, b) ==
  \A f \in Range(columns) : input[a].fields[f].blanks = input[b].fields[f].blanks

(* Of two lines that have the keys, equal keys make equal weights.         *)
LEMMA KeyGivesWeight ==
  ASSUME TypeOK, NEW a \in Numbers, NEW b \in Numbers, HasKey(a), HasKey(b),
         GroupKey(a) = GroupKey(b), SameBlanksIn(a, b)
  PROVE  Weight(a) = Weight(b)
PROOF
  <1>1. DOMAIN columns = Keys
    BY Values DEF Keys
  <1>2. ASSUME NEW k \in Keys
        PROVE  SortKey(input[a], columns[k]) = SortKey(input[b], columns[k])
    <2>1. columns[k] \in Range(columns)
      BY <1>1 DEF Range
    <2>2. columns[k] \in DOMAIN input[a].fields /\ columns[k] \in DOMAIN input[b].fields
      BY <2>1 DEF HasKey
    <2>3. input[a].fields[columns[k]].blanks = input[b].fields[columns[k]].blanks
      BY <2>1 DEF SameBlanksIn
    <2>4. GroupKey(a)[k] = GroupKey(b)[k]
      OBVIOUS
    <2>5. Letters(input[a].fields[columns[k]].text) = Letters(input[b].fields[columns[k]].text)
      BY <1>1, <2>4 DEF GroupKey
    <2> QED BY <2>2, <2>3, <2>5 DEF SortKey
  <1>3. /\ Weight(a) = [k \in Keys |-> SortKey(input[a], columns[k])]
        /\ Weight(b) = [k \in Keys |-> SortKey(input[b], columns[k])]
    BY WeightFacts
  <1> QED BY <1>2, <1>3

(* And a line of the same weight as one that has the keys has them too.    *)
LEMMA WeightGivesKey ==
  ASSUME TypeOK, NEW a \in Numbers, NEW b \in Numbers, HasKey(a), Weight(a) = Weight(b)
  PROVE  /\ HasKey(b) /\ GroupKey(b) = GroupKey(a)
         /\ BlanksBefore(b) = BlanksBefore(a)
PROOF
  <1>1. /\ DOMAIN columns = Keys /\ input[a] \in Line /\ input[b] \in Line
    BY Values DEF Keys
  <1>2. ASSUME NEW k \in Keys
        PROVE  /\ columns[k] \in DOMAIN input[b].fields
               /\ Letters(input[b].fields[columns[k]].text)
                    = Letters(input[a].fields[columns[k]].text)
               /\ input[b].fields[columns[k]].blanks
                    = input[a].fields[columns[k]].blanks
    <2> DEFINE c == columns[k]
               s == Letters(input[a].fields[c].text)
               t == Letters(input[b].fields[c].text)
    <2>1. c \in Range(columns)
      BY <1>1 DEF Range
    <2>2. c \in DOMAIN input[a].fields
      BY <2>1 DEF HasKey
    <2>3. SortKey(input[a], c) = SortKey(input[b], c)
      <3>1. /\ Weight(a) = [h \in Keys |-> SortKey(input[a], columns[h])]
            /\ Weight(b) = [h \in Keys |-> SortKey(input[b], columns[h])]
        BY WeightFacts
      <3>2. Weight(a)[k] = Weight(b)[k]
        OBVIOUS
      <3> QED BY <3>1, <3>2
    <2>4. s \in Text
      <3>1. input[a].fields[c].text \in Text
        BY <1>1, <2>2, LineFacts
      <3> QED BY <3>1, SortedInputAssumption DEF Letters
    <2>5. SortKey(input[a], c)[2] = Rank[s] /\ Rank[s] \in Nat \ {0}
      BY <2>2, <2>4, SortedInputAssumption DEF SortKey
    <2>6. c \in DOMAIN input[b].fields
      <3> SUFFICES ASSUME c \notin DOMAIN input[b].fields PROVE FALSE
        OBVIOUS
      <3>1. SortKey(input[b], c)[2] = 0
        BY DEF SortKey
      <3>2. Rank[s] = 0
        BY <2>3, <2>5, <3>1
      <3> QED BY <2>5, <3>2
    <2>7. t \in Text
      <3>1. input[b].fields[c].text \in Text
        BY <1>1, <2>6, LineFacts
      <3> QED BY <3>1, SortedInputAssumption DEF Letters
    <2>8. SortKey(input[b], c)[2] = Rank[t]
      BY <2>6 DEF SortKey
    <2>9. Rank[t] = Rank[s]
      BY <2>3, <2>5, <2>8
    <2>10. t = s
      <3> HIDE DEF s, t
      <3> QED BY <2>4, <2>7, <2>9, SortedInputAssumption
    <2>11. input[b].fields[c].blanks = input[a].fields[c].blanks
      <3>1. /\ SortKey(input[a], c)[1] = -input[a].fields[c].blanks
            /\ SortKey(input[b], c)[1] = -input[b].fields[c].blanks
        BY <2>2, <2>6 DEF SortKey
      <3>2. input[a].fields[c].blanks \in Nat /\ input[b].fields[c].blanks \in Nat
        BY <1>1, <2>2, <2>6, LineFacts
      <3>3. -input[a].fields[c].blanks = -input[b].fields[c].blanks
        BY <2>3, <3>1
      <3> QED BY <3>2, <3>3
    <2> QED BY <2>6, <2>10, <2>11
  <1>3. HasKey(b)
    BY <1>1, <1>2 DEF HasKey, Range
  <1>4. GroupKey(b) = GroupKey(a)
    BY <1>1, <1>2 DEF GroupKey
  <1>5. BlanksBefore(b) = BlanksBefore(a)
    BY <1>1, <1>2 DEF BlanksBefore
  <1> QED BY <1>3, <1>4, <1>5

LEMMA DataOrder ==
  ASSUME IInv, UsesSort
  PROVE  /\ data \in Seq(Numbers) /\ Len(data) \in Nat /\ DOMAIN data = 1 .. Len(data)
         /\ \A i \in 1 .. Len(data) : data[i] \in Numbers
         /\ \A i, k \in 1 .. Len(data) : i < k => <<data[i], data[k]>> \in Order
PROOF
  <1>1. TypeOK /\ InOrder
    BY DEF IInv
  <1>2. data \in Seq(Numbers)
    BY <1>1 DEF TypeOK, Numbers
  <1>3. Len(data) \in Nat /\ DOMAIN data = 1 .. Len(data)
        /\ \A i \in 1 .. Len(data) : data[i] \in Numbers
    BY <1>2
  <1>4. /\ Len(Stream) >= Len(data) /\ Len(Stream) \in Nat
        /\ \A i \in 1 .. Len(data) : Stream[i] = data[i]
    <2>1. /\ Len(Stream) = Len(data) + Len(pipe) + Len(sorted)
          /\ Len(pipe) \in Nat /\ Len(sorted) \in Nat
          /\ \A i \in 1 .. Len(data) : Stream[i] = data[i]
      BY <1>1, StreamType
    <2> HIDE DEF Stream
    <2> QED BY <1>3, <2>1
  <1>5. \A i, k \in 1 .. Len(Stream) : i < k => <<Stream[i], Stream[k]>> \in Order
    BY <1>1 DEF InOrder
  <1>6. ASSUME NEW i \in 1 .. Len(data), NEW k \in 1 .. Len(data), i < k
        PROVE  <<data[i], data[k]>> \in Order
    <2>1. i \in 1 .. Len(Stream) /\ k \in 1 .. Len(Stream)
      BY <1>3, <1>4
    <2> QED BY <1>4, <1>5, <1>6, <2>1
  <1> QED BY <1>2, <1>3, <1>6

LEMMA GroupsTogetherHolds == IInv => GroupsTogether
PROOF
  <1> SUFFICES ASSUME IInv, UsesSort,
                      NEW i \in DOMAIN data, NEW k \in DOMAIN data,
                      i < k, Alike(data[i], data[k])
               PROVE  /\ data[i] < data[k]
                      /\ \A j \in i .. k : Alike(data[i], data[j])
    BY DEF GroupsTogether
  <1>0. /\ HasKey(data[i]) /\ HasKey(data[k])
        /\ GroupKey(data[i]) = GroupKey(data[k])
    BY DEF Alike
  <1>1. TypeOK /\ InOrder
    BY DEF IInv
  <1>2. /\ Len(data) \in Nat /\ DOMAIN data = 1 .. Len(data)
        /\ \A n \in 1 .. Len(data) : data[n] \in Numbers
        /\ \A n, m \in 1 .. Len(data) : n < m => <<data[n], data[m]>> \in Order
    BY DataOrder
  <1>3. data[i] \in Numbers /\ data[k] \in Numbers
    BY <1>2
  <1>4. SameBlanksIn(data[i], data[k])
    <2>1. CASE job.whitespace
      <3>1. BlanksBefore(data[i]) = BlanksBefore(data[k])
        BY <2>1 DEF Alike
      <3>2. ASSUME NEW f \in Range(columns)
            PROVE  input[data[i]].fields[f].blanks = input[data[k]].fields[f].blanks
        <4>1. PICK h \in DOMAIN columns : f = columns[h]
          BY <3>2 DEF Range
        <4>2. BlanksBefore(data[i])[h] = BlanksBefore(data[k])[h]
          BY <3>1
        <4> QED BY <4>1, <4>2 DEF BlanksBefore
      <3> QED BY <3>2 DEF SameBlanksIn
    <2>2. CASE ~job.whitespace
      <3>1. ~HasBlanks(input)
        BY <1>1, <2>2 DEF InOrder
      <3>2. ASSUME NEW n \in Numbers, HasKey(n), NEW f \in Range(columns)
            PROVE  input[n].fields[f].blanks = 0
        <4>1. f \in DOMAIN input[n].fields
          BY <3>2 DEF HasKey
        <4>2. input[n] \in Line /\ n \in DOMAIN input
          BY <1>1, Values
        <4>3. ~ (input[n].fields[f].blanks > 0)
          BY <3>1, <4>1, <4>2 DEF HasBlanks
        <4>4. input[n].fields[f].blanks \in Nat
          BY <4>1, <4>2, LineFacts
        <4> QED BY <4>3, <4>4
      <3> QED BY <1>0, <1>3, <3>2 DEF SameBlanksIn
    <2> QED BY <2>1, <2>2
  <1>5. Weight(data[i]) = Weight(data[k])
    BY <1>0, <1>1, <1>3, <1>4, KeyGivesWeight
  <1>6. data[i] < data[k]
    BY <1>1, <1>2, <1>3, <1>5, OrderFacts
  <1>7. ASSUME NEW j \in i .. k
        PROVE  Alike(data[i], data[j])
    <2>1. j \in 1 .. Len(data) /\ i \in 1 .. Len(data) /\ k \in 1 .. Len(data)
      BY <1>2
    <2>2. Weight(data[j]) = Weight(data[i])
      <3>1. CASE j = i
        BY <3>1
      <3>2. CASE j = k
        BY <1>5, <3>2
      <3>3. CASE i < j /\ j < k
        <4>1. <<data[i], data[j]>> \in Order /\ <<data[j], data[k]>> \in Order
          BY <1>2, <2>1, <3>3
        <4>2. data[j] \in Numbers
          BY <1>2, <2>1
        <4> QED BY <1>1, <1>3, <1>5, <4>1, <4>2, OrderFacts
      <3> QED BY <2>1, <3>1, <3>2, <3>3
    <2>3. data[j] \in Numbers
      BY <1>2, <2>1
    <2>4. /\ HasKey(data[j]) /\ GroupKey(data[j]) = GroupKey(data[i])
          /\ BlanksBefore(data[j]) = BlanksBefore(data[i])
      BY <1>0, <1>1, <1>3, <2>2, <2>3, WeightGivesKey
    <2> QED BY <1>0, <2>4 DEF Alike
  <1> QED BY <1>6, <1>7

(* The lines of a group reach the mode's loop one after the other and in   *)
(* the order of the input, for every input, order of texts and list of     *)
(* keys, also while sort is at work and when it breaks.  Under -W a group  *)
(* is the lines with the same keys behind the same blanks, among others of *)
(* any kind.  (open_input, and what datamash asks of sort)                 *)
THEOREM EqualKeysStayTogether == Spec => []GroupsTogether
  BY Invariant, GroupsTogetherHolds, PTL

-----------------------------------------------------------------------------
(* All lines.                                                              *)

LEMMA HeaderIsLine1 ==
  ASSUME TypeOK, Headed, status = "done"
  PROVE  header = [i \in 1 .. HeaderCount |-> 1]
PROOF
  <1>1. /\ header \in Seq(Numbers) /\ Len(header) = HeaderCount
        /\ HeaderCount \in {0, 1} /\ (HeaderCount = 1 => header[1] = 1)
    BY HeaderCounts DEF TypeOK, Numbers, Headed
  <1>2. header = [i \in 1 .. HeaderCount |-> header[i]]
    <2> HIDE DEF HeaderCount
    <2> QED BY <1>1
  <1>3. \A i \in 1 .. HeaderCount : header[i] = 1
    <2> HIDE DEF HeaderCount
    <2> QED BY <1>1
  <1> QED BY <1>2, <1>3

LEMMA DoneFromStdin ==
  ASSUME TypeOK, Headed, ReadFromStdin, ~UsesSort, status = "done", AtEof
  PROVE  IsInjective(data) /\ Range(data) = HeaderCount + 1 .. Len(input)
PROOF
  <1>1. data \in Seq(Numbers)
    BY DEF TypeOK, Numbers
  <1>2. /\ Len(data) \in Nat /\ DOMAIN data = 1 .. Len(data)
    BY <1>1
  <1>3. /\ Len(header) = HeaderCount /\ off = Len(input)
        /\ HeaderCount \in Nat /\ Len(input) \in Nat
    BY HeaderCounts DEF Headed, AtEof
  <1>4. /\ Len(data) = Len(input) - HeaderCount
        /\ \A i \in 1 .. Len(data) : data[i] = HeaderCount + i
    <2>1. off = Len(header) + Len(data)
          /\ \A i \in 1 .. Len(data) : data[i] = Len(header) + i
      BY DEF ReadFromStdin
    <2> HIDE DEF HeaderCount
    <2> QED BY <1>2, <1>3, <2>1
  <1> HIDE DEF HeaderCount
  <1>5. \A i, k \in 1 .. Len(data) : data[i] = data[k] => i = k
    BY <1>2, <1>3, <1>4
  <1>6. ASSUME NEW n \in Range(data) PROVE n \in (HeaderCount + 1) .. Len(input)
    <2>1. PICK i \in 1 .. Len(data) : n = data[i]
      BY <1>2 DEF Range
    <2> QED BY <1>3, <1>4, <2>1
  <1>7. ASSUME NEW n \in (HeaderCount + 1) .. Len(input) PROVE n \in Range(data)
    <2> DEFINE i == n - HeaderCount
    <2>1. i \in 1 .. Len(data) /\ HeaderCount + i = n
      BY <1>3, <1>4
    <2> HIDE DEF i
    <2>2. data[i] = n
      BY <1>4, <2>1
    <2> QED BY <1>2, <2>1, <2>2 DEF Range
  <1> QED BY <1>2, <1>5, <1>6, <1>7 DEF IsInjective

LEMMA DoneFromSort ==
  ASSUME IInv, ~HeaderReadTwice, UsesSort, status = "done"
  PROVE  IsInjective(data) /\ Range(data) = HeaderCount + 1 .. Len(input)
PROOF
  <1>1. TypeOK /\ Stages /\ ReadFromSort /\ child \in {"none", "exited"} /\ AtEof
    BY DEF IInv, Delivered
  <1>2. pipe = << >> /\ child = "exited" /\ sorted = << >>
    BY <1>1 DEF AtEof, ChildEnded, Stages
  <1>3. /\ data \in Seq(Numbers) /\ DOMAIN data = 1 .. Len(data)
        /\ Len(data) \in Nat
        /\ \A i \in 1 .. Len(data) : data[i] \in Numbers
        /\ \A i, k \in 1 .. Len(data) : i < k => <<data[i], data[k]>> \in Order
    BY DataOrder
  <1>4. Stream = data
    <2>1. Stream = (data \o << >>) \o << >>
      BY <1>2 DEF Stream
    <2>2. data \o << >> = data
      BY <1>3, ConcatEmptySeq
    <2> QED BY <2>1, <2>2
  <1>5. Range(data) = HeaderCount + 1 .. Len(input)
    BY <1>1, <1>2, <1>4 DEF ReadFromSort
  <1>6. ASSUME NEW i \in 1 .. Len(data), NEW k \in 1 .. Len(data), data[i] = data[k]
        PROVE  i = k
    <2>1. <<data[i], data[k]>> \notin Order /\ <<data[k], data[i]>> \notin Order
      BY <1>1, <1>3, <1>6, OrderFacts
    <2>2. ~ (i < k) /\ ~ (k < i)
      BY <1>3, <2>1
    <2> QED BY <2>2
  <1> QED BY <1>3, <1>5, <1>6 DEF IsInjective

LEMMA DataDeliveredHolds == IInv /\ ~HeaderReadTwice => DataDelivered
PROOF
  <1> SUFFICES ASSUME IInv, ~HeaderReadTwice PROVE DataDelivered
    OBVIOUS
  <1>1. TypeOK /\ Stages /\ Delivered
    BY DEF IInv
  <1>2. ASSUME status = "done"
        PROVE  /\ header = [i \in 1 .. HeaderCount |-> 1]
               /\ IsInjective(data)
               /\ Range(data) = HeaderCount + 1 .. Len(input)
    <2>1. Headed /\ AtEof
      BY <1>1, <1>2 DEF Delivered
    <2>2. header = [i \in 1 .. HeaderCount |-> 1]
      BY <1>1, <1>2, <2>1, HeaderIsLine1
    <2>3. CASE UsesSort
      BY <1>2, <2>2, <2>3, DoneFromSort
    <2>4. CASE ~UsesSort
      BY <1>1, <1>2, <2>1, <2>2, <2>4, DoneFromStdin DEF Delivered
    <2> QED BY <2>3, <2>4
  <1>3. ASSUME status = "read error on close"
        PROVE  child = "failed" \/ (input = << >> /\ Named(job) # {})
    <2>1. child \in {"refused", "failed"}
      BY <1>1, <1>3 DEF Delivered
    <2>2. UsesSort
      BY <1>1, <2>1 DEF Stages
    <2> QED BY <1>1, <2>1, <2>2 DEF Delivered, ReadFromSort
  <1> QED BY <1>2, <1>3 DEF DataDelivered

(* On every input datamash takes the first line and no other for the       *)
(* header, and every other line once, or it reports an error; and an error *)
(* on closing is the fault of sort, but on an empty input.  rmdup --sort   *)
(* --header-in is left out: there it does not hold.  (open_input,          *)
(* process_input_header, close_input)                                      *)
THEOREM EveryLineArrives == Spec => [](~HeaderReadTwice => DataDelivered)
  BY Invariant, DataDeliveredHolds, PTL
=============================================================================
