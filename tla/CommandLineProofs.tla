------------------------- MODULE CommandLineProofs --------------------------
(***************************************************************************)
(* What the parser accepts is what the rest of datamash takes for granted, *)
(* for any text of any length.                                             *)
(*                                                                         *)
(* The scanner is handled by what Get and Peek promise of any scanner; the *)
(* inductive invariant then says, for every function that parses, what is  *)
(* known of the groups, of the fields of the column and of the operations  *)
(* when it is its turn.                                                    *)
(***************************************************************************)
EXTENDS CommandLine, SequenceTheorems, WellFoundedInduction, TLAPS

-----------------------------------------------------------------------------
(* Lemmas on numbers and sequences.                                        *)

(* A set of numbers that is not empty has a least member.                  *)
LEMMA LeastNumber ==
  ASSUME NEW S \in SUBSET Nat, S # {}
  PROVE  \E x \in S : \A y \in S : x <= y
<1> DEFINE LT == {ss \in Nat \X Nat : ss[1] < ss[2]}
<1>1. IsWellFoundedOn(LT, Nat)
  BY NatLessThanWellFounded DEF OpToRel
<1>2. PICK x \in S : \A y \in S : ~ (<<y, x>> \in LT)
  <2> HIDE DEF LT
  <2> QED
    BY <1>1, WFMin
<1>3. ASSUME NEW y \in S
      PROVE  x <= y
  <2>1. x \in Nat /\ y \in Nat /\ ~ (<<y, x>> \in LT)
    BY <1>2
  <2>2. ~ (y < x)
    BY <2>1
  <2> QED
    BY <2>1, <2>2
<1> QED
  BY <1>3

LEMMA EmptyDomain == \A s : s = << >> => DOMAIN s = {} /\ Len(s) = 0
OBVIOUS

(* The concatenations of the first, the first two, ... of some sequences.  *)
Flattens(f, seqs, n) ==
  f = [i \in 1 .. n |-> IF i = 1 THEN seqs[i] ELSE f[i-1] \o seqs[i]]

LEMMA FlattensExists ==
  ASSUME NEW seqs, NEW n \in Nat
  PROVE  \E f : Flattens(f, seqs, n)
<1> DEFINE Wrong == {m \in Nat : ~ \E f : Flattens(f, seqs, m)}
<1> SUFFICES ASSUME ~ \E f : Flattens(f, seqs, n)
             PROVE  FALSE
  OBVIOUS
<1>1. PICK m \in Wrong : \A k \in Wrong : m <= k
  <2>1. Wrong \in SUBSET Nat /\ Wrong # {}
    OBVIOUS
  <2> HIDE DEF Wrong
  <2> QED
    BY <2>1, LeastNumber
<1>2. m \in Nat /\ ~ \E f : Flattens(f, seqs, m)
  BY <1>1
<1>3. m # 0
  <2>1. Flattens(<< >>, seqs, 0)
    BY DEF Flattens
  <2> QED
    BY <1>2, <2>1
<1>4. m - 1 \in Nat /\ m - 1 \notin Wrong
  BY <1>1, <1>2, <1>3
<1>5. PICK f : Flattens(f, seqs, m - 1)
  BY <1>4
<1> DEFINE g == [i \in 1 .. m |-> IF i < m THEN f[i]
                                  ELSE IF i = 1 THEN seqs[i] ELSE f[i-1] \o seqs[i]]
<1>6. ASSUME NEW i \in 1 .. m
      PROVE  g[i] = IF i = 1 THEN seqs[i] ELSE g[i-1] \o seqs[i]
  <2>1. CASE i = m
    <3>1. m # 1 => m - 1 \in 1 .. m /\ m - 1 < m
      BY <1>2, <1>3
    <3> QED
      BY <2>1, <3>1
  <2>2. CASE i # m
    <3>1. i \in 1 .. m - 1 /\ i < m
      BY <1>2, <2>2
    <3>2. i # 1 => i - 1 \in 1 .. m /\ i - 1 < m
      BY <1>2, <3>1
    <3>3. f[i] = IF i = 1 THEN seqs[i] ELSE f[i-1] \o seqs[i]
      BY <1>5, <3>1 DEF Flattens
    <3> QED
      BY <3>1, <3>2, <3>3
  <2> QED
    BY <2>1, <2>2
<1>7. g = [i \in 1 .. m |-> g[i]]
  OBVIOUS
<1> HIDE DEF g
<1>8. Flattens(g, seqs, m)
  BY <1>6, <1>7 DEF Flattens
<1> QED
  BY <1>2, <1>8

(* FlattenSeq is the last of them.                                         *)
LEMMA FlattenSeqIs ==
  ASSUME NEW seqs, Len(seqs) \in Nat \ {0}
  PROVE  \E f : /\ f[1] = seqs[1]
                /\ \A i \in 2 .. Len(seqs) : f[i] = f[i-1] \o seqs[i]
                /\ FlattenSeq(seqs) = f[Len(seqs)]
<1> DEFINE n == Len(seqs)
           F == CHOOSE f : Flattens(f, seqs, n)
<1>1. Flattens(F, seqs, n)
  BY FlattensExists
<1>2. FlattenSeq(seqs) = F[n]
  BY DEF FlattenSeq, Flattens
<1> HIDE DEF F
<1>3. F[1] = seqs[1] /\ \A i \in 2 .. n : F[i] = F[i-1] \o seqs[i]
  <2> HIDE DEF n
  <2>1. ASSUME NEW i \in 1 .. n
        PROVE  F[i] = IF i = 1 THEN seqs[i] ELSE F[i-1] \o seqs[i]
    BY <1>1, Zenon DEF Flattens
  <2>2. 1 \in 1 .. n /\ \A i \in 2 .. n : i \in 1 .. n /\ i # 1
    BY DEF n
  <2> QED
    BY <2>1, <2>2
<1> QED
  BY <1>2, <1>3

(* Sequences over S, one behind the other, are a sequence over S.          *)
LEMMA FlattenSeqType ==
  ASSUME NEW S, NEW seqs \in Seq(Seq(S)), seqs # << >>
  PROVE  /\ FlattenSeq(seqs) \in Seq(S)
         /\ Len(seqs) = 1 => FlattenSeq(seqs) = seqs[1]
         /\ seqs[Len(seqs)] # << >> => FlattenSeq(seqs) # << >>
<1> DEFINE n == Len(seqs)
<1>1. n \in Nat \ {0} /\ \A i \in 1 .. n : seqs[i] \in Seq(S)
  BY EmptySeq, LenProperties
<1>2. PICK f : /\ f[1] = seqs[1]
               /\ \A i \in 2 .. n : f[i] = f[i-1] \o seqs[i]
               /\ FlattenSeq(seqs) = f[n]
  BY <1>1, FlattenSeqIs
<1> HIDE DEF n
<1>3. ASSUME NEW i \in 1 .. n, f[i] \notin Seq(S)
      PROVE  FALSE
  <2> DEFINE Wrong == {k \in 1 .. n : f[k] \notin Seq(S)}
  <2>0. i \in Wrong
    BY <1>3
  <2>1. Wrong \in SUBSET Nat /\ Wrong # {}
    <3>1. Wrong \subseteq 1 .. n /\ 1 .. n \subseteq Nat
      BY <1>1
    <3> HIDE DEF Wrong
    <3> QED
      BY <2>0, <3>1
  <2>2. \A k \in 1 .. n : k \notin Wrong => f[k] \in Seq(S)
    OBVIOUS
  <2>3. \A k \in Wrong : k \in 1 .. n /\ f[k] \notin Seq(S)
    OBVIOUS
  <2> HIDE DEF Wrong
  <2>4. PICK k \in Wrong : \A m \in Wrong : k <= m
    BY <2>1, LeastNumber
  <2>5. k # 1
    BY <1>1, <1>2, <2>3
  <2>6. k \in 2 .. n /\ k - 1 \in 1 .. n /\ ~(k <= k - 1)
    BY <1>1, <2>3, <2>5
  <2>7. f[k-1] \in Seq(S) /\ seqs[k] \in Seq(S) /\ f[k] = f[k-1] \o seqs[k]
    BY <1>1, <1>2, <2>2, <2>3, <2>4, <2>6
  <2>8. f[k] \in Seq(S)
    BY ONLY <2>7, ConcatProperties
  <2> QED
    BY <2>3, <2>8
<1>4. f[n] \in Seq(S)
  BY <1>1, <1>3
<1>5. n = 1 => FlattenSeq(seqs) = seqs[1]
  BY <1>2
<1>6. ASSUME seqs[n] # << >>
      PROVE  FlattenSeq(seqs) # << >>
  <2>1. CASE n = 1
    BY <1>5, <1>6, <2>1
  <2>2. CASE n # 1
    <3>1. n \in 2 .. n /\ n - 1 \in 1 .. n /\ n \in 1 .. n
      BY <1>1, <2>2
    <3>2. f[n-1] \in Seq(S) /\ seqs[n] \in Seq(S) /\ f[n] = f[n-1] \o seqs[n]
      BY <1>1, <1>2, <1>3, <3>1
    <3>3. Len(f[n]) = Len(f[n-1]) + Len(seqs[n]) /\ Len(f[n-1]) \in Nat
      BY ONLY <3>2, ConcatProperties, LenProperties
    <3>4. Len(seqs[n]) \in Nat /\ Len(seqs[n]) # 0
      BY ONLY <1>6, <3>2, EmptySeq, LenProperties
    <3>5. Len(f[n]) # 0
      <4>1. \A x, y \in Nat : y # 0 => x + y # 0
        OBVIOUS
      <4> QED
        BY ONLY <3>3, <3>4, <4>1
    <3>6. Len(<< >>) = 0
      OBVIOUS
    <3> QED
      BY <1>2, <3>5, <3>6
  <2> QED
    BY <2>1, <2>2
<1> QED
  BY <1>2, <1>4, <1>5, <1>6 DEF n

(* What scanner_set_input_from_argv makes of the operands.                 *)
LEMMA JoinedIs ==
  ASSUME NEW S, NEW sep \in S, NEW ts \in Seq(Seq(S)), ts # << >>
  PROVE  /\ Joined(ts, sep) \in Seq(S)
         /\ Joined(ts, sep) = << >> => ts = << << >> >>
<1> DEFINE n == Len(ts)
           js == [k \in 1 .. n |-> IF k = 1 THEN ts[k] ELSE <<sep>> \o ts[k]]
<1>1. n \in Nat \ {0} /\ DOMAIN ts = 1 .. n /\ \A i \in 1 .. n : ts[i] \in Seq(S)
  BY EmptySeq, LenProperties
<1>2. Joined(ts, sep) = FlattenSeq(js)
  BY <1>1 DEF Joined
<1> HIDE DEF n
<1>3. \A k \in 1 .. n : /\ <<sep>> \o ts[k] \in Seq(S)
                        /\ <<sep>> \o ts[k] # << >>
  <2> SUFFICES ASSUME NEW k \in 1 .. n
               PROVE  <<sep>> \o ts[k] \in Seq(S) /\ <<sep>> \o ts[k] # << >>
    OBVIOUS
  <2>1. <<sep>> \in Seq(S) /\ Len(<<sep>>) = 1 /\ ts[k] \in Seq(S)
    BY <1>1
  <2>2. <<sep>> \o ts[k] \in Seq(S)
        /\ Len(<<sep>> \o ts[k]) = 1 + Len(ts[k]) /\ Len(ts[k]) \in Nat
    BY ONLY <2>1, ConcatProperties, LenProperties
  <2>3. Len(<<sep>> \o ts[k]) # 0 /\ Len(<< >>) = 0
    BY ONLY <2>2
  <2> QED
    BY <2>2, <2>3
<1>4. js \in [1 .. n -> Seq(S)]
  BY <1>1, <1>3
<1>5. js[1] = ts[1] /\ (n # 1 => js[n] # << >>)
  BY <1>1, <1>3
<1> HIDE DEF js
<1>6. js \in Seq(Seq(S))
  BY ONLY <1>1, <1>4, SeqDef
<1>7. DOMAIN js = 1 .. n
  BY <1>4
<1>8. Len(js) = n /\ js # << >>
  BY ONLY <1>1, <1>6, <1>7, LenProperties, EmptySeq
<1>9. /\ FlattenSeq(js) \in Seq(S)
      /\ n = 1 => FlattenSeq(js) = js[1]
      /\ js[n] # << >> => FlattenSeq(js) # << >>
  BY ONLY <1>6, <1>8, FlattenSeqType
<1>10. n = 1 => ts = <<ts[1]>>
  BY DEF n
<1> QED
  BY <1>2, <1>5, <1>9, <1>10

-----------------------------------------------------------------------------
(* The scanner.                                                            *)

NumbersOf(text) ==
  {text[k].n : k \in {k \in DOMAIN text : text[k].tok \in Numbers}}

(* A number that was read is one of the text, and is not spelled like an   *)
(* operation.                                                              *)
Read(s) == s.tok \in Numbers => s.id \notin OpWords /\ s.int \in NumbersOf(s.text)

LEMMA PastSpacesIs ==
  ASSUME NEW s, IsScanner(s)
  PROVE  /\ PastSpaces(s) \in s.pos .. Len(s.text) + 1
         /\ PastSpaces(s) \in DOMAIN s.text => s.text[PastSpaces(s)] # Space
<1> DEFINE len == Len(s.text)
           Past(q) == /\ q \in DOMAIN s.text => s.text[q] # Space
                      /\ \A r \in s.pos .. q - 1 : s.text[r] = Space
           Seen == {q \in s.pos .. len + 1 : q = len + 1 \/ s.text[q] # Space}
<1>1. len \in Nat /\ s.pos \in 1 .. len + 1 /\ DOMAIN s.text = 1 .. len
  BY LenProperties DEF IsScanner, ScannerType
<1> HIDE DEF len
<1>2. len + 1 \in Seen /\ Seen \subseteq s.pos .. len + 1 /\ Seen \in SUBSET Nat
  <2>1. s.pos .. len + 1 \subseteq Nat /\ len + 1 \in s.pos .. len + 1
    BY <1>1
  <2> QED
    BY <2>1
<1>3. \A q \in s.pos .. len + 1 : q \notin Seen => q # len + 1 /\ s.text[q] = Space
  OBVIOUS
<1>4. \A q \in Seen : q = len + 1 \/ s.text[q] # Space
  OBVIOUS
<1> HIDE DEF Seen
<1>5. PICK q \in Seen : \A r \in Seen : q <= r
  BY <1>2, LeastNumber
<1>6. \E n \in s.pos .. len + 1 : Past(n)
  <2>1. q \in s.pos .. len + 1
    BY <1>2
  <2>2. q \in DOMAIN s.text => s.text[q] # Space
    BY <1>1, <1>4, <1>5
  <2>3. ASSUME NEW r \in s.pos .. q - 1
        PROVE  s.text[r] = Space
    <3>1. r \in s.pos .. len + 1 /\ ~(q <= r)
      BY <1>1, <2>1
    <3> QED
      BY <1>3, <1>5, <3>1
  <2> QED
    BY <2>1, <2>2, <2>3
<1>7. PastSpaces(s) = CHOOSE n \in s.pos .. len + 1 : Past(n)
  BY DEF PastSpaces, len
<1> DEFINE d == CHOOSE n \in s.pos .. len + 1 : Past(n)
<1>8. d \in s.pos .. len + 1 /\ Past(d)
  <2> HIDE DEF Past
  <2> QED
    BY <1>6
<1> QED
  BY <1>7, <1>8 DEF len

LEMMA ScanIs ==
  ASSUME NEW s, IsScanner(s)
  PROVE  LET r == Scan(s)
         IN /\ IsScanner(r) /\ Read(r)
            /\ r.text = s.text /\ r.have_peek = s.have_peek /\ r.keep = s.keep
            /\ r.int = s.int \/ r.tok \in Numbers
            /\ r.tok = "END" => s.keep \/ s.pos > Len(s.text)
<1> DEFINE q == PastSpaces(s)
           Good(r) == /\ IsScanner(r) /\ Read(r)
                      /\ r.text = s.text /\ r.have_peek = s.have_peek
                      /\ r.keep = s.keep
                      /\ r.int = s.int \/ r.tok \in Numbers
                      /\ r.tok = "END" => s.keep \/ s.pos > Len(s.text)
<1>1. /\ s \in ScannerType /\ s.text \in Seq(PieceType)
      /\ Len(s.text) \in Nat /\ DOMAIN s.text = 1 .. Len(s.text)
      /\ s.pos \in 1 .. Len(s.text) + 1 /\ s.pos \in Nat
      /\ s.have_peek \in BOOLEAN /\ s.tok \in Tokens /\ s.int \in Nat
      /\ s.tenths \in Nat /\ s.id \in Strings /\ s.keep \in BOOLEAN
  BY LenProperties DEF IsScanner, ScannerType
<1>2. /\ q \in s.pos .. Len(s.text) + 1
      /\ q \in DOMAIN s.text => s.text[q] # Space
  BY PastSpacesIs
<1> HIDE DEF q
<1>3. ASSUME NEW tok \in Tokens \ Numbers, NEW pos \in 1 .. Len(s.text) + 1,
             tok = "END" => s.keep \/ s.pos > Len(s.text)
      PROVE  Good([s EXCEPT !.pos = pos, !.tok = tok])
  <2> DEFINE r == [s EXCEPT !.pos = pos, !.tok = tok]
  <2>1. /\ r.text = s.text /\ r.have_peek = s.have_peek /\ r.keep = s.keep
        /\ r.int = s.int /\ r.tok = tok /\ r.pos = pos
    BY <1>1 DEF ScannerType
  <2>2. r \in ScannerType
    <3> DEFINE u == [s EXCEPT !.pos = pos]
    <3>1. u \in ScannerType
      BY <1>1 DEF ScannerType
    <3>2. r = [u EXCEPT !.tok = tok]
      BY <1>1 DEF ScannerType
    <3> HIDE DEF u
    <3>3. [u EXCEPT !.tok = tok] \in ScannerType
      BY <3>1 DEF ScannerType
    <3> QED
      BY <3>2, <3>3
  <2> HIDE DEF r
  <2> QED
    BY <1>3, <2>1, <2>2 DEF IsScanner, Read, r
<1>4. CASE s.tok = "DEAD"
  <2>1. Scan(s) = s
    BY <1>4 DEF Scan
  <2>2. Read(s)
    BY <1>4 DEF Read, Numbers
  <2> QED
    BY <1>1, <1>4, <2>1, <2>2
<1>5. CASE s.tok # "DEAD" /\ s.pos > Len(s.text)
  <2>1. Scan(s) = [s EXCEPT !.tok = "END"]
    BY <1>1, <1>2, <1>5 DEF Scan, q
  <2>2. [s EXCEPT !.tok = "END"] = [s EXCEPT !.pos = s.pos, !.tok = "END"]
    BY <1>1 DEF ScannerType
  <2>3. Good([s EXCEPT !.pos = s.pos, !.tok = "END"])
    BY <1>1, <1>3, <1>5 DEF Tokens, Numbers
  <2> QED
    BY <2>1, <2>2, <2>3
<1>6. CASE s.tok # "DEAD" /\ ~(s.pos > Len(s.text)) /\ s.pos < q /\ s.keep
  <2> DEFINE tok == IF q > Len(s.text) THEN "END" ELSE "WHITESPACE"
  <2>1. Scan(s) = [s EXCEPT !.pos = q, !.tok = tok]
    BY <1>6 DEF Scan, q
  <2>2. tok \in Tokens \ Numbers /\ q \in 1 .. Len(s.text) + 1
    BY <1>1, <1>2 DEF Tokens, Numbers
  <2> HIDE DEF tok
  <2>3. Good([s EXCEPT !.pos = q, !.tok = tok])
    BY <1>3, <1>6, <2>2
  <2> QED
    BY <2>1, <2>3
<1>7. CASE s.tok # "DEAD" /\ ~(s.pos > Len(s.text)) /\ ~(s.pos < q /\ s.keep)
  <2>1. Scan(s) = IF Malformed(s) THEN [s EXCEPT !.tok = "DEAD"]
                  ELSE Token(s, s.text[q])
    BY <1>7 DEF Scan, q
  <2>2. CASE Malformed(s)
    <3>1. [s EXCEPT !.tok = "DEAD"] = [s EXCEPT !.pos = s.pos, !.tok = "DEAD"]
      BY <1>1 DEF ScannerType
    <3>2. Good([s EXCEPT !.pos = s.pos, !.tok = "DEAD"])
      BY <1>1, <1>3 DEF Tokens, Numbers
    <3> QED
      BY <2>1, <2>2, <3>1, <3>2
  <2>3. CASE ~Malformed(s)
    <3> DEFINE t == s.text[q]
               r == Token(s, t)
    <3>1. q \in 1 .. Len(s.text) /\ t # Bad
      BY <1>1, <1>2, <2>3 DEF Malformed, q
    <3>2. t \in PieceType /\ t # Space
      BY <1>1, <1>2, <3>1
    <3>3. /\ t.tok \in Tokens \ {"WHITESPACE", "END", "DEAD"}
          /\ t.n \in Nat /\ t.tenths \in Nat /\ t.text \in Strings
          /\ t.tok \in Numbers => t.text \notin OpWords
      BY <3>1, <3>2 DEF PieceType, AnyPiece, Tokens, Numbers, Strings
    <3>4. t.tok \in Numbers => t.n \in NumbersOf(s.text)
      BY <1>1, <3>1 DEF NumbersOf
    <3> HIDE DEF t
    <3>5. /\ r.text = s.text /\ r.have_peek = s.have_peek /\ r.keep = s.keep
          /\ r.pos = q + 1 /\ r.tok = t.tok /\ r.id = t.text
          /\ r.int = IF t.tok \in Numbers THEN t.n ELSE s.int
          /\ r.tenths = IF t.tok = "FLOAT" THEN t.tenths ELSE s.tenths
      BY <1>1 DEF Token, ScannerType, q
    <3>6. r \in ScannerType
      <4> DEFINE u == [s EXCEPT !.pos = q + 1]
                 v == [u EXCEPT !.tok = t.tok]
                 w == [v EXCEPT !.id = t.text]
                 x == [w EXCEPT !.int = IF t.tok \in Numbers THEN t.n ELSE @]
      <4>1. u \in ScannerType
        BY <1>1, <1>2 DEF ScannerType
      <4> HIDE DEF u
      <4>2. v \in ScannerType
        BY <3>3, <4>1 DEF ScannerType
      <4> HIDE DEF v
      <4>3. w \in ScannerType
        BY <3>3, <4>2 DEF ScannerType
      <4> HIDE DEF w
      <4>4. x \in ScannerType
        BY <3>3, <4>3 DEF ScannerType
      <4> HIDE DEF x
      <4>5. [x EXCEPT !.tenths = IF t.tok = "FLOAT" THEN t.tenths ELSE @]
              \in ScannerType
        BY <3>3, <4>4 DEF ScannerType
      <4>6. r = [x EXCEPT !.tenths = IF t.tok = "FLOAT" THEN t.tenths ELSE @]
        BY <1>1 DEF Token, ScannerType, q, u, v, w, x
      <4> QED
        BY <4>5, <4>6
    <3> HIDE DEF r
    <3>7. r.pos \in 1 .. Len(s.text) + 1
      BY <1>1, <3>1, <3>5
    <3>8. IsScanner(r) /\ Read(r)
      BY <3>3, <3>4, <3>5, <3>6, <3>7 DEF IsScanner, Read
    <3>9. r.tok # "END" /\ (r.int = s.int \/ r.tok \in Numbers)
      BY <3>3, <3>5
    <3>10. Scan(s) = r
      BY <2>1, <2>3 DEF r, t
    <3> QED
      BY <3>5, <3>8, <3>9, <3>10
  <2> QED
    BY <2>2, <2>3
<1> QED
  BY <1>4, <1>5, <1>6, <1>7

(* A scanner between two calls: the token that was peeked at was read.     *)
Idle(s) == IsScanner(s) /\ (s.have_peek => Read(s))

LEMMA GetIs ==
  ASSUME NEW s, Idle(s)
  PROVE  LET r == Get(s)
         IN /\ Idle(r) /\ Read(r)
            /\ r.text = s.text /\ ~r.have_peek /\ r.keep = s.keep
            /\ s.have_peek => r.tok = s.tok /\ r.int = s.int /\ r.id = s.id
<1>1. CASE s.have_peek
  <2> DEFINE r == [s EXCEPT !.have_peek = FALSE]
  <2>1. Get(s) = r
    BY <1>1 DEF Get
  <2>2. /\ r.text = s.text /\ ~r.have_peek /\ r.keep = s.keep /\ r.pos = s.pos
        /\ r.tok = s.tok /\ r.int = s.int /\ r.id = s.id /\ r \in ScannerType
    BY DEF Idle, IsScanner, ScannerType
  <2> HIDE DEF r
  <2> QED
    BY <1>1, <2>1, <2>2 DEF Idle, IsScanner, Read
<1>2. CASE ~s.have_peek
  <2>1. Get(s) = Scan(s)
    BY <1>2 DEF Get
  <2> QED
    BY <1>2, <2>1, ScanIs DEF Idle
<1> QED
  BY <1>1, <1>2

LEMMA PeekIs ==
  ASSUME NEW s, Idle(s)
  PROVE  LET r == Peek(s)
         IN /\ Idle(r) /\ Read(r)
            /\ r.text = s.text /\ r.have_peek /\ r.keep = s.keep
            /\ s.have_peek => r = s
            /\ r.int = s.int \/ r.tok \in Numbers
            /\ r.tok = "END" => s.have_peek \/ s.keep \/ s.pos > Len(s.text)
<1>1. CASE s.have_peek
  BY <1>1 DEF Peek, Idle
<1>2. CASE ~s.have_peek
  <2> DEFINE u == Scan(s)
             r == [u EXCEPT !.have_peek = TRUE]
  <2>1. Peek(s) = r
    BY <1>2 DEF Peek
  <2>2. /\ IsScanner(u) /\ Read(u) /\ u.text = s.text /\ u.keep = s.keep
        /\ u.int = s.int \/ u.tok \in Numbers
        /\ u.tok = "END" => s.keep \/ s.pos > Len(s.text)
    BY ScanIs DEF Idle
  <2> HIDE DEF u
  <2>3. /\ r.text = u.text /\ r.have_peek /\ r.keep = u.keep /\ r.pos = u.pos
        /\ r.tok = u.tok /\ r.int = u.int /\ r.id = u.id /\ r \in ScannerType
    BY <2>2 DEF IsScanner, ScannerType
  <2> HIDE DEF r
  <2> QED
    BY <1>2, <2>1, <2>2, <2>3 DEF Idle, IsScanner, Read
<1> QED
  BY <1>1, <1>2

-----------------------------------------------------------------------------
(* The inductive invariant.                                                *)

InGroups    == pc \in {"mode column", "mode columns"}
InOperation == pc \in {"parameters", "column", "pair", "range", "columns", "create"}

(* What is scanned; which texts are scanned without keeping blanks.        *)
Scanning ==
  /\ Idle(sc)
  /\ sc.text = IF job.premode /\ InGroups THEN job.grouping
               ELSE Joined(job.argv, Space)
  /\ job.premode /\ InGroups => ~sc.keep

(* The fields of the operation's columns: numbers are not 0, and what is   *)
(* marked as a range or a pair is followed by what belongs to it.          *)
FieldsOf(fs) ==
  \A k \in DOMAIN fs :
    /\ fs[k].by_name \/ fs[k].num > 0
    /\ k + Consumed(fs[k]) <= Len(fs) + 1

Columns ==
  /\ FieldsOf(fields)
  /\ pc = "pair" => p \in DOMAIN fields /\ p = Len(fields) /\ Consumed(fields[p]) = 1
  /\ pc = "range" => p \in DOMAIN fields /\ p = Len(fields) - 1
                       /\ ~fields[p].range
  /\ pc \in {"columns", "create"} => fields # << >>

(* Which function parses in which mode, and when there are operations.     *)
Modes ==
  /\ job.premode => dm.mode = "groupby" /\ pc # "mode or op"
  /\ pc = "mode or op" => dm.mode = "invalid" /\ dm.grps = << >> /\ dm.ops = << >>
  /\ InGroups => dm.mode \in {"groupby", "crosstab", "rmdup"} /\ dm.ops = << >>
  /\ pc = "check" => dm.mode = "check"
  /\ pc = "operations" => dm.mode \in {"groupby", "crosstab", "per_line"}
  /\ InOperation => fop \in OpWords /\ dm.mode \in {"crosstab", ModeOfOp[fop]}
  /\ dm.mode = "crosstab" => InGroups \/ Len(dm.grps) = 2
  /\ pc = "operations" /\ dm.ops = << >> =>
       /\ job.premode => ~sc.have_peek /\ sc.pos = 1 /\ ~sc.keep
       /\ dm.mode = "per_line" => sc.have_peek /\ sc.tok # "END"
  /\ pc = "extra operand" =>
       /\ dm.mode = "crosstab" => Len(dm.ops) = 1
       /\ dm.mode \in {"groupby", "per_line"} =>
            dm.ops # << >> \/ (job.premode /\ job.argv = << << >> >>)

OpsOf(ops, mode, nonzero) ==
  \A k \in DOMAIN ops :
    /\ mode \in {"crosstab", ModeOfOp[ops[k].op]}
    /\ nonzero => ops[k].by_name \/ ops[k].num > 0
    /\ ops[k].subordinate => k < Len(ops) /\ ops[k + 1].sub = k
    /\ ops[k].sub # 0 => ops[k].sub = k - 1 /\ ops[k - 1].subordinate

HasName(s) == \E k \in DOMAIN s : s[k].by_name

Operations ==
  /\ OpsOf(dm.ops, dm.mode, dm.mode # "crosstab" \/ NumbersFit)
  /\ dm.header_required <=> HasName(dm.grps) \/ HasName(dm.ops)

NoZeros ==
  job.premode => \A k \in DOMAIN job.grouping :
                   job.grouping[k].tok \in Numbers => job.grouping[k].n # 0

(* A number that follows a column after a blank is not refused at once.    *)
NumberLeft ==
  /\ ~job.premode /\ sc.have_peek /\ sc.tok \in Numbers
  /\ pc \in {"mode columns", "operations", "extra operand"}

Groupings ==
  NumbersFit =>
    /\ dm.mode = "rmdup" /\ pc # "mode column" => dm.grps # << >>
    /\ NoZeros => GroupsAreColumns \/ NumberLeft

Accepted ==
  status = "accepted" => pc = "extra operand" /\ Peek(sc).tok = "END"

Inv == /\ TypeOK /\ Scanning /\ Columns /\ Modes /\ Operations /\ Groupings
       /\ Accepted

LEMMA PieceFacts ==
  /\ Space \in PieceType
  /\ ~("END" \in Numbers) /\ ~("COMMA" \in Numbers)
<1>1. Space = [tok |-> "SPACE", n |-> 0, tenths |-> 0, text |-> ""]
  BY DEF Space, Piece
<1>2. Space.tok = "SPACE" /\ Space \in AnyPiece
  BY <1>1 DEF AnyPiece, Strings
<1> QED
  BY <1>2 DEF PieceType, Numbers

(* Both texts are sequences of pieces.                                     *)
LEMMA TextsAre ==
  ASSUME ValidJob(job)
  PROVE  /\ job.grouping \in Seq(PieceType) /\ Joined(job.argv, Space) \in Seq(PieceType)
         /\ Joined(job.argv, Space) = << >> => job.argv = << << >> >>
BY PieceFacts, JoinedIs DEF ValidJob

LEMMA InitInv == Init => Inv
<1> SUFFICES ASSUME Init PROVE Inv
  OBVIOUS
<1>1. ValidJob(job)
  BY OpParserAssumption DEF Init
<1>2. /\ job.premode \in BOOLEAN
      /\ pc = IF job.premode THEN "mode column" ELSE "mode or op"
      /\ fop = "invalid" /\ fields = << >> /\ alloc_fields = 0
      /\ p = 0 /\ dangling = FALSE /\ undefined = FALSE /\ status = "parsing"
      /\ dm = [mode |-> IF job.premode THEN "groupby" ELSE "invalid",
               header_required |-> FALSE, grps |-> << >>, ops |-> << >>,
               lines |-> 0, fields |-> 0]
  BY <1>1 DEF Init, ValidJob
<1>3. dm \in DmType /\ dm.grps = << >> /\ dm.ops = << >> /\ dm.header_required = FALSE
      /\ dm.mode = IF job.premode THEN "groupby" ELSE "invalid"
  <2>1. << >> \in Seq(GroupType) /\ << >> \in Seq(OpType)
    OBVIOUS
  <2> HIDE DEF GroupType, OpType
  <2> QED
    BY <1>2, <2>1 DEF DmType, ModeWords
<1>4. par \in ParType
  <2>1. PICK left \in Leftover :
          par = [used |-> 0, type |-> "INTEGER", u |-> left.u, f |-> 0, c |-> left.c]
    BY DEF Init
  <2>2. left.u \in Nat /\ left.c \in Strings
    BY OpParserAssumption DEF Strings
  <2> QED
    BY <2>1, <2>2 DEF ParType, Tokens, Numbers
<1>6. Scanning
  <2> DEFINE text == IF job.premode THEN job.grouping ELSE Joined(job.argv, Space)
  <2>1. sc = [text |-> text, pos |-> 1, have_peek |-> FALSE, tok |-> "END", int |-> 0,
              tenths |-> 0, id |-> "", keep |-> FALSE]
    BY DEF Init
  <2>2. text \in Seq(PieceType)
    BY <1>1, TextsAre
  <2>3. Len(text) \in Nat
    BY <2>2, LenProperties
  <2>4. InGroups <=> job.premode
    BY <1>2 DEF InGroups
  <2>5. sc.text = text
    BY <2>1
  <2> HIDE DEF text
  <2>6. sc.text = text /\ sc.pos = 1 /\ ~sc.have_peek /\ ~sc.keep /\ sc \in ScannerType
    <3>1. "END" \in Tokens /\ "" \in Strings /\ 1 \in Nat /\ 0 \in Nat
      BY DEF Tokens, Strings
    <3> HIDE DEF PieceType
    <3> QED
      BY <2>1, <2>2, <3>1 DEF ScannerType
  <2>7. Idle(sc)
    BY <2>3, <2>6 DEF Idle, IsScanner
  <2> QED
    BY <2>4, <2>6, <2>7 DEF Scanning, text
<1>e. /\ fields \in Seq(FieldType) /\ Len(fields) = 0 /\ DOMAIN fields = {}
      /\ pc \in {"mode column", "mode or op"}
  <2>1. fields = << >>
    BY <1>2
  <2>2. pc \in {"mode column", "mode or op"}
    BY <1>2
  <2>3. \A x, S : x = << >> => x \in Seq(S) /\ Len(x) = 0 /\ DOMAIN x = {}
    OBVIOUS
  <2> QED
    BY ONLY <2>1, <2>2, <2>3
<1>5. TypeOK
  <2>0. alloc_fields = 0
    BY <1>2
  <2>1. pc \in Places /\ Len(fields) <= alloc_fields
    <3>1. pc \in Places
      BY ONLY <1>e DEF Places
    <3>2. 0 <= 0
      OBVIOUS
    <3> QED
      BY ONLY <1>e, <2>0, <3>1, <3>2
  <2> HIDE DEF FieldType
  <2> QED
    BY <1>1, <1>2, <1>3, <1>4, <1>6, <1>e, <2>1 DEF TypeOK, Scanning, Idle
<1>7. Columns
  BY <1>e DEF Columns, FieldsOf
<1>8. Modes
  BY <1>2, <1>3 DEF Modes, InGroups, InOperation
<1>9. Operations
  BY <1>3 DEF Operations, OpsOf, HasName
<1>10. Groupings
  <2>1. GroupsAreColumns
    BY <1>3 DEF GroupsAreColumns
  <2>2. dm.mode # "rmdup"
    BY <1>3
  <2> QED
    BY <2>1, <2>2 DEF Groupings
<1>11. Accepted
  BY <1>2 DEF Accepted
<1> QED
  BY <1>5, <1>6, <1>7, <1>8, <1>9, <1>10, <1>11 DEF Inv

(* What does not change does not matter.                                   *)
LEMMA SameKeeps ==
  ASSUME Inv, UNCHANGED <<job, sc, pc, dm, fop, fields, alloc_fields, p, dangling, par>>,
         undefined' \in BOOLEAN, status' \in {"refused", "aborted"} \/ status' = status
  PROVE  Inv'
<1>1. TypeOK'
  BY DEF Inv, TypeOK
<1>2. Scanning' /\ Columns'
  BY DEF Inv, Scanning, InGroups, Columns
<1>3. Modes'
  BY DEF Inv, Modes, InGroups, InOperation
<1>4. Operations' /\ Groupings'
  BY DEF Inv, Operations, Groupings, NumbersFit, NoZeros, NumberLeft, GroupsAreColumns
<1>5. Accepted'
  BY DEF Inv, Accepted
<1> QED
  BY <1>1, <1>2, <1>3, <1>4, <1>5 DEF Inv

LEMMA StopKeeps ==
  ASSUME Inv, NEW st \in {"refused", "aborted"}, Stop(st)
  PROVE  Inv'
<1>1. undefined' = undefined /\ undefined \in BOOLEAN /\ status' = st
  BY DEF Stop, Inv, TypeOK
<1> QED
  BY <1>1, SameKeeps DEF Stop

(* What a step that only moves on leaves to be shown.                      *)
LEMMA GoKeeps ==
  ASSUME Inv, status = "parsing",
         NEW s, NEW where \in Places \ {"pair", "range"}, NEW d \in DmType,
         Go(s, where, d), IsScanner(s),
         where \in {"columns", "create"} => fields # << >>
  PROVE  /\ TypeOK' /\ Columns' /\ Accepted'
         /\ job' = job /\ sc' = s /\ pc' = where /\ dm' = d /\ fop' = fop
         /\ NumbersFit' = NumbersFit /\ NoZeros' = NoZeros
<1>1. /\ job' = job /\ sc' = s /\ pc' = where /\ dm' = d
      /\ fop' = fop /\ fields' = fields /\ alloc_fields' = alloc_fields /\ p' = p
      /\ dangling' = dangling /\ par' = par /\ undefined' = undefined
      /\ status' = status
  BY DEF Go, OperationUnchanged
<1>2. TypeOK'
  BY <1>1 DEF Inv, TypeOK
<1>3. Columns'
  BY <1>1 DEF Inv, Columns
<1>4. Accepted'
  BY <1>1 DEF Accepted
<1>5. NumbersFit' = NumbersFit /\ NoZeros' = NoZeros
  BY <1>1 DEF NumbersFit, NoZeros
<1> QED
  BY <1>1, <1>2, <1>3, <1>4, <1>5

(* A step that leaves dm alone keeps what Operations says.                 *)
LEMMA OperationsStay ==
  ASSUME Operations, dm' = dm, job' = job
  PROVE  Operations' /\ GroupsAreColumns' = GroupsAreColumns
BY DEF Operations, GroupsAreColumns, NumbersFit

LEMMA WithMode ==
  ASSUME NEW d \in DmType, NEW m \in ModeWords \cup {"per_line", "invalid"}
  PROVE  LET r == [d EXCEPT !.mode = m]
         IN /\ r \in DmType /\ r.mode = m /\ r.grps = d.grps /\ r.ops = d.ops
            /\ r.header_required = d.header_required
BY DEF DmType

LEMMA ParseModeOrOpKeeps ==
  ASSUME Inv, ParseModeOrOp
  PROVE  Inv'
<1> DEFINE s == Peek(sc)
<1>1. /\ status = "parsing" /\ pc = "mode or op" /\ ~job.premode
      /\ dm \in DmType /\ dm.grps = << >> /\ dm.ops = << >>
      /\ Idle(sc) /\ sc.text = Joined(job.argv, Space) /\ dm.header_required = FALSE
  <2>1. status = "parsing" /\ pc = "mode or op"
    BY DEF ParseModeOrOp, At
  <2>2. dm.grps = << >> /\ dm.ops = << >> /\ dm \in DmType
        /\ (dm.header_required <=> HasName(dm.grps) \/ HasName(dm.ops))
    BY <2>1 DEF Inv, Modes, Operations, TypeOK
  <2>3. dm.header_required = FALSE
    BY <2>2 DEF HasName, DmType
  <2> QED
    BY <2>1, <2>2, <2>3 DEF Inv, Modes, Scanning, InGroups
<1>2. Idle(s) /\ s.text = sc.text /\ s.have_peek
  BY <1>1, PeekIs
<1>3. ASSUME NEW m \in ModeWords \cup {"per_line", "invalid"},
             NEW where \in {"mode column", "check", "operations", "extra operand"},
             NEW r, Idle(r), r.text = sc.text,
             Go(r, where, [dm EXCEPT !.mode = m]),
             where = "mode column" => m \in {"groupby", "crosstab", "rmdup"},
             m \in {"groupby", "crosstab", "rmdup", "per_line"} =>
               where \in {"mode column", "operations"},
             where = "check" => m = "check",
             where = "operations" =>
               m \in {"groupby", "per_line"} /\ r.have_peek /\ r.tok # "END"
      PROVE  Inv'
  <2> DEFINE d == [dm EXCEPT !.mode = m]
  <2>1. /\ d \in DmType /\ d.mode = m /\ d.grps = << >> /\ d.ops = << >>
        /\ d.header_required = FALSE
    BY <1>1, WithMode
  <2>2. where \in Places \ {"pair", "range"} /\ where \notin {"columns", "create"}
    BY DEF Places
  <2>3. Go(r, where, d) /\ IsScanner(r)
    BY <1>3 DEF Idle
  <2> HIDE DEF d
  <2>4. /\ TypeOK' /\ Columns' /\ Accepted'
        /\ job' = job /\ sc' = r /\ pc' = where /\ dm' = d /\ fop' = fop
        /\ NumbersFit' = NumbersFit /\ NoZeros' = NoZeros
    BY <1>1, <2>1, <2>2, <2>3, GoKeeps
  <2>5. Scanning'
    BY <1>1, <1>3, <2>4 DEF Scanning, InGroups
  <2>6. Modes'
    <3>1. pc' # "mode or op" /\ ~InOperation'
      BY <2>4 DEF InOperation
    <3>2. InGroups' => pc' = "mode column"
      BY <2>4 DEF InGroups
    <3> QED
      BY <1>1, <1>3, <2>1, <2>4, <3>1, <3>2 DEF Modes, InGroups
  <2>e. DOMAIN d.grps = {} /\ DOMAIN d.ops = {}
    BY ONLY <2>1, EmptyDomain
  <2>7. Operations'
    <3>1. OpsOf(dm.ops, dm.mode, dm.mode # "crosstab" \/ NumbersFit)'
      BY <2>4, <2>e DEF OpsOf
    <3>2. ~HasName(d.grps) /\ ~HasName(d.ops)
      BY <2>e DEF HasName
    <3> QED
      BY <2>1, <2>4, <3>1, <3>2 DEF Operations
  <2>8. Groupings'
    <3>1. GroupsAreColumns'
      BY <2>4, <2>e DEF GroupsAreColumns
    <3>2. d.mode = "rmdup" => where = "mode column"
      BY <1>3, <2>1
    <3> QED
      BY <2>4, <3>1, <3>2 DEF Groupings
  <2> QED
    BY <2>4, <2>5, <2>6, <2>7, <2>8 DEF Inv
<1>4. CASE /\ s.id \in ModeWords \ {"line"}
           /\ Go(Get(s), AfterMode(s.id), [dm EXCEPT !.mode = s.id])
  <2>1. Idle(Get(s)) /\ Get(s).text = sc.text
    BY <1>2, GetIs
  <2>2. \/ s.id \in {"groupby", "crosstab", "rmdup"} /\ AfterMode(s.id) = "mode column"
        \/ s.id = "check" /\ AfterMode(s.id) = "check"
        \/ s.id \in {"transpose", "reverse", "noop"}
             /\ AfterMode(s.id) = "extra operand"
    <3> DEFINE m == s.id
    <3>1. m \in {"groupby", "crosstab", "rmdup", "check", "transpose", "reverse", "noop"}
      BY <1>4 DEF ModeWords
    <3> HIDE DEF m
    <3> QED
      BY <3>1 DEF AfterMode, m
  <2> DEFINE r == Get(s)
             m == s.id
  <2> HIDE DEF s, r, m
  <2>3. m \in ModeWords \cup {"per_line", "invalid"}
    BY <1>4 DEF m
  <2> QED
    BY <1>3, <1>4, <2>1, <2>2, <2>3 DEF r, m
<1>5. CASE /\ s.tok \notin {"DEAD", "END"} /\ s.id \in OpWords
           /\ Go(s, "operations", [dm EXCEPT !.mode = ModeOfOp[s.id]])
  <2>1. ModeOfOp[s.id] \in {"groupby", "per_line"}
    BY <1>5 DEF OpWords, ModeOfOp
  <2>2. ModeOfOp[s.id] \in ModeWords \cup {"per_line", "invalid"}
    BY <2>1 DEF ModeWords
  <2> HIDE DEF s
  <2> QED
    BY <1>2, <1>3, <1>5, <2>1, <2>2
<1> QED
  <2>1. \/ Stop("refused") \/ Stop("aborted")
        \/ /\ s.id \in ModeWords \ {"line"}
           /\ Go(Get(s), AfterMode(s.id), [dm EXCEPT !.mode = s.id])
        \/ /\ s.tok \notin {"DEAD", "END"} /\ s.id \in OpWords
           /\ Go(s, "operations", [dm EXCEPT !.mode = ModeOfOp[s.id]])
    BY DEF ParseModeOrOp
  <2> QED
    BY <1>4, <1>5, <2>1, StopKeeps

LEMMA MoreModeColumnsKeeps ==
  ASSUME Inv, MoreModeColumns
  PROVE  Inv'
<1>1. /\ status = "parsing" /\ pc = "mode columns" /\ sc.tok = "COMMA"
      /\ Go(Get(sc), "mode column", dm) /\ Idle(sc) /\ dm \in DmType
  BY DEF MoreModeColumns, At, Inv, Scanning, TypeOK
<1>2. Idle(Get(sc)) /\ Get(sc).text = sc.text /\ Get(sc).keep = sc.keep
      /\ IsScanner(Get(sc))
  BY <1>1, GetIs DEF Idle
<1>3. "mode column" \in Places \ {"pair", "range"}
  BY DEF Places
<1>4. /\ TypeOK' /\ Columns' /\ Accepted'
      /\ job' = job /\ sc' = Get(sc) /\ pc' = "mode column" /\ dm' = dm /\ fop' = fop
      /\ NumbersFit' = NumbersFit /\ NoZeros' = NoZeros
  BY <1>1, <1>2, <1>3, GoKeeps
<1>5. Scanning'
  BY <1>1, <1>2, <1>4 DEF Inv, Scanning, InGroups
<1>6. Modes'
  BY <1>1, <1>4 DEF Inv, Modes, InGroups, InOperation
<1>7. Operations' /\ GroupsAreColumns' = GroupsAreColumns
  BY <1>4, OperationsStay DEF Inv
<1>8. Groupings'
  <2>1. ~NumberLeft
    BY <1>1, PieceFacts DEF NumberLeft
  <2> QED
    BY <1>1, <1>4, <1>7, <2>1 DEF Inv, Groupings
<1> QED
  BY <1>4, <1>5, <1>6, <1>7, <1>8 DEF Inv

LEMMA ModeColumnsEndKeeps ==
  ASSUME Inv, ModeColumnsEnd
  PROVE  Inv'
<1> DEFINE text == Joined(job.argv, Space)
           s == IF job.premode THEN Open(sc, text) ELSE sc
           where == IF dm.mode = "rmdup" THEN "extra operand" ELSE "operations"
<1>1. /\ status = "parsing" /\ pc = "mode columns" /\ Idle(sc) /\ dm \in DmType
      /\ InGroups /\ dm.mode \in {"groupby", "crosstab", "rmdup"}
      /\ job.premode => dm.mode = "groupby" /\ ~sc.keep
      /\ ~job.premode => sc.text = text
      /\ ValidJob(job)
  BY DEF ModeColumnsEnd, At, Inv, Scanning, TypeOK, Modes, InGroups
<1>2. CASE (dm.mode = "crosstab" => Len(dm.grps) = 2) /\ Go(s, where, dm)
  <2>1. text \in Seq(PieceType) /\ Len(text) \in Nat
    BY <1>1, TextsAre, LenProperties
  <2>2. /\ Idle(s) /\ IsScanner(s) /\ s.text = text
        /\ ~job.premode => s = sc
        /\ job.premode => ~s.have_peek /\ s.pos = 1 /\ ~s.keep
    <3>1. CASE job.premode
      <4> HIDE DEF text
      <4> DEFINE r == [sc EXCEPT !.text = text, !.pos = 1, !.have_peek = FALSE]
      <4>1. s = r
        BY <3>1 DEF Open
      <4>2. sc \in ScannerType
        BY <1>1 DEF Idle, IsScanner
      <4>3. r.text = text /\ r.pos = 1 /\ r.have_peek = FALSE /\ r.keep = sc.keep
        BY <4>2 DEF ScannerType
      <4>4. r \in ScannerType
        <5> DEFINE u == [sc EXCEPT !.text = text]
                   v == [u EXCEPT !.pos = 1]
                   w == [v EXCEPT !.have_peek = FALSE]
        <5> HIDE DEF PieceType
        <5>1. u \in ScannerType
          BY <2>1, <4>2 DEF ScannerType
        <5>2. w = r
          BY <4>2 DEF ScannerType
        <5> HIDE DEF u
        <5>3. v \in ScannerType
          BY <5>1 DEF ScannerType
        <5> HIDE DEF v
        <5>4. w \in ScannerType
          BY <5>3 DEF ScannerType
        <5> HIDE DEF w
        <5> QED
          BY <5>2, <5>4
      <4> HIDE DEF s, r
      <4>5. 1 \in 1 .. Len(text) + 1
        BY <2>1
      <4> QED
        BY <1>1, <3>1, <4>1, <4>3, <4>4, <4>5 DEF Idle, IsScanner
    <3>2. CASE ~job.premode
      BY <1>1, <3>2 DEF Idle
    <3> QED
      BY <3>1, <3>2
  <2>3. where \in {"extra operand", "operations"}
    OBVIOUS
  <2>4. where \in Places \ {"pair", "range"} /\ where \notin {"columns", "create"}
    BY DEF Places
  <2>5. (where = "extra operand") <=> (dm.mode = "rmdup")
    OBVIOUS
  <2>6. Go(s, where, dm) /\ (dm.mode = "crosstab" => Len(dm.grps) = 2)
    BY <1>2
  <2> HIDE DEF s, where
  <2>7. /\ TypeOK' /\ Columns' /\ Accepted'
        /\ job' = job /\ sc' = s /\ pc' = where /\ dm' = dm /\ fop' = fop
        /\ NumbersFit' = NumbersFit /\ NoZeros' = NoZeros
    BY <1>1, <2>2, <2>4, <2>6, GoKeeps
  <2>8. ~InGroups' /\ ~InOperation'
    BY <2>3, <2>7 DEF InGroups, InOperation
  <2>9. Scanning'
    BY <2>2, <2>7, <2>8 DEF Scanning
  <2>10. Modes'
    BY <1>1, <2>2, <2>3, <2>5, <2>6, <2>7, <2>8 DEF Modes
  <2>11. Operations' /\ GroupsAreColumns' = GroupsAreColumns
    BY <2>7, OperationsStay DEF Inv
  <2>12. Groupings'
    <3>1. NumberLeft => NumberLeft'
      BY <2>2, <2>3, <2>7 DEF NumberLeft
    <3> QED
      BY <1>1, <2>7, <2>11, <3>1 DEF Inv, Groupings
  <2> QED
    BY <2>7, <2>9, <2>10, <2>11, <2>12 DEF Inv
<1> QED
  <2>1. Stop("refused") \/ ((dm.mode = "crosstab" => Len(dm.grps) = 2) /\ Go(s, where, dm))
    BY DEF ModeColumnsEnd
  <2> HIDE DEF s, where
  <2> QED
    BY <1>2, <2>1, StopKeeps

LEMMA CheckKeeps ==
  ASSUME Inv, CheckOption \/ CheckEnds
  PROVE  Inv'
<1>1. /\ status = "parsing" /\ pc = "check" /\ Idle(sc) /\ dm \in DmType
      /\ dm.mode = "check" /\ ~job.premode /\ sc.text = Joined(job.argv, Space)
  BY DEF CheckOption, CheckEnds, At, Inv, Scanning, TypeOK, Modes, InGroups
<1>2. ASSUME NEW s, Idle(s), s.text = sc.text,
             NEW where \in {"check", "extra operand"},
             NEW d \in DmType, Go(s, where, d),
             d.mode = dm.mode, d.grps = dm.grps, d.ops = dm.ops,
             d.header_required = dm.header_required
      PROVE  Inv'
  <2>1. where \in Places \ {"pair", "range"} /\ where \notin {"columns", "create"}
    BY DEF Places
  <2>2. IsScanner(s)
    BY <1>2 DEF Idle
  <2>3. /\ TypeOK' /\ Columns' /\ Accepted'
        /\ job' = job /\ sc' = s /\ pc' = where /\ dm' = d /\ fop' = fop
        /\ NumbersFit' = NumbersFit /\ NoZeros' = NoZeros
    BY <1>1, <1>2, <2>1, <2>2, GoKeeps
  <2>4. ~InGroups' /\ ~InOperation'
    BY <2>3 DEF InGroups, InOperation
  <2>5. Scanning'
    BY <1>1, <1>2, <2>3, <2>4 DEF Scanning
  <2>6. Modes'
    BY <1>1, <1>2, <2>3, <2>4 DEF Modes
  <2>7. Operations' /\ GroupsAreColumns' = GroupsAreColumns
    BY <1>2, <2>3 DEF Inv, Operations, GroupsAreColumns
  <2>8. Groupings'
    <3>1. ~NumberLeft
      BY <1>1 DEF NumberLeft
    <3> QED
      BY <1>1, <1>2, <2>3, <2>7, <3>1 DEF Inv, Groupings
  <2> QED
    BY <2>3, <2>5, <2>6, <2>7, <2>8 DEF Inv
<1> DEFINE u == Peek(sc)
           g == Get(u)
           s == Get(g)
<1>3. Idle(u) /\ u.text = sc.text
  BY <1>1, PeekIs
<1>4. Idle(g) /\ g.text = sc.text
  BY <1>3, GetIs
<1>5. Idle(s) /\ s.text = sc.text
  BY <1>4, GetIs
<1>6. CASE CheckOption
  <2> DEFINE option == IF g.tok = "INTEGER" THEN s.id ELSE g.id
             value == IF g.tok = "INTEGER" THEN g.int ELSE s.int
  <2>1. \/ Stop("refused")
        \/ option \in {"lines", "fields"} /\ Go(s, "check", [dm EXCEPT ![option] = value])
    BY <1>6 DEF CheckOption
  <2>2. value \in Nat
    BY <1>4, <1>5 DEF Idle, IsScanner, ScannerType
  <2> HIDE DEF option, value, u, g, s
  <2>3. CASE option \in {"lines", "fields"} /\ Go(s, "check", [dm EXCEPT ![option] = value])
    <3> DEFINE d == [dm EXCEPT ![option] = value]
    <3>1. CASE option = "lines"
      <4>1. d \in DmType /\ d.mode = dm.mode /\ d.grps = dm.grps /\ d.ops = dm.ops
            /\ d.header_required = dm.header_required
        BY <1>1, <2>2, <3>1 DEF DmType
      <4> HIDE DEF d
      <4> QED
        BY <1>2, <1>5, <2>3, <4>1 DEF d
    <3>2. CASE option = "fields"
      <4>1. d \in DmType /\ d.mode = dm.mode /\ d.grps = dm.grps /\ d.ops = dm.ops
            /\ d.header_required = dm.header_required
        BY <1>1, <2>2, <3>2 DEF DmType
      <4> HIDE DEF d
      <4> QED
        BY <1>2, <1>5, <2>3, <4>1 DEF d
    <3> QED
      BY <2>3, <3>1, <3>2
  <2> QED
    BY <2>1, <2>3, StopKeeps
<1>7. CASE CheckEnds
  <2>1. Go(u, "extra operand", dm)
    BY <1>7 DEF CheckEnds
  <2> HIDE DEF u
  <2> QED
    BY <1>1, <1>2, <1>3, <2>1
<1> QED
  BY <1>6, <1>7

LEMMA ParseOperationKeeps ==
  ASSUME Inv, ParseOperation
  PROVE  Inv'
<1> DEFINE u == Peek(sc)
           g == Get(u)
           k == KeepWhitespace(g, TRUE)
           s == Peek(k)
<1>1. /\ status = "parsing" /\ pc = "operations" /\ Idle(sc) /\ dm \in DmType
      /\ sc.text = Joined(job.argv, Space)
  BY DEF ParseOperation, At, Inv, Scanning, TypeOK, Modes, InGroups
<1>2. /\ Idle(u) /\ u.text = sc.text /\ u.have_peek
      /\ sc.have_peek => u = sc
  BY <1>1, PeekIs
<1>3. Idle(g) /\ g.text = sc.text /\ ~g.have_peek /\ g.id = u.id
  BY <1>2, GetIs
<1>4. Idle(k) /\ k.text = sc.text
  <2>1. /\ k \in ScannerType /\ k.text = g.text /\ k.pos = g.pos
        /\ k.have_peek = g.have_peek
    BY <1>3 DEF KeepWhitespace, ScannerType, Idle, IsScanner
  <2> HIDE DEF k, g
  <2> QED
    BY <1>3, <2>1 DEF Idle, IsScanner
<1>5. Idle(s) /\ s.text = sc.text
  <2> HIDE DEF k
  <2> QED
    BY <1>4, PeekIs
<1>6. CASE /\ g.id \in OpWords /\ compatible_operation_modes(dm.mode, ModeOfOp[g.id])
           /\ fop' = g.id /\ fields' = << >> /\ par' = [par EXCEPT !.used = 0]
           /\ sc' = s /\ pc' = "parameters"
           /\ UNCHANGED <<job, dm, alloc_fields, p, dangling, undefined, status>>
  <2>1. DOMAIN fields' = {} /\ Len(fields') = 0 /\ fields' \in Seq(FieldType)
    <3>1. fields' = << >>
      BY <1>6
    <3>2. \A S : << >> \in Seq(S)
      OBVIOUS
    <3> QED
      BY ONLY <3>1, <3>2, EmptyDomain
  <2>2. par' \in ParType
    BY <1>6 DEF Inv, TypeOK, ParType
  <2> HIDE DEF u, g, s
  <2>3. ~InGroups' /\ pc' = "parameters" /\ pc' \in Places
    BY <1>6 DEF InGroups, Places
  <2>4. TypeOK'
    <3>1. 0 <= alloc_fields /\ alloc_fields' = alloc_fields
      BY <1>6 DEF Inv, TypeOK
    <3> QED
      BY <1>5, <1>6, <2>1, <2>2, <2>3, <3>1 DEF Inv, TypeOK, Idle
  <2>5. Scanning'
    BY <1>1, <1>5, <1>6, <2>3 DEF Scanning
  <2>6. Columns'
    BY <2>1, <2>3 DEF Columns, FieldsOf
  <2>7. Modes'
    <3>1. dm.mode \in {"crosstab", ModeOfOp[g.id]}
      BY <1>6 DEF compatible_operation_modes
    <3>2. /\ job.premode => dm.mode = "groupby"
          /\ dm.mode = "crosstab" => Len(dm.grps) = 2
      BY <1>1 DEF Inv, Modes, InGroups
    <3> QED
      BY <1>6, <2>3, <3>1, <3>2 DEF Modes
  <2>8. Operations' /\ GroupsAreColumns' = GroupsAreColumns
    BY <1>6, OperationsStay DEF Inv
  <2>9. Groupings'
    <3>1. ~NumberLeft
      BY <1>1, <1>2, <1>3, <1>6 DEF NumberLeft, Idle, Read
    <3>2. NumbersFit' = NumbersFit /\ NoZeros' = NoZeros
      BY <1>6 DEF NumbersFit, NoZeros
    <3> QED
      BY <1>1, <1>6, <2>8, <3>1, <3>2 DEF Inv, Groupings
  <2>10. Accepted'
    BY <1>1, <1>6 DEF Accepted
  <2> QED
    BY <2>4, <2>5, <2>6, <2>7, <2>8, <2>9, <2>10 DEF Inv
<1> QED
  <2>1. \/ Stop("refused")
        \/ /\ g.id \in OpWords /\ compatible_operation_modes(dm.mode, ModeOfOp[g.id])
           /\ fop' = g.id /\ fields' = << >> /\ par' = [par EXCEPT !.used = 0]
           /\ sc' = s /\ pc' = "parameters"
           /\ UNCHANGED <<job, dm, alloc_fields, p, dangling, undefined, status>>
    BY DEF ParseOperation
  <2> HIDE DEF g, s
  <2> QED
    BY <1>6, <2>1, StopKeeps

(* A step from one function of an operation to the next.                   *)
LEMMA InOperationStays ==
  ASSUME Inv, status = "parsing", InOperation,
         Idle(sc'), sc'.text = sc.text, UNCHANGED <<job, dm, fop, status>>,
         pc' \in {"parameters", "column", "pair", "range", "columns", "create"}
  PROVE  /\ Scanning' /\ Modes' /\ Operations' /\ Groupings' /\ Accepted'
         /\ pc' \in Places
<1>1. pc' \in Places /\ ~InGroups /\ ~InGroups' /\ InOperation'
  BY DEF Places, InGroups, InOperation
<1>2. Scanning'
  BY <1>1 DEF Inv, Scanning
<1>3. Modes'
  BY <1>1 DEF Inv, Modes, InOperation
<1>4. Operations' /\ GroupsAreColumns' = GroupsAreColumns
  BY OperationsStay DEF Inv
<1>5. Groupings'
  <2>1. ~NumberLeft /\ pc # "mode column"
    BY DEF NumberLeft, InOperation
  <2>2. NumbersFit' = NumbersFit /\ NoZeros' = NoZeros
    BY DEF NumbersFit, NoZeros
  <2> QED
    BY <1>4, <2>1, <2>2 DEF Inv, Groupings
<1>6. Accepted'
  BY DEF Accepted
<1> QED
  BY <1>1, <1>2, <1>3, <1>4, <1>5, <1>6

LEMMA GoInOperation ==
  ASSUME Inv, status = "parsing", InOperation,
         NEW s, Idle(s), s.text = sc.text,
         NEW where \in {"column", "create"}, Go(s, where, dm),
         where = "create" => fields # << >>
  PROVE  Inv'
<1>1. where \in Places \ {"pair", "range"} /\ dm \in DmType /\ IsScanner(s)
  BY DEF Places, Inv, TypeOK, Idle
<1>2. TypeOK' /\ Columns'
  BY <1>1, GoKeeps
<1>3. sc' = s /\ pc' = where /\ UNCHANGED <<job, dm, fop, status>>
  BY DEF Go, OperationUnchanged
<1>4. Scanning' /\ Modes' /\ Operations' /\ Groupings' /\ Accepted'
  BY <1>3, InOperationStays
<1> QED
  BY <1>2, <1>4 DEF Inv

LEMMA MoreColumnsKeeps ==
  ASSUME Inv, MoreColumns
  PROVE  Inv'
<1>1. status = "parsing" /\ InOperation /\ Idle(sc) /\ Go(Get(sc), "column", dm)
  BY DEF MoreColumns, At, InOperation, Inv, Scanning
<1>2. Idle(Get(sc)) /\ Get(sc).text = sc.text
  BY <1>1, GetIs
<1> QED
  BY <1>1, <1>2, GoInOperation

LEMMA ColumnsEndKeeps ==
  ASSUME Inv, ColumnsEnd
  PROVE  Inv'
<1>1. status = "parsing" /\ pc \in {"pair", "range", "columns"} /\ Go(sc, "create", dm)
  BY DEF ColumnsEnd, At
<1>2. Idle(sc) /\ InOperation
  BY <1>1 DEF InOperation, Inv, Scanning
<1>3. fields # << >>
  <2>1. \A i : i \in DOMAIN fields => fields # << >>
    BY EmptyDomain
  <2> QED
    BY <1>1, <2>1 DEF Inv, Columns
<1> QED
  BY <1>1, <1>2, <1>3, GoInOperation

LEMMA ParamsEndKeeps ==
  ASSUME Inv, ParamsEnd
  PROVE  Inv'
<1> DEFINE g == IF sc.tok = "WHITESPACE" THEN Get(sc) ELSE sc
           s == KeepWhitespace(g, FALSE)
<1>1. status = "parsing" /\ InOperation /\ Idle(sc) /\ Go(s, "column", dm)
  BY DEF ParamsEnd, At, InOperation, Inv, Scanning
<1>2. Idle(g) /\ g.text = sc.text
  BY <1>1, GetIs
<1> HIDE DEF g
<1>3. Idle(s) /\ s.text = sc.text
  <2>1. /\ s \in ScannerType /\ s.text = g.text /\ s.pos = g.pos /\ s.tok = g.tok
        /\ s.id = g.id /\ s.int = g.int /\ s.have_peek = g.have_peek
    BY <1>2 DEF KeepWhitespace, ScannerType, Idle, IsScanner
  <2> HIDE DEF s
  <2> QED
    BY <1>2, <2>1 DEF Idle, IsScanner, Read
<1> HIDE DEF s
<1> QED
  BY <1>1, <1>3, GoInOperation

LEMMA ParseParamKeeps ==
  ASSUME Inv, ParseParam
  PROVE  Inv'
<1> DEFINE g == Get(Get(sc))
<1>1. status = "parsing" /\ pc = "parameters" /\ InOperation /\ Idle(sc) /\ par \in ParType
  BY DEF ParseParam, At, InOperation, Inv, Scanning, TypeOK
<1>2. Idle(g) /\ g.text = sc.text
  <2>1. Idle(Get(sc)) /\ Get(sc).text = sc.text
    BY <1>1, GetIs
  <2> QED
    BY <2>1, GetIs
<1>3. CASE /\ par' = Store(g) /\ sc' = Peek(g)
           /\ UNCHANGED <<job, pc, dm, fop, fields, alloc_fields, p, dangling,
                          undefined, status>>
  <2> HIDE DEF g
  <2>1. Idle(Peek(g)) /\ Peek(g).text = sc.text
    BY <1>2, PeekIs
  <2>2. Store(g) \in ParType
    <3>1. /\ par.used \in Nat /\ par.type \in Tokens /\ par.u \in Nat /\ par.f \in Nat
          /\ par.c \in Strings
          /\ g.tok \in Tokens /\ g.int \in Nat /\ 10 * g.int \in Nat /\ g.tenths \in Nat
          /\ g.id \in Strings
      BY <1>1, <1>2 DEF ParType, Idle, IsScanner, ScannerType
    <3> DEFINE used == par.used + 1
               type == IF par.used = 0 THEN g.tok ELSE par.type
               u == IF par.used = 0 /\ g.tok = "INTEGER" THEN g.int ELSE par.u
               f == IF par.used # 0 \/ g.tok = "IDENTIFIER" THEN par.f
                    ELSE IF g.tok = "INTEGER" THEN 10 * g.int ELSE g.tenths
               c == IF par.used = 0 /\ g.tok = "IDENTIFIER" THEN g.id ELSE par.c
    <3>2. Store(g) = [par EXCEPT !.used = used, !.type = type, !.u = u, !.f = f,
                                 !.c = c]
      BY DEF Store
    <3>3. used \in Nat /\ type \in Tokens /\ u \in Nat /\ f \in Nat /\ c \in Strings
      BY <3>1
    <3> HIDE DEF used, type, u, f, c
    <3> DEFINE v == [par EXCEPT !.used = used]
               w == [v EXCEPT !.type = type]
               x == [w EXCEPT !.u = u]
               y == [x EXCEPT !.f = f]
               z == [y EXCEPT !.c = c]
    <3>4. Store(g) = z
      BY <1>1, <3>2 DEF ParType
    <3>5. v \in ParType
      BY <1>1, <3>3 DEF ParType
    <3> HIDE DEF v
    <3>6. w \in ParType
      BY <3>3, <3>5 DEF ParType
    <3> HIDE DEF w
    <3>7. x \in ParType
      BY <3>3, <3>6 DEF ParType
    <3> HIDE DEF x
    <3>8. y \in ParType
      BY <3>3, <3>7 DEF ParType
    <3> HIDE DEF y
    <3>9. z \in ParType
      BY <3>3, <3>8 DEF ParType
    <3> HIDE DEF z
    <3> QED
      BY <3>4, <3>9
  <2>3. TypeOK'
    BY <1>3, <2>1, <2>2 DEF Inv, TypeOK, Idle
  <2>4. Columns'
    BY <1>1, <1>3 DEF Inv, Columns
  <2>5. Scanning' /\ Modes' /\ Operations' /\ Groupings' /\ Accepted'
    BY <1>1, <1>3, <2>1, InOperationStays
  <2> QED
    BY <2>3, <2>4, <2>5 DEF Inv
<1> QED
  <2>1. \/ Stop("refused")
        \/ /\ par' = Store(g) /\ sc' = Peek(g)
           /\ UNCHANGED <<job, pc, dm, fop, fields, alloc_fields, p, dangling,
                          undefined, status>>
    BY DEF ParseParam
  <2> HIDE DEF g
  <2> QED
    BY <1>3, <2>1, StopKeeps

-----------------------------------------------------------------------------
(* The fields of a column.                                                 *)

LEMMA FieldIs ==
  ASSUME NEW g, Idle(g), IsColumn(g)
  PROVE  LET x == Field(g)
         IN /\ x \in FieldType /\ Consumed(x) = 1
            /\ x.by_name \/ x.num > 0
            /\ ~x.range /\ ~x.pair
<1> DEFINE num == IF IsName(g) THEN 0 ELSE g.int
           name == IF IsName(g) THEN g.id ELSE ""
           x == Field(g)
<1>1. x = [by_name |-> IsName(g), num |-> num, name |-> name, range |-> FALSE,
           pair |-> FALSE]
  BY DEF Field
<1>2. IsName(g) \in BOOLEAN /\ num \in Nat /\ name \in Strings
      /\ (IsName(g) \/ num > 0)
  <2>1. g.int \in Nat /\ g.id \in Strings /\ "" \in Strings
    BY DEF Strings, Idle, IsScanner, ScannerType
  <2>2. IsName(g) \in BOOLEAN
    BY SMT DEF IsName
  <2>3. IsName(g) \/ g.int > 0
    BY DEF IsColumn
  <2> QED
    BY <2>1, <2>2, <2>3
<1> HIDE DEF num, name, x
<1>3. x \in FieldType
  BY <1>1, <1>2 DEF FieldType
<1>4. x.by_name = IsName(g) /\ x.num = num /\ x.range = FALSE /\ x.pair = FALSE
  BY <1>1
<1>5. Consumed(x) = 1
  BY <1>4 DEF Consumed
<1> QED
  BY <1>2, <1>3, <1>4, <1>5 DEF x

LEMMA AppendIs ==
  ASSUME NEW S, NEW s \in Seq(S), NEW x \in S
  PROVE  LET t == Append(s, x)
         IN /\ t \in Seq(S) /\ Len(t) = Len(s) + 1 /\ Len(s) \in Nat
            /\ DOMAIN t = 1 .. Len(s) + 1 /\ DOMAIN s = 1 .. Len(s)
            /\ \A i \in 1 .. Len(s) : t[i] = s[i]
            /\ t[Len(s) + 1] = x
BY AppendProperties, LenProperties

(* A field is added, and what the one at p is marked as needs no more.     *)
LEMMA FieldAdded ==
  ASSUME NEW fs \in Seq(FieldType), FieldsOf(fs), NEW k \in DOMAIN fs,
         NEW q \in FieldType, q.by_name = fs[k].by_name, q.num = fs[k].num,
         k + Consumed(q) <= Len(fs) + 2,
         NEW x \in FieldType, Consumed(x) = 1, x.by_name \/ x.num > 0
  PROVE  LET t == Append([fs EXCEPT ![k] = q], x)
         IN /\ t \in Seq(FieldType) /\ Len(t) = Len(fs) + 1
            /\ FieldsOf(t) /\ k \in DOMAIN t /\ t[k] = q /\ t # << >>
<1> DEFINE u == [fs EXCEPT ![k] = q]
           t == Append(u, x)
           n == Len(fs)
<1>1. n \in Nat /\ DOMAIN fs = 1 .. n /\ k \in 1 .. n
  BY LenProperties
<1>2. u \in Seq(FieldType) /\ Len(u) = n
      /\ \A i \in 1 .. n : u[i] = IF i = k THEN q ELSE fs[i]
  <2>1. u \in Seq(FieldType) /\ Len(u) = n
    BY ExceptSeq
  <2> QED
    BY <1>1, <2>1
<1> HIDE DEF u
<1>3. /\ t \in Seq(FieldType) /\ Len(t) = n + 1 /\ DOMAIN t = 1 .. n + 1
      /\ \A i \in 1 .. n : t[i] = u[i]
      /\ t[n + 1] = x
  BY <1>2, AppendIs
<1> HIDE DEF t, n
<1>4. ASSUME NEW i \in 1 .. n + 1
      PROVE  (t[i].by_name \/ t[i].num > 0) /\ i + Consumed(t[i]) <= n + 2
  <2>1. CASE i = n + 1
    BY <1>1, <1>3, <2>1
  <2>2. CASE i = k
    BY <1>1, <1>2, <1>3, <2>2 DEF FieldsOf, n
  <2>3. CASE i # k /\ i # n + 1
    <3>1. i \in 1 .. n /\ t[i] = fs[i]
      BY <1>1, <1>2, <1>3, <2>3
    <3>2. (fs[i].by_name \/ fs[i].num > 0) /\ i + Consumed(fs[i]) <= n + 1
      BY <1>1, <3>1 DEF FieldsOf, n
    <3>3. Consumed(fs[i]) \in Nat
      BY DEF Consumed
    <3> QED
      BY <1>1, <3>1, <3>2, <3>3
  <2> QED
    BY <2>1, <2>2, <2>3
<1>5. FieldsOf(t)
  <2>1. Len(t) + 1 = n + 2
    BY <1>1, <1>3
  <2> QED
    BY <1>3, <1>4, <2>1 DEF FieldsOf
<1>6. k \in DOMAIN t /\ t[k] = q
  BY <1>1, <1>2, <1>3
<1>7. t # << >>
  BY <1>6, EmptyDomain
<1> QED
  BY <1>3, <1>5, <1>6, <1>7 DEF t, u, n

LEMMA RoomIsMade ==
  ASSUME TypeOK, MakeRoom
  PROVE  alloc_fields' \in Nat /\ Len(fields) + 1 <= alloc_fields'
<1>1. alloc_fields \in Nat /\ Len(fields) \in Nat /\ Len(fields) <= alloc_fields
      /\ FieldsRoom \in Nat \ {0}
  BY OpParserAssumption, LenProperties DEF TypeOK
<1>2. CASE ~Full
  BY <1>1, <1>2 DEF MakeRoom, Full
<1>3. CASE Full /\ alloc_fields = 0
  BY <1>1, <1>3 DEF MakeRoom, Full
<1>4. CASE Full /\ alloc_fields # 0
  <2>1. alloc_fields' = alloc_fields + alloc_fields \div 2 + 1
    BY <1>4 DEF MakeRoom
  <2>2. alloc_fields \div 2 \in Nat
    BY <1>1
  <2> QED
    BY <1>1, <1>4, <2>1, <2>2 DEF Full
<1> QED
  BY <1>2, <1>3, <1>4

(* What a step that adds a field leaves to be shown.                       *)
LEMMA FieldStep ==
  ASSUME Inv, status = "parsing", InOperation, MakeRoom,
         NEW g, Idle(g), g.text = sc.text, sc' = Peek(g),
         pc' \in {"pair", "range", "columns"},
         fields' \in Seq(FieldType), Len(fields') = Len(fields) + 1,
         p' \in Nat, dangling' \in BOOLEAN, undefined' \in BOOLEAN,
         UNCHANGED <<job, dm, fop, par, status>>,
         Columns'
  PROVE  Inv'
<1>1. Idle(Peek(g)) /\ Peek(g).text = sc.text
  BY PeekIs
<1>2. /\ Scanning' /\ Modes' /\ Operations' /\ Groupings' /\ Accepted'
      /\ pc' \in Places
  BY <1>1, InOperationStays
<1>3. TypeOK'
  <2>1. alloc_fields' \in Nat /\ Len(fields') <= alloc_fields'
    BY RoomIsMade DEF Inv
  <2> QED
    BY <1>1, <1>2, <2>1 DEF Inv, TypeOK, Idle
<1> QED
  BY <1>2, <1>3 DEF Inv

LEMMA ParseColumnKeeps ==
  ASSUME Inv, ParseColumn
  PROVE  Inv'
<1> DEFINE g == Get(sc)
<1>1. status = "parsing" /\ InOperation /\ Idle(sc) /\ fields \in Seq(FieldType)
      /\ FieldsOf(fields) /\ undefined \in BOOLEAN
  BY DEF ParseColumn, At, InOperation, Inv, Scanning, TypeOK, Columns
<1>2. Idle(g) /\ g.text = sc.text
  BY <1>1, GetIs
<1>3. CASE /\ IsColumn(g) /\ MakeRoom /\ fields' = Append(fields, Field(g))
           /\ p' = Len(fields) + 1 /\ dangling' = FALSE
           /\ sc' = Peek(g) /\ pc' = "pair"
           /\ UNCHANGED <<job, dm, fop, par, undefined, status>>
  <2> DEFINE x == Field(g)
             t == Append(fields, x)
             n == Len(fields)
  <2> HIDE DEF g
  <2>1. x \in FieldType /\ Consumed(x) = 1 /\ (x.by_name \/ x.num > 0)
    BY <1>2, <1>3, FieldIs
  <2>2. fields' = t /\ p' = n + 1
    BY <1>3
  <2> HIDE DEF x
  <2>3. /\ t \in Seq(FieldType) /\ Len(t) = n + 1 /\ n \in Nat
        /\ DOMAIN t = 1 .. n + 1 /\ DOMAIN fields = 1 .. n
        /\ \A i \in 1 .. n : t[i] = fields[i]
        /\ t[n + 1] = x
    BY <1>1, <2>1, AppendIs
  <2> HIDE DEF t, n
  <2>4. FieldsOf(t)
    <3> SUFFICES ASSUME NEW i \in 1 .. n + 1
                 PROVE  /\ t[i].by_name \/ t[i].num > 0
                        /\ i + Consumed(t[i]) <= n + 2
      BY <2>3 DEF FieldsOf
    <3>1. CASE i = n + 1
      BY <2>1, <2>3, <3>1
    <3>2. CASE i # n + 1
      <4>1. i \in 1 .. n /\ t[i] = fields[i]
        BY <2>3, <3>2
      <4>2. (fields[i].by_name \/ fields[i].num > 0) /\ i + Consumed(fields[i]) <= n + 1
        BY <1>1, <2>3, <4>1 DEF FieldsOf, n
      <4>3. Consumed(fields[i]) \in Nat
        BY DEF Consumed
      <4> QED
        BY <2>3, <4>1, <4>2, <4>3
    <3> QED
      BY <3>1, <3>2
  <2>5. Columns'
    <3>1. n + 1 \in DOMAIN t
      BY <2>3
    <3> QED
      BY <1>3, <2>1, <2>2, <2>3, <2>4, <3>1 DEF Columns
  <2>6. n + 1 \in Nat
    BY <2>3
  <2> QED
    BY <1>1, <1>2, <1>3, <2>2, <2>3, <2>5, <2>6, FieldStep DEF n
<1> QED
  <2>1. \/ Stop("refused")
        \/ /\ IsColumn(g) /\ MakeRoom /\ fields' = Append(fields, Field(g))
           /\ p' = Len(fields) + 1 /\ dangling' = FALSE
           /\ sc' = Peek(g) /\ pc' = "pair"
           /\ UNCHANGED <<job, dm, fop, par, undefined, status>>
    BY DEF ParseColumn
  <2> HIDE DEF g
  <2> QED
    BY <1>3, <2>1, StopKeeps

LEMMA ParsePairKeeps ==
  ASSUME Inv, ParsePair
  PROVE  Inv'
<1> DEFINE g == Get(Get(sc))
<1>1. /\ status = "parsing" /\ InOperation /\ Idle(sc) /\ fields \in Seq(FieldType)
      /\ FieldsOf(fields) /\ p \in DOMAIN fields /\ p = Len(fields) /\ p \in Nat
      /\ Consumed(fields[p]) = 1 /\ undefined \in BOOLEAN /\ dangling \in BOOLEAN
  BY DEF ParsePair, At, InOperation, Inv, Scanning, TypeOK, Columns
<1>2. Idle(g) /\ g.text = sc.text
  <2>1. Idle(Get(sc)) /\ Get(sc).text = sc.text
    BY <1>1, GetIs
  <2> QED
    BY <2>1, GetIs
<1>3. CASE /\ IsColumn(g) /\ MakeRoom /\ MayMove
           /\ fields' = Append([fields EXCEPT ![p].pair = TRUE], Field(g))
           /\ sc' = Peek(g) /\ pc' = "range"
           /\ UNCHANGED <<job, dm, fop, p, par, undefined, status>>
  <2> DEFINE x == Field(g)
             q == [fields[p] EXCEPT !.pair = TRUE]
  <2> HIDE DEF g
  <2>1. x \in FieldType /\ Consumed(x) = 1 /\ (x.by_name \/ x.num > 0)
    BY <1>2, <1>3, FieldIs
  <2>2. fields[p] \in FieldType
    BY <1>1
  <2>3. /\ q \in FieldType /\ q.by_name = fields[p].by_name /\ q.num = fields[p].num
        /\ q.range = fields[p].range /\ q.pair = TRUE
    BY <2>2 DEF FieldType
  <2>4. fields[p].range = FALSE
    BY <1>1, <2>2 DEF Consumed, FieldType
  <2>5. fields' = Append([fields EXCEPT ![p] = q], x)
    BY <1>3
  <2> HIDE DEF x, q
  <2>6. Consumed(q) = 2
    BY <2>3, <2>4 DEF Consumed
  <2>7. p + Consumed(q) <= Len(fields) + 2
    BY <1>1, <2>6
  <2>8. /\ fields' \in Seq(FieldType) /\ Len(fields') = Len(fields) + 1
        /\ FieldsOf(fields') /\ p \in DOMAIN fields' /\ fields'[p] = q
    <3> DEFINE t == Append([fields EXCEPT ![p] = q], x)
    <3>1. /\ t \in Seq(FieldType) /\ Len(t) = Len(fields) + 1
          /\ FieldsOf(t) /\ p \in DOMAIN t /\ t[p] = q
      <4>1. fields \in Seq(FieldType) /\ FieldsOf(fields) /\ p \in DOMAIN fields
        BY <1>1
      <4> QED
        BY ONLY <4>1, <2>1, <2>3, <2>7, FieldAdded
    <3> HIDE DEF t
    <3>2. fields' = t
      BY <2>5 DEF t
    <3> QED
      BY ONLY <3>1, <3>2
  <2>9. Columns'
    <3>1. p' = p /\ p = Len(fields') - 1 /\ ~q.range /\ pc' = "range"
      BY <1>1, <1>3, <2>3, <2>4, <2>8
    <3> QED
      BY <2>8, <3>1 DEF Columns
  <2>10. dangling' \in BOOLEAN
    BY <1>1, <1>3 DEF MayMove
  <2> QED
    BY <1>1, <1>2, <1>3, <2>8, <2>9, <2>10, FieldStep
<1> QED
  <2>1. \/ Stop("refused")
        \/ /\ IsColumn(g) /\ MakeRoom /\ MayMove
           /\ fields' = Append([fields EXCEPT ![p].pair = TRUE], Field(g))
           /\ sc' = Peek(g) /\ pc' = "range"
           /\ UNCHANGED <<job, dm, fop, p, par, undefined, status>>
    BY DEF ParsePair
  <2> HIDE DEF g
  <2> QED
    BY <1>3, <2>1, StopKeeps

LEMMA ParseRangeKeeps ==
  ASSUME Inv, ParseRange
  PROVE  Inv'
<1> DEFINE g == Get(Get(sc))
<1>1. /\ status = "parsing" /\ InOperation /\ Idle(sc) /\ fields \in Seq(FieldType)
      /\ FieldsOf(fields) /\ p \in DOMAIN fields /\ p \in Nat
      /\ undefined \in BOOLEAN /\ dangling \in BOOLEAN
      /\ Len(fields) \in Nat
      /\ \/ p = Len(fields) /\ Consumed(fields[p]) = 1
         \/ p = Len(fields) - 1 /\ ~fields[p].range
  BY LenProperties DEF ParseRange, At, InOperation, Inv, Scanning, TypeOK, Columns
<1>2. Idle(g) /\ g.text = sc.text
  <2>1. Idle(Get(sc)) /\ Get(sc).text = sc.text
    BY <1>1, GetIs
  <2> QED
    BY <2>1, GetIs
<1>3. ASSUME IsColumn(g), MakeRoom, MayMove,
             NEW kept \in BOOLEAN,
             fields' = Append([fields EXCEPT ![p].range = kept], Field(g)),
             sc' = Peek(g), pc' = "columns", undefined' \in BOOLEAN,
             UNCHANGED <<job, dm, fop, p, par, status>>
      PROVE  Inv'
  <2> DEFINE x == Field(g)
             q == [fields[p] EXCEPT !.range = kept]
  <2> HIDE DEF g
  <2>1. x \in FieldType /\ Consumed(x) = 1 /\ (x.by_name \/ x.num > 0)
    BY <1>2, <1>3, FieldIs
  <2>2. fields[p] \in FieldType
    BY <1>1
  <2>3. /\ q \in FieldType /\ q.by_name = fields[p].by_name /\ q.num = fields[p].num
        /\ q.range = kept /\ q.pair = fields[p].pair
    BY <2>2 DEF FieldType
  <2>5. fields' = Append([fields EXCEPT ![p] = q], x)
    BY <1>3
  <2>7. p + Consumed(q) <= Len(fields) + 2
    <3>1. CASE p = Len(fields) /\ Consumed(fields[p]) = 1
      <4>1. fields[p].pair = FALSE
        BY <2>2, <3>1 DEF Consumed, FieldType
      <4>2. Consumed(q) \in {1, 2}
        <5> HIDE DEF q
        <5> QED
          BY <2>3, <4>1 DEF Consumed
      <4> HIDE DEF q
      <4> QED
        BY <1>1, <3>1, <4>2
    <3>2. CASE p = Len(fields) - 1
      <4>1. Consumed(q) \in {1, 2, 3}
        <5> HIDE DEF q
        <5> QED
          BY DEF Consumed
      <4> HIDE DEF q
      <4> QED
        BY <1>1, <3>2, <4>1
    <3> QED
      BY <1>1, <3>1, <3>2
  <2> HIDE DEF x, q
  <2>8. /\ fields' \in Seq(FieldType) /\ Len(fields') = Len(fields) + 1
        /\ FieldsOf(fields') /\ fields' # << >>
    BY <1>1, <2>1, <2>3, <2>5, <2>7, FieldAdded
  <2>9. Columns'
    BY <1>3, <2>8 DEF Columns
  <2>10. dangling' \in BOOLEAN
    BY <1>1, <1>3 DEF MayMove
  <2> QED
    BY <1>1, <1>2, <1>3, <2>8, <2>9, <2>10, FieldStep
<1>4. CASE /\ IsColumn(g) /\ MakeRoom /\ MayMove
           /\ \E kept \in {TRUE, ~dangling} :
                fields' = Append([fields EXCEPT ![p].range = kept], Field(g))
           /\ sc' = Peek(g) /\ pc' = "columns"
           /\ undefined' = (undefined \/ dangling')
           /\ UNCHANGED <<job, dm, fop, p, par, status>>
  <2> HIDE DEF g
  <2>1. PICK kept \in {TRUE, ~dangling} :
               fields' = Append([fields EXCEPT ![p].range = kept], Field(g))
    BY <1>4
  <2>2. kept \in BOOLEAN
    OBVIOUS
  <2>3. undefined' \in BOOLEAN
    BY <1>4
  <2> QED
    BY <1>3, <1>4, <2>1, <2>2, <2>3
<1>5. CASE /\ status' = "refused"
           /\ undefined' = (undefined \/ dangling \/ Full)
           /\ UNCHANGED <<job, sc, pc, dm, fop, fields, alloc_fields, p, dangling, par>>
  <2>1. undefined' \in BOOLEAN
    BY <1>5
  <2> QED
    BY <1>5, <2>1, SameKeeps
<1> QED
  <2>1. \/ Stop("refused")
        \/ /\ IsColumn(g) /\ MakeRoom /\ MayMove
           /\ \E kept \in {TRUE, ~dangling} :
                fields' = Append([fields EXCEPT ![p].range = kept], Field(g))
           /\ sc' = Peek(g) /\ pc' = "columns"
           /\ undefined' = (undefined \/ dangling')
           /\ UNCHANGED <<job, dm, fop, p, par, status>>
        \/ /\ status' = "refused"
           /\ undefined' = (undefined \/ dangling \/ Full)
           /\ UNCHANGED <<job, sc, pc, dm, fop, fields, alloc_fields, p, dangling, par>>
    BY DEF ParseRange
  <2> HIDE DEF g
  <2> QED
    BY <1>4, <1>5, <2>1, StopKeeps

-----------------------------------------------------------------------------
(* The columns to group by.                                                *)

LEMMA ConcatIs ==
  ASSUME NEW S, NEW s \in Seq(S), NEW t \in Seq(S)
  PROVE  LET u == s \o t
         IN /\ u \in Seq(S) /\ Len(u) = Len(s) + Len(t)
            /\ Len(s) \in Nat /\ Len(t) \in Nat
            /\ DOMAIN s = 1 .. Len(s) /\ DOMAIN t = 1 .. Len(t)
            /\ DOMAIN u = 1 .. Len(s) + Len(t)
            /\ \A i \in 1 .. Len(s) : u[i] = s[i]
            /\ \A i \in 1 .. Len(t) : u[Len(s) + i] = t[i]
<1>1. Len(s) \in Nat /\ Len(t) \in Nat /\ DOMAIN s = 1 .. Len(s)
      /\ DOMAIN t = 1 .. Len(t)
  BY LenProperties
<1>2. /\ s \o t \in Seq(S) /\ Len(s \o t) = Len(s) + Len(t)
      /\ \A i \in 1 .. Len(s) + Len(t) :
           (s \o t)[i] = IF i <= Len(s) THEN s[i] ELSE t[i - Len(s)]
  BY ConcatProperties
<1>3. DOMAIN (s \o t) = 1 .. Len(s) + Len(t)
  BY <1>2, LenProperties
<1>4. ASSUME NEW i \in 1 .. Len(s)
      PROVE  (s \o t)[i] = s[i]
  BY <1>1, <1>2
<1>5. ASSUME NEW i \in 1 .. Len(t)
      PROVE  (s \o t)[Len(s) + i] = t[i]
  <2> DEFINE n == Len(s)
             m == Len(t)
  <2>1. n \in Nat /\ m \in Nat /\ i \in 1 .. m
    BY <1>1
  <2>2. (s \o t)[n + i] = IF n + i <= n THEN s[n + i] ELSE t[(n + i) - n]
    <3>1. n + i \in 1 .. n + m
      BY <2>1
    <3> QED
      BY <1>2, <3>1
  <2> HIDE DEF n, m
  <2>3. ~(n + i <= n) /\ (n + i) - n = i
    BY <2>1
  <2> QED
    BY <2>2, <2>3 DEF n
<1> QED
  BY <1>1, <1>2, <1>3, <1>4, <1>5

(* Something holds of all of s \o t if it does of all of s and of t.       *)
LEMMA HasNameConcat ==
  ASSUME NEW S, NEW s \in Seq(S), NEW t \in Seq(S)
  PROVE  HasName(s \o t) <=> HasName(s) \/ HasName(t)
<1> DEFINE u == s \o t
           n == Len(s)
           m == Len(t)
<1>1. /\ n \in Nat /\ m \in Nat /\ DOMAIN s = 1 .. n /\ DOMAIN t = 1 .. m
      /\ DOMAIN u = 1 .. n + m
      /\ \A i \in 1 .. n : u[i] = s[i]
      /\ \A i \in 1 .. m : u[n + i] = t[i]
  BY ConcatIs
<1> HIDE DEF u, n, m
<1>2. ASSUME HasName(u)
      PROVE  HasName(s) \/ HasName(t)
  <2>1. PICK i \in 1 .. n + m : u[i].by_name
    BY <1>1, <1>2 DEF HasName
  <2>2. CASE i <= n
    <3>1. i \in 1 .. n
      BY <1>1, <2>2
    <3> QED
      BY <1>1, <2>1, <3>1 DEF HasName
  <2>3. CASE ~(i <= n)
    <3>1. i - n \in 1 .. m /\ n + (i - n) = i
      BY <1>1, <2>3
    <3>2. u[i] = t[i - n]
      BY <1>1, <3>1
    <3> QED
      BY <1>1, <2>1, <3>1, <3>2 DEF HasName
  <2> QED
    BY <2>2, <2>3
<1>3. ASSUME HasName(s)
      PROVE  HasName(u)
  <2>1. PICK i \in 1 .. n : s[i].by_name
    BY <1>1, <1>3 DEF HasName
  <2>2. i \in 1 .. n + m
    BY <1>1
  <2> QED
    BY <1>1, <2>1, <2>2 DEF HasName
<1>4. ASSUME HasName(t)
      PROVE  HasName(u)
  <2>1. PICK i \in 1 .. m : t[i].by_name
    BY <1>1, <1>4 DEF HasName
  <2>2. n + i \in 1 .. n + m
    BY <1>1
  <2> QED
    BY <1>1, <2>1, <2>2 DEF HasName
<1> QED
  BY <1>2, <1>3, <1>4 DEF u

AllColumns(gs) == \A k \in DOMAIN gs : gs[k].by_name \/ gs[k].num > 0

LEMMA AllColumnsConcat ==
  ASSUME NEW S, NEW s \in Seq(S), NEW t \in Seq(S), AllColumns(s), AllColumns(t)
  PROVE  AllColumns(s \o t)
<1> DEFINE u == s \o t
           n == Len(s)
           m == Len(t)
<1>1. /\ n \in Nat /\ m \in Nat /\ DOMAIN s = 1 .. n /\ DOMAIN t = 1 .. m
      /\ DOMAIN u = 1 .. n + m
      /\ \A i \in 1 .. n : u[i] = s[i]
      /\ \A i \in 1 .. m : u[n + i] = t[i]
  BY ConcatIs
<1> HIDE DEF u, n, m
<1>2. ASSUME NEW i \in 1 .. n + m
      PROVE  u[i].by_name \/ u[i].num > 0
  <2>2. CASE i <= n
    <3>1. i \in 1 .. n
      BY <1>1, <2>2
    <3> QED
      BY <1>1, <3>1 DEF AllColumns
  <2>3. CASE ~(i <= n)
    <3>1. i - n \in 1 .. m /\ n + (i - n) = i
      BY <1>1, <2>3
    <3>2. u[i] = t[i - n]
      BY <1>1, <3>1
    <3> QED
      BY <1>1, <3>1, <3>2 DEF AllColumns
  <2> QED
    BY <2>2, <2>3
<1> QED
  BY <1>1, <1>2 DEF AllColumns, u

LEMMA AddGroupsIs ==
  ASSUME dm \in DmType, NEW gs \in Seq(GroupType)
  PROVE  LET d == AddGroups(gs)
         IN /\ d \in DmType /\ d.mode = dm.mode /\ d.ops = dm.ops
            /\ d.grps = dm.grps \o gs
            /\ d.header_required <=> dm.header_required \/ HasName(gs)
<1> DEFINE g == dm.grps \o gs
           h == dm.header_required \/ HasName(gs)
           u == [dm EXCEPT !.grps = g]
           d == [u EXCEPT !.header_required = h]
<1>1. g \in Seq(GroupType)
  BY ConcatProperties DEF DmType
<1>2. h \in BOOLEAN
  BY DEF DmType
<1>3. AddGroups(gs) = d
  BY DEF AddGroups, HasName, DmType
<1> HIDE DEF g, h, GroupType, OpType
<1>4. u \in DmType /\ u.mode = dm.mode /\ u.ops = dm.ops /\ u.grps = g
  BY <1>1 DEF DmType
<1> HIDE DEF u
<1>5. d \in DmType /\ d.mode = u.mode /\ d.ops = u.ops /\ d.grps = u.grps
      /\ d.header_required = h
  BY <1>2, <1>4 DEF DmType
<1> HIDE DEF d
<1> QED
  BY <1>2, <1>3, <1>4, <1>5 DEF g, h

LEMMA AddGroupsKeeps ==
  ASSUME Inv, status = "parsing", pc = "mode column",
         NEW s, Idle(s), s.text = sc.text, s.keep = sc.keep,
         NEW gs \in Seq(GroupType), Go(s, "mode columns", AddGroups(gs)),
         NumbersFit => gs # << >>,
         NumbersFit /\ NoZeros =>
           \/ AllColumns(gs)
           \/ ~job.premode /\ s.have_peek /\ s.tok \in Numbers
  PROVE  Inv'
<1> DEFINE d == AddGroups(gs)
<1>1. /\ d \in DmType /\ d.mode = dm.mode /\ d.ops = dm.ops
      /\ d.grps = dm.grps \o gs
      /\ d.header_required <=> dm.header_required \/ HasName(gs)
  BY AddGroupsIs DEF Inv, TypeOK
<1>2. Go(s, "mode columns", d) /\ IsScanner(s) /\ "mode columns" \in Places \ {"pair", "range"}
  BY DEF Places, Idle
<1> HIDE DEF d
<1>3. /\ TypeOK' /\ Columns' /\ Accepted'
      /\ job' = job /\ sc' = s /\ pc' = "mode columns" /\ dm' = d /\ fop' = fop
      /\ NumbersFit' = NumbersFit /\ NoZeros' = NoZeros
  BY <1>1, <1>2, GoKeeps
<1>4. InGroups /\ InGroups' /\ ~InOperation'
  BY <1>3 DEF InGroups, InOperation
<1>5. Scanning'
  BY <1>3, <1>4 DEF Inv, Scanning
<1>6. Modes'
  BY <1>1, <1>3, <1>4 DEF Inv, Modes
<1>7. dm.grps \in Seq(GroupType) /\ gs \in Seq(GroupType)
  BY DEF Inv, TypeOK, DmType
<1>g. d.grps = dm.grps \o gs
  BY <1>1
<1>8. Operations'
  <2>1. HasName(d.grps) <=> HasName(dm.grps) \/ HasName(gs)
    <3>1. HasName(dm.grps \o gs) <=> HasName(dm.grps) \/ HasName(gs)
      BY ONLY <1>7, HasNameConcat
    <3> QED
      BY ONLY <1>g, <3>1
  <2>2. OpsOf(dm.ops, dm.mode, dm.mode # "crosstab" \/ NumbersFit)
        /\ (dm.header_required <=> HasName(dm.grps) \/ HasName(dm.ops))
    BY DEF Inv, Operations
  <2>3. OpsOf(dm.ops, dm.mode, dm.mode # "crosstab" \/ NumbersFit)'
    <3>1. dm'.ops = dm.ops /\ dm'.mode = dm.mode /\ NumbersFit' = NumbersFit
      BY <1>1, <1>3
    <3> QED
      BY ONLY <2>2, <3>1, SMTT(30) DEF OpsOf
  <2> QED
    BY <1>1, <1>3, <2>1, <2>2, <2>3 DEF Operations
<1>9. Groupings'
  <2>1. ASSUME NumbersFit
        PROVE  d.grps # << >>
    <3>1. /\ Len(d.grps) = Len(dm.grps) + Len(gs)
          /\ Len(dm.grps) \in Nat /\ Len(gs) \in Nat
      <4>1. Len(dm.grps \o gs) = Len(dm.grps) + Len(gs)
            /\ Len(dm.grps) \in Nat /\ Len(gs) \in Nat
        BY ONLY <1>7, ConcatIs
      <4> QED
        BY ONLY <1>g, <4>1
    <3>2. Len(gs) # 0
      BY <2>1, EmptySeq
    <3>3. Len(d.grps) # 0
      BY ONLY <3>1, <3>2
    <3> QED
      BY <3>3, EmptyDomain
  <2>2. ASSUME NumbersFit, NoZeros
        PROVE  GroupsAreColumns' \/ NumberLeft'
    <3>1. AllColumns(dm.grps)
      BY <2>2 DEF Inv, Groupings, NumberLeft, AllColumns, GroupsAreColumns
    <3>2. CASE AllColumns(gs)
      <4>1. AllColumns(d.grps)
        BY <1>1, <1>7, <3>1, <3>2, AllColumnsConcat
      <4> QED
        BY <1>3, <4>1 DEF AllColumns, GroupsAreColumns
    <3>3. CASE ~job.premode /\ s.have_peek /\ s.tok \in Numbers
      BY <1>3, <3>3 DEF NumberLeft
    <3> QED
      BY <2>2, <3>2, <3>3
  <2> QED
    BY <1>3, <2>1, <2>2 DEF Groupings
<1> QED
  BY <1>3, <1>5, <1>6, <1>8, <1>9 DEF Inv

(* Of the numbers that are scanned each fits into an int, if NumbersFit.   *)
LEMMA TheyFit ==
  ASSUME ValidJob(job), NumbersFit, NEW text \in {job.grouping, Joined(job.argv, Space)},
         NEW n \in NumbersOf(text)
  PROVE  n <= IntMax
<1> DEFINE a == Joined(job.argv, Space)
           b == job.grouping
<1>1. a \in Seq(PieceType) /\ b \in Seq(PieceType)
  BY TextsAre
<1>2. \A k \in DOMAIN (a \o b) : (a \o b)[k].n <= IntMax
  BY DEF NumbersFit
<1>3. PICK k \in DOMAIN text : n = text[k].n
  BY DEF NumbersOf
<1>4. text \in {a, b}
  OBVIOUS
<1> HIDE DEF a, b
<1> DEFINE i == Len(a)
           j == Len(b)
<1>5. /\ i \in Nat /\ j \in Nat /\ DOMAIN a = 1 .. i /\ DOMAIN b = 1 .. j
      /\ DOMAIN (a \o b) = 1 .. i + j
      /\ \A l \in 1 .. i : (a \o b)[l] = a[l]
      /\ \A l \in 1 .. j : (a \o b)[i + l] = b[l]
  BY <1>1, ConcatIs
<1> HIDE DEF i, j
<1>6. CASE text = a
  <2>1. k \in 1 .. i /\ k \in 1 .. i + j
    BY <1>3, <1>5, <1>6
  <2> QED
    BY <1>2, <1>3, <1>5, <1>6, <2>1
<1>7. CASE text = b
  <2>1. k \in 1 .. j /\ i + k \in 1 .. i + j
    BY <1>3, <1>5, <1>7
  <2> QED
    BY <1>2, <1>3, <1>5, <1>7, <2>1
<1> QED
  BY <1>4, <1>6, <1>7

LEMMA ToIntIs ==
  ASSUME NEW n \in Nat
  PROVE  ToInt(n) \in Int /\ (n <= IntMax => ToInt(n) = n)
<1> DEFINE w == 2 * IntMax + 2
           x == n + IntMax + 1
<1>1. IntMax \in Nat /\ w \in Nat /\ x \in Nat /\ w > 0
  BY OpParserAssumption
<1>2. x % w \in Nat
  BY <1>1
<1>3. ToInt(n) = (x % w) - (IntMax + 1)
  BY DEF ToInt
<1>4. n <= IntMax => x < w
  BY <1>1
<1>5. x < w => x % w = x
  <2> HIDE DEF w, x
  <2> QED
    BY <1>1
<1>6. x - (IntMax + 1) = n
  BY <1>1
<1> HIDE DEF w, x
<1> QED
  BY <1>1, <1>2, <1>3, <1>4, <1>5, <1>6

LEMMA NumericGroupIs ==
  ASSUME NEW n \in Nat
  PROVE  /\ NumericGroup(n) \in GroupType
         /\ NumericGroup(n).num = n /\ NumericGroup(n).by_name = FALSE
<1> DEFINE name == ""
           x == [by_name |-> FALSE, num |-> n, name |-> name]
<1>1. NumericGroup(n) = x
  BY DEF NumericGroup
<1>2. name \in Strings
  BY DEF Strings
<1> HIDE DEF name
<1>3. x \in GroupType
  BY <1>2 DEF GroupType
<1>4. x.num = n /\ x.by_name = FALSE
  OBVIOUS
<1> QED
  BY <1>1, <1>3, <1>4

LEMMA GroupRangeIs ==
  ASSUME NEW b \in Nat, NEW e \in Int
  PROVE  /\ GroupRange(b, e) \in Seq(GroupType)
         /\ b <= e => GroupRange(b, e) # << >>
         /\ b > 0 => AllColumns(GroupRange(b, e))
<1> DEFINE n == IF b <= e THEN (e - b) + 1 ELSE 0
           gs == [k \in 1 .. n |-> NumericGroup(b + k - 1)]
<1>1. n \in Nat /\ 1 .. (e - b) + 1 = 1 .. n
  OBVIOUS
<1>2. GroupRange(b, e) = gs
  BY <1>1 DEF GroupRange
<1>3. ASSUME NEW k \in 1 .. n
      PROVE  /\ NumericGroup(b + k - 1) \in GroupType
             /\ b > 0 => NumericGroup(b + k - 1).num > 0
  <2> DEFINE m == b + k - 1
  <2>1. m \in Nat /\ (b > 0 => m > 0)
    BY <1>1
  <2> HIDE DEF m
  <2>2. NumericGroup(m) \in GroupType /\ NumericGroup(m).num = m
    BY <2>1, NumericGroupIs
  <2> QED
    BY <2>1, <2>2 DEF m
<1>4. gs \in [1 .. n -> GroupType] /\ DOMAIN gs = 1 .. n
  BY <1>3
<1>5. b <= e => 1 \in DOMAIN gs
  BY <1>1, <1>4
<1>6. b > 0 => AllColumns(gs)
  BY <1>3 DEF AllColumns
<1> HIDE DEF gs
<1>7. gs \in Seq(GroupType)
  BY ONLY <1>1, <1>4, SeqDef
<1>8. b <= e => gs # << >>
  <2>1. 1 \in DOMAIN gs => gs # << >>
    BY EmptyDomain
  <2> QED
    BY <1>5, <2>1
<1> QED
  BY <1>2, <1>6, <1>7, <1>8

LEMMA ParseModeColumnKeeps ==
  ASSUME Inv, ParseModeColumn
  PROVE  Inv'
<1> DEFINE g == Get(sc)
           s == Peek(g)
           e == Get(Get(s))
           begin == ToInt(g.int)
           end == ToInt(e.int)
           IsNumber(t) == IsColumn(t) /\ ~IsName(t)
<1>1. /\ status = "parsing" /\ pc = "mode column" /\ Idle(sc) /\ ValidJob(job)
      /\ sc.text = IF job.premode THEN job.grouping ELSE Joined(job.argv, Space)
      /\ sc.text \in {job.grouping, Joined(job.argv, Space)}
  BY DEF ParseModeColumn, At, Inv, Scanning, TypeOK, InGroups
<1>2. Idle(g) /\ Read(g) /\ g.text = sc.text /\ g.keep = sc.keep
  BY <1>1, GetIs
<1>3. /\ Idle(s) /\ Read(s) /\ s.text = sc.text /\ s.keep = sc.keep /\ s.have_peek
      /\ s.int = g.int \/ s.tok \in Numbers
  BY <1>2, PeekIs
<1>4. Idle(e) /\ Read(e) /\ e.text = sc.text /\ e.keep = sc.keep
  <2>1. Idle(Get(s)) /\ Get(s).text = sc.text /\ Get(s).keep = sc.keep
    BY <1>3, GetIs
  <2> QED
    BY <2>1, GetIs
<1>5. Idle(Peek(e)) /\ Peek(e).text = sc.text /\ Peek(e).keep = sc.keep
  BY <1>4, PeekIs
<1>6. /\ g.int \in Nat /\ s.int \in Nat /\ e.int \in Nat
      /\ g.id \in Strings /\ s.tok \in Tokens
  BY <1>2, <1>3, <1>4 DEF Idle, IsScanner, ScannerType
<1>7. IsNumber(g) => g.tok = "INTEGER" /\ g.int > 0
  BY DEF IsColumn
<1>8. ASSUME NumbersFit, NEW t \in {g, s, e}, t.tok \in Numbers
      PROVE  t.int <= IntMax
  <2>1. t.int \in NumbersOf(sc.text)
    BY <1>2, <1>3, <1>4, <1>8 DEF Read
  <2> QED
    BY <1>1, <1>8, <2>1, TheyFit
<1>9. CASE Go(s, "mode columns", AddGroups(<<NamedGroup(g.id)>>))
  <2> DEFINE x == NamedGroup(g.id)
             gs == <<x>>
  <2>1. x = [by_name |-> TRUE, num |-> 0, name |-> g.id]
    BY DEF NamedGroup
  <2>2. x \in GroupType /\ x.by_name
    BY <1>6, <2>1 DEF GroupType
  <2> HIDE DEF x
  <2>3. gs \in Seq(GroupType) /\ gs # << >> /\ AllColumns(gs)
    BY <2>2 DEF AllColumns
  <2>4. Go(s, "mode columns", AddGroups(gs))
    BY <1>9 DEF x
  <2> HIDE DEF gs, s
  <2> QED
    BY <1>1, <1>3, <2>3, <2>4, AddGroupsKeeps
<1>10. CASE IsNumber(g) /\ Go(s, "mode columns", AddGroups(<<NumericGroup(s.int)>>))
  <2> DEFINE x == NumericGroup(s.int)
             gs == <<x>>
  <2>2. x \in GroupType /\ x.num = s.int
    BY <1>6, NumericGroupIs
  <2>3. ASSUME NoZeros, job.premode \/ ~(s.tok \in Numbers)
        PROVE  s.int > 0
    <3>1. CASE s.int = g.int
      BY <1>7, <1>10, <3>1
    <3>2. CASE s.int # g.int
      <4>1. s.tok \in Numbers /\ s.int \in NumbersOf(job.grouping)
        BY <1>1, <1>3, <2>3, <3>2 DEF Read
      <4>2. s.int # 0
        BY <2>3, <3>2, <4>1, <1>3 DEF NoZeros, NumbersOf
      <4> QED
        BY <1>6, <4>2
    <3> QED
      BY <3>1, <3>2
  <2> HIDE DEF x
  <2>4. gs \in Seq(GroupType) /\ gs # << >> /\ (s.int > 0 => AllColumns(gs))
    BY <2>2 DEF AllColumns
  <2>5. Go(s, "mode columns", AddGroups(gs))
    BY <1>10 DEF x
  <2>6. NumbersFit /\ NoZeros =>
           AllColumns(gs) \/ (~job.premode /\ s.have_peek /\ s.tok \in Numbers)
    BY <1>3, <2>3, <2>4
  <2> HIDE DEF gs, s
  <2> QED
    BY <1>1, <1>3, <2>4, <2>5, <2>6, AddGroupsKeeps
<1>11. CASE /\ IsNumber(g) /\ e.tok = "INTEGER" /\ begin >= 0 /\ begin <= e.int
            /\ Go(Peek(e), "mode columns", AddGroups(GroupRange(begin, end)))
  <2> DEFINE gs == GroupRange(begin, end)
             r == Peek(e)
  <2>1. /\ begin \in Int /\ end \in Int
        /\ g.int <= IntMax => begin = g.int
        /\ e.int <= IntMax => end = e.int
    BY <1>6, ToIntIs
  <2>2. begin \in Nat
    <3>1. begin >= 0 /\ begin \in Int
      BY <1>11, <2>1
    <3> HIDE DEF begin
    <3> QED
      BY ONLY <3>1
  <2>3. NumbersFit => begin = g.int /\ end = e.int
    BY <1>7, <1>8, <1>11, <2>1 DEF Numbers
  <2>4. NumbersFit => begin > 0 /\ begin <= end
    BY <1>7, <1>11, <2>3
  <2>5. /\ gs \in Seq(GroupType)
        /\ begin <= end => gs # << >>
        /\ begin > 0 => AllColumns(gs)
    <3> HIDE DEF begin, end
    <3> QED
      BY <2>1, <2>2, GroupRangeIs
  <2>6. Go(r, "mode columns", AddGroups(gs)) /\ Idle(r) /\ r.text = sc.text
        /\ r.keep = sc.keep
    BY <1>5, <1>11
  <2> HIDE DEF gs, r, s, begin, end
  <2>7. (NumbersFit => gs # << >>) /\ (NumbersFit /\ NoZeros => AllColumns(gs))
    BY <2>4, <2>5
  <2> QED
    BY <1>1, <2>5, <2>6, <2>7, AddGroupsKeeps
<1> QED
  <2>1. \/ Stop("refused") \/ Stop("aborted")
        \/ Go(s, "mode columns", AddGroups(<<NamedGroup(g.id)>>))
        \/ IsNumber(g) /\ Go(s, "mode columns", AddGroups(<<NumericGroup(s.int)>>))
        \/ /\ IsNumber(g) /\ e.tok = "INTEGER" /\ begin >= 0 /\ begin <= e.int
           /\ Go(Peek(e), "mode columns", AddGroups(GroupRange(begin, end)))
    BY DEF ParseModeColumn
  <2> HIDE DEF g, s, e, begin, end
  <2> QED
    BY <1>9, <1>10, <1>11, <2>1, StopKeeps

-----------------------------------------------------------------------------
(* The operations.                                                         *)

ParamsOfOps == [num : Nat, c : Strings]

LEMMA NoParamIs ==
  ASSUME NEW n \in Nat, NEW c \in Strings
  PROVE  /\ NoParam \in ParamsOfOps
         /\ [NoParam EXCEPT !.num = n] \in ParamsOfOps
         /\ [NoParam EXCEPT !.c = c] \in ParamsOfOps
<1>1. NoParam \in ParamsOfOps
  <2> DEFINE e == ""
  <2>1. NoParam = [num |-> 0, c |-> e]
    BY DEF NoParam
  <2>2. e \in Strings
    BY DEF Strings
  <2> HIDE DEF e
  <2> QED
    BY <2>1, <2>2 DEF ParamsOfOps
<1>2. ASSUME NEW x \in ParamsOfOps
      PROVE  [x EXCEPT !.num = n] \in ParamsOfOps /\ [x EXCEPT !.c = c] \in ParamsOfOps
  BY DEF ParamsOfOps
<1> QED
  BY <1>1, <1>2

LEMMA ParamIs ==
  ASSUME NEW op, par \in ParType
  PROVE  Param(op, par) \in ParamsOfOps
<1> DEFINE Given(x, default) == IF par.used = 1 THEN x ELSE default
<1>1. par.u \in Nat /\ par.f \in Nat /\ par.c \in Strings /\ "p" \in Strings
  BY DEF ParType, Strings
<1>2. \A d \in Nat : Given(par.f, d) \in Nat /\ Given(par.u, d) \in Nat
  BY <1>1
<1>3. Given(par.c, "p") \in Strings
  BY <1>1
<1>4. \/ \E n \in Nat : Param(op, par) = [NoParam EXCEPT !.num = n]
      \/ \E c \in Strings : Param(op, par) = [NoParam EXCEPT !.c = c]
      \/ Param(op, par) = NoParam
  <2>1. CASE op = "bin"
    <3>1. Param(op, par) = [NoParam EXCEPT !.num = Given(par.f, 1000)]
      BY <2>1 DEF Param
    <3> QED
      BY <1>2, <3>1
  <2>2. CASE op = "strbin"
    <3>1. Param(op, par) = [NoParam EXCEPT !.num = Given(par.u, 10)]
      BY <2>2 DEF Param
    <3> QED
      BY <1>2, <3>1
  <2>3. CASE op = "perc"
    <3>1. Param(op, par) = [NoParam EXCEPT !.num = Given(par.f, 950)]
      BY <2>3 DEF Param
    <3> QED
      BY <1>2, <3>1
  <2>4. CASE op = "softmax"
    <3>1. Param(op, par) = [NoParam EXCEPT !.num = Given(par.f, 10)]
      BY <2>4 DEF Param
    <3> QED
      BY <1>2, <3>1
  <2>5. CASE op = "trimmean"
    <3>1. Param(op, par) = [NoParam EXCEPT !.num = Given(par.f, 0)]
      BY <2>5 DEF Param
    <3> QED
      BY <1>2, <3>1
  <2>6. CASE op = "getnum"
    <3>1. Param(op, par) = [NoParam EXCEPT !.c = Given(par.c, "p")]
      BY <2>6 DEF Param
    <3> QED
      BY <1>3, <3>1
  <2>7. CASE op \notin {"bin", "strbin", "perc", "softmax", "trimmean", "getnum"}
    BY <2>7 DEF Param
  <2> QED
    BY <2>1, <2>2, <2>3, <2>4, <2>5, <2>6, <2>7
<1> HIDE DEF Given
<1>5. 0 \in Nat /\ "p" \in Strings
  BY <1>1
<1> QED
  BY <1>4, <1>5, NoParamIs

LEMMA FieldOpIs ==
  ASSUME NEW op \in OpWords, NEW g \in GroupType \cup FieldType,
         NEW num \in Nat, NEW param \in ParamsOfOps
  PROVE  LET x == FieldOp(op, g, num, param)
         IN /\ x \in OpType /\ x.op = op /\ x.by_name = g.by_name /\ x.num = num
            /\ ~x.subordinate /\ x.sub = 0
<1> DEFINE x == FieldOp(op, g, num, param)
           by_name == g.by_name
           name == g.name
<1>1. x = [op |-> op, by_name |-> by_name, num |-> num, name |-> name,
           param |-> param, subordinate |-> FALSE, sub |-> 0]
  BY DEF FieldOp
<1>2. by_name \in BOOLEAN /\ name \in Strings
  BY DEF GroupType, FieldType
<1> HIDE DEF by_name, name, x
<1>3. x \in OpType
  <2> HIDE DEF OpWords
  <2> QED
    BY <1>1, <1>2 DEF OpType, ParamsOfOps
<1>4. x.op = op /\ x.by_name = by_name /\ x.num = num
      /\ ~x.subordinate /\ x.sub = 0
  BY <1>1
<1> QED
  BY <1>3, <1>4 DEF x, by_name

LEMMA OperationsEndKeeps ==
  ASSUME Inv, OperationsEnd
  PROVE  Inv'
<1> DEFINE s == Peek(sc)
           one == FieldOp("count", dm.grps[1], dm.grps[1].num, NoParam)
           d == IF dm.ops = << >> /\ dm.mode = "crosstab"
                THEN [dm EXCEPT !.ops = <<one>>] ELSE dm
<1>1. /\ status = "parsing" /\ pc = "operations" /\ Idle(sc) /\ dm \in DmType
      /\ s.tok = "END" /\ ValidJob(job) /\ sc.text = Joined(job.argv, Space)
      /\ dm.mode \in {"groupby", "crosstab", "per_line"}
      /\ job.premode => dm.mode = "groupby"
      /\ dm.mode = "crosstab" => Len(dm.grps) = 2
      /\ dm.ops = << >> =>
           /\ job.premode => ~sc.have_peek /\ sc.pos = 1 /\ ~sc.keep
           /\ dm.mode = "per_line" => sc.have_peek /\ sc.tok # "END"
  BY DEF OperationsEnd, At, Inv, Scanning, TypeOK, InGroups, Modes
<1>2. /\ Idle(s) /\ s.text = sc.text
      /\ sc.have_peek => s = sc
      /\ sc.have_peek \/ sc.keep \/ sc.pos > Len(sc.text)
  BY <1>1, PeekIs
<1>3. CASE /\ ~(dm.ops = << >> /\ dm.mode = "groupby" /\ ~job.premode)
           /\ ~(Len(dm.ops) > 1 /\ dm.mode = "crosstab")
           /\ Go(s, "extra operand", d)
  <2>1. ~NumberLeft
    BY <1>1, <1>2, PieceFacts DEF NumberLeft
  <2>2. NumbersFit /\ NoZeros => GroupsAreColumns
    BY <2>1 DEF Inv, Groupings
  <2>3. OpsOf(dm.ops, dm.mode, dm.mode # "crosstab" \/ NumbersFit)
        /\ (dm.header_required <=> HasName(dm.grps) \/ HasName(dm.ops))
    BY DEF Inv, Operations
  <2>4. /\ d \in DmType /\ d.mode = dm.mode /\ d.grps = dm.grps
        /\ OpsOf(d.ops, d.mode, d.mode # "crosstab" \/ NumbersFit)
        /\ (d.header_required <=> HasName(d.grps) \/ HasName(d.ops))
        /\ dm.mode = "crosstab" => Len(d.ops) = 1
        /\ dm.mode # "crosstab" => d = dm
    <3>1. CASE dm.ops = << >> /\ dm.mode = "crosstab"
      <4> DEFINE g == dm.grps[1]
                 os == <<one>>
      <4>1. 1 \in DOMAIN dm.grps /\ g \in GroupType
        BY <1>1, <3>1 DEF DmType
      <4>2. g.by_name \in BOOLEAN /\ g.num \in Nat /\ g.name \in Strings
        <5> HIDE DEF g
        <5> QED
          BY <4>1 DEF GroupType
      <4>3. /\ one \in OpType /\ one.op = "count" /\ one.by_name = g.by_name
            /\ one.num = g.num /\ ~one.subordinate /\ one.sub = 0
        <5>1. "count" \in OpWords /\ NoParam \in ParamsOfOps
          <6>1. 0 \in Nat /\ "" \in Strings
            BY DEF Strings
          <6>2. NoParam \in ParamsOfOps
            BY <6>1, NoParamIs
          <6> QED
            BY <6>2 DEF OpWords, ModeOfOp
        <5> DEFINE x == FieldOp("count", g, g.num, NoParam)
        <5> HIDE DEF g
        <5>2. /\ x \in OpType /\ x.op = "count" /\ x.by_name = g.by_name
              /\ x.num = g.num /\ ~x.subordinate /\ x.sub = 0
          BY ONLY <4>1, <4>2, <5>1, FieldOpIs
        <5> HIDE DEF x
        <5>3. one = x
          BY DEF g, x
        <5> QED
          BY ONLY <5>2, <5>3
      <4>4. d = [dm EXCEPT !.ops = os]
        BY <3>1
      <4> HIDE DEF one, d
      <4>5. os \in Seq(OpType) /\ Len(os) = 1 /\ DOMAIN os = {1} /\ os[1] = one
        BY <4>3
      <4> HIDE DEF os
      <4>6. /\ d \in DmType /\ d.mode = dm.mode /\ d.grps = dm.grps /\ d.ops = os
            /\ d.header_required = dm.header_required
        <5> HIDE DEF OpType, GroupType
        <5> QED
          BY <1>1, <4>4, <4>5 DEF DmType
      <4>7. NumbersFit => one.by_name \/ one.num > 0
        <5>1. ~job.premode
          BY <1>1, <3>1
        <5>2. NoZeros
          BY <5>1 DEF NoZeros
        <5> QED
          BY <2>2, <4>1, <4>3, <5>2 DEF GroupsAreColumns
      <4>8. OpsOf(d.ops, d.mode, d.mode # "crosstab" \/ NumbersFit)
        BY <3>1, <4>3, <4>5, <4>6, <4>7 DEF OpsOf
      <4>9. d.header_required <=> HasName(d.grps) \/ HasName(d.ops)
        <5>1. ~HasName(dm.ops)
          BY <3>1, EmptyDomain DEF HasName
        <5>2. HasName(os) => HasName(dm.grps)
          BY <4>1, <4>3, <4>5 DEF HasName
        <5> QED
          BY <2>3, <4>6, <5>1, <5>2
      <4> QED
        BY <3>1, <4>5, <4>6, <4>8, <4>9
    <3>2. CASE ~(dm.ops = << >> /\ dm.mode = "crosstab")
      <4>1. d = dm
        BY <3>2
      <4>2. dm.mode = "crosstab" => Len(dm.ops) = 1
        <5>1. Len(dm.ops) \in Nat /\ (dm.ops # << >> => Len(dm.ops) # 0)
          BY <1>1, LenProperties, EmptySeq DEF DmType
        <5>2. \A n \in Nat : n # 0 /\ ~(n > 1) => n = 1
          OBVIOUS
        <5>3. dm.mode = "crosstab" => dm.ops # << >> /\ ~(Len(dm.ops) > 1)
          BY <1>3, <3>2
        <5> QED
          BY ONLY <5>1, <5>2, <5>3
      <4> QED
        BY <1>1, <2>3, <4>1, <4>2
    <3> QED
      BY <3>1, <3>2
  <2>5. "extra operand" \in Places \ {"pair", "range"}
    BY DEF Places
  <2>6. Go(s, "extra operand", d) /\ IsScanner(s)
    BY <1>2, <1>3 DEF Idle
  <2> HIDE DEF s, d
  <2>7. /\ TypeOK' /\ Columns' /\ Accepted'
        /\ job' = job /\ sc' = s /\ pc' = "extra operand" /\ dm' = d /\ fop' = fop
        /\ NumbersFit' = NumbersFit /\ NoZeros' = NoZeros
    BY <1>1, <2>4, <2>5, <2>6, GoKeeps
  <2>8. ~InGroups' /\ ~InOperation'
    BY <2>7 DEF InGroups, InOperation
  <2>9. Scanning'
    BY <1>1, <1>2, <2>7, <2>8 DEF Scanning
  <2>10. Modes'
    <3>1. ASSUME dm.mode \in {"groupby", "per_line"}, dm.ops = << >>
          PROVE  job.premode /\ job.argv = << << >> >>
      <4>1. dm.mode = "groupby"
        BY <1>1, <1>2, <3>1 DEF s
      <4>2. job.premode
        BY <1>3, <3>1, <4>1
      <4>3. 1 > Len(sc.text) /\ sc.text \in Seq(PieceType)
        BY <1>1, <1>2, <3>1, <4>2, TextsAre
      <4>4. Len(sc.text) = 0
        BY <4>3, LenProperties
      <4>5. sc.text = << >>
        BY <4>3, <4>4, EmptySeq
      <4> QED
        BY <1>1, <4>2, <4>5, TextsAre
    <3>2. /\ d.mode = dm.mode /\ d.grps = dm.grps
          /\ dm.mode = "crosstab" => Len(d.ops) = 1
          /\ dm.mode # "crosstab" => d = dm
      BY <2>4
    <3> QED
      BY <1>1, <2>7, <2>8, <3>1, <3>2 DEF Modes
  <2>11. Operations'
    BY <2>4, <2>7 DEF Operations
  <2>12. Groupings'
    BY <1>1, <2>2, <2>4, <2>7 DEF Groupings, GroupsAreColumns
  <2> QED
    BY <2>7, <2>9, <2>10, <2>11, <2>12 DEF Inv
<1> QED
  <2>1. \/ Stop("refused")
        \/ /\ ~(dm.ops = << >> /\ dm.mode = "groupby" /\ ~job.premode)
           /\ ~(Len(dm.ops) > 1 /\ dm.mode = "crosstab")
           /\ Go(s, "extra operand", d)
    BY DEF OperationsEnd
  <2> HIDE DEF s, d
  <2> QED
    BY <1>3, <2>1, StopKeeps

-----------------------------------------------------------------------------
(* create_field_ops.                                                       *)

(* The operations that one pass of its loop adds behind base others.       *)
NewOps(new, base) ==
  \A k \in DOMAIN new :
    /\ new[k].op = fop
    /\ new[k].by_name \/ new[k].num > 0
    /\ new[k].subordinate => k < Len(new) /\ new[k + 1].sub = base + k
    /\ new[k].sub # 0 => k > 1 /\ new[k].sub = (base + k) - 1 /\ new[k - 1].subordinate

LEMMA OpsOfConcat ==
  ASSUME NEW ops \in Seq(OpType), NEW new \in Seq(OpType), NEW mode, NEW nonzero,
         OpsOf(ops, mode, nonzero), NewOps(new, Len(ops)),
         mode \in {"crosstab", ModeOfOp[fop]}
  PROVE  OpsOf(ops \o new, mode, nonzero)
<1> DEFINE u == ops \o new
           n == Len(ops)
           m == Len(new)
<1>1. /\ n \in Nat /\ m \in Nat /\ DOMAIN ops = 1 .. n /\ DOMAIN new = 1 .. m
      /\ DOMAIN u = 1 .. n + m /\ Len(u) = n + m
      /\ \A i \in 1 .. n : u[i] = ops[i]
      /\ \A i \in 1 .. m : u[n + i] = new[i]
  BY ConcatIs
<1> DEFINE Right(k) == /\ mode \in {"crosstab", ModeOfOp[u[k].op]}
                       /\ nonzero => u[k].by_name \/ u[k].num > 0
                       /\ u[k].subordinate => k < n + m /\ u[k + 1].sub = k
                       /\ u[k].sub # 0 => u[k].sub = k - 1 /\ u[k - 1].subordinate
<1> HIDE DEF u
<1>2. ASSUME NEW k \in 1 .. n
      PROVE  Right(k)
  <2>1. /\ mode \in {"crosstab", ModeOfOp[ops[k].op]}
        /\ nonzero => ops[k].by_name \/ ops[k].num > 0
        /\ ops[k].subordinate => k < n /\ ops[k + 1].sub = k
        /\ ops[k].sub # 0 => ops[k].sub = k - 1 /\ ops[k - 1].subordinate
    BY <1>1 DEF OpsOf
  <2> HIDE DEF n, m
  <2>2. u[k] = ops[k]
    BY <1>1
  <2>3. u[k].subordinate => k < n + m /\ u[k + 1].sub = k
    <3>1. k < n => k < n + m /\ k + 1 \in 1 .. n
      BY <1>1
    <3>2. k < n => u[k + 1] = ops[k + 1]
      BY <1>1, <3>1
    <3> QED
      BY <2>1, <2>2, <3>1, <3>2
  <2>4. u[k].sub # 0 => u[k].sub = k - 1 /\ u[k - 1].subordinate
    <3> SUFFICES ASSUME ops[k].sub # 0
                 PROVE  ops[k].sub = k - 1 /\ u[k - 1].subordinate
      BY <2>2
    <3>1. ops[k].sub = k - 1 /\ ops[k - 1].subordinate
      BY <2>1
    <3>2. k - 1 # 0
      BY <3>1
    <3>3. k - 1 \in 1 .. n
      BY ONLY <1>1, <3>2, k \in 1 .. n
    <3>4. u[k - 1] = ops[k - 1]
      BY <1>1, <3>3
    <3> QED
      BY <3>1, <3>4
  <2> QED
    BY <2>1, <2>2, <2>3, <2>4
<1>3. ASSUME NEW i \in 1 .. m
      PROVE  Right(n + i)
  <2>1. /\ new[i].op = fop
        /\ new[i].by_name \/ new[i].num > 0
        /\ new[i].subordinate => i < m /\ new[i + 1].sub = n + i
        /\ new[i].sub # 0 => i > 1 /\ new[i].sub = (n + i) - 1 /\ new[i - 1].subordinate
    BY <1>1 DEF NewOps
  <2> HIDE DEF n, m
  <2>2. u[n + i] = new[i]
    BY <1>1
  <2>3. i < m => n + i < n + m /\ u[(n + i) + 1] = new[i + 1]
    <3>1. i < m => i + 1 \in 1 .. m /\ n + (i + 1) = (n + i) + 1 /\ n + i < n + m
      BY <1>1
    <3> QED
      BY <1>1, <3>1
  <2>4. i > 1 => u[(n + i) - 1] = new[i - 1]
    <3>1. i > 1 => i - 1 \in 1 .. m /\ n + (i - 1) = (n + i) - 1
      BY <1>1
    <3> QED
      BY <1>1, <3>1
  <2> QED
    BY <2>1, <2>2, <2>3, <2>4
<1>4. ASSUME NEW k \in 1 .. n + m
      PROVE  Right(k)
  <2> HIDE DEF n, m, Right
  <2>1. CASE k <= n
    <3>1. k \in 1 .. n
      BY <1>1, <2>1
    <3> QED
      BY <1>2, <3>1
  <2>2. CASE ~(k <= n)
    <3>1. k - n \in 1 .. m /\ n + (k - n) = k
      BY <1>1, <2>2
    <3>2. Right(n + (k - n))
      BY <1>3, <3>1
    <3> QED
      BY <3>1, <3>2
  <2> QED
    BY <2>1, <2>2
<1> HIDE DEF n, m
<1> QED
  <2>1. OpsOf(u, mode, nonzero)
    BY ONLY <1>1, <1>4, SMTT(30) DEF OpsOf
  <2> QED
    BY <2>1 DEF u

(* The operations of a column or a range.                                  *)
LEMMA RowIs ==
  ASSUME NEW f \in FieldType, f.by_name \/ f.num > 0, NEW to \in Nat, fop \in OpWords,
         NEW param \in ParamsOfOps
  PROVE  LET row == <<FieldOp(fop, f, f.num, param)>>
                    \o [k \in 1 .. to - f.num |-> FieldOp(fop, f, f.num + k, param)]
         IN /\ row \in Seq(OpType) /\ Len(row) \in Nat \ {0}
            /\ DOMAIN row = 1 .. Len(row)
            /\ \A k \in 1 .. Len(row) : /\ row[k].op = fop
                                        /\ row[k].by_name \/ row[k].num > 0
                                        /\ ~row[k].subordinate /\ row[k].sub = 0
<1> DEFINE num == f.num
           Op(x) == FieldOp(fop, f, x, param)
           one == <<Op(num)>>
           n == IF to - num > 0 THEN to - num ELSE 0
           more == [k \in 1 .. n |-> Op(num + k)]
           row == one \o more
           Good(x) == /\ x.op = fop /\ (x.by_name \/ x.num > 0)
                      /\ ~x.subordinate /\ x.sub = 0
<1>1. num \in Nat /\ n \in Nat /\ 1 .. to - num = 1 .. n
  BY DEF FieldType
<1>2. [k \in 1 .. to - num |-> Op(num + k)] = more
  BY <1>1
<1>3. ASSUME NEW x \in Nat, x >= num
      PROVE  Op(x) \in OpType /\ Good(Op(x))
  <2>1. /\ Op(x) \in OpType /\ Op(x).op = fop /\ Op(x).by_name = f.by_name
        /\ Op(x).num = x /\ ~Op(x).subordinate /\ Op(x).sub = 0
    BY FieldOpIs
  <2>2. f.by_name \/ x > 0
    BY <1>1, <1>3
  <2> HIDE DEF Op
  <2> QED
    BY <2>1, <2>2
<1> HIDE DEF Op, num, Good
<1>4. one \in Seq(OpType) /\ Len(one) = 1 /\ Good(one[1])
  <2>1. num >= num
    BY <1>1
  <2> QED
    BY <1>1, <1>3, <2>1
<1>5. ASSUME NEW k \in 1 .. n
      PROVE  Op(num + k) \in OpType /\ Good(Op(num + k))
  <2>1. num + k \in Nat /\ num + k >= num
    BY <1>1
  <2> QED
    BY <1>3, <2>1
<1> HIDE DEF n, one
<1>6. /\ more \in [1 .. n -> OpType] /\ DOMAIN more = 1 .. n
      /\ \A k \in 1 .. n : Good(more[k])
  BY <1>5
<1> HIDE DEF more
<1>7. more \in Seq(OpType)
  BY ONLY <1>1, <1>6, SeqDef
<1>8. Len(more) = n
  BY ONLY <1>1, <1>6, <1>7, LenProperties
<1>9. /\ row \in Seq(OpType) /\ Len(row) = 1 + n /\ DOMAIN row = 1 .. 1 + n
      /\ \A i \in 1 .. 1 : row[i] = one[i]
      /\ \A i \in 1 .. n : row[1 + i] = more[i]
  <2>1. /\ row \in Seq(OpType) /\ Len(row) = Len(one) + Len(more)
        /\ DOMAIN row = 1 .. Len(one) + Len(more)
        /\ \A i \in 1 .. Len(one) : row[i] = one[i]
        /\ \A i \in 1 .. Len(more) : row[Len(one) + i] = more[i]
    <3>1. one \in Seq(OpType) /\ more \in Seq(OpType)
      BY <1>4, <1>7
    <3> QED
      BY ONLY <3>1, ConcatIs
  <2> HIDE DEF row
  <2> QED
    BY ONLY <1>4, <1>8, <2>1
<1> HIDE DEF row
<1>10. ASSUME NEW k \in 1 .. 1 + n
       PROVE  Good(row[k])
  <2>1. CASE k = 1
    BY <1>4, <1>9, <2>1
  <2>2. CASE k # 1
    <3>1. k - 1 \in 1 .. n /\ 1 + (k - 1) = k
      BY <1>1, <2>2
    <3>2. row[k] = more[k - 1]
      BY <1>9, <3>1
    <3> QED
      BY <1>6, <3>1, <3>2
  <2> QED
    BY <2>1, <2>2
<1>11. Len(row) \in Nat \ {0} /\ DOMAIN row = 1 .. Len(row) /\ row \in Seq(OpType)
       /\ \A k \in 1 .. Len(row) : Good(row[k])
  BY <1>1, <1>9, <1>10
<1> QED
  BY <1>2, <1>11 DEF row, one, Op, num, Good

(* ... followed by the second column of a pair.                            *)
LEMMA PairIs ==
  ASSUME NEW row \in Seq(OpType), Len(row) # 0, NEW w \in OpType, NEW base \in Nat,
         \A k \in 1 .. Len(row) : /\ row[k].op = fop
                                  /\ row[k].by_name \/ row[k].num > 0
                                  /\ ~row[k].subordinate /\ row[k].sub = 0,
         w.op = fop, w.by_name \/ w.num > 0, ~w.subordinate, w.sub = base + Len(row)
  PROVE  LET new == [row EXCEPT ![Len(row)].subordinate = TRUE] \o <<w>>
         IN new \in Seq(OpType) /\ NewOps(new, base) /\ new # << >>
<1> DEFINE m == Len(row)
           x == [row[m] EXCEPT !.subordinate = TRUE]
           v == [row EXCEPT ![m] = x]
           new == v \o <<w>>
<1>1. m \in Nat \ {0} /\ m \in 1 .. m
  BY LenProperties
<1>2. row[m] \in OpType
  BY <1>1
<1>3. /\ x \in OpType /\ x.op = fop /\ (x.by_name \/ x.num > 0)
      /\ x.subordinate /\ x.sub = 0
  BY <1>1, <1>2 DEF OpType
<1> HIDE DEF x
<1>4. /\ v \in Seq(OpType) /\ Len(v) = m
      /\ \A i \in 1 .. m : v[i] = IF i = m THEN x ELSE row[i]
  BY <1>1, <1>3, ExceptSeq
<1>5. <<w>> \in Seq(OpType) /\ Len(<<w>>) = 1 /\ <<w>>[1] = w
  OBVIOUS
<1> HIDE DEF v
<1>6. /\ new \in Seq(OpType) /\ Len(new) = m + 1 /\ DOMAIN new = 1 .. m + 1
      /\ \A i \in 1 .. m : new[i] = IF i = m THEN x ELSE row[i]
      /\ new[m + 1] = w
  <2> DEFINE ws == <<w>>
  <2>1. v \in Seq(OpType) /\ ws \in Seq(OpType) /\ Len(ws) = 1 /\ ws[1] = w
    BY <1>4, <1>5
  <2>2. new = v \o ws
    OBVIOUS
  <2> HIDE DEF ws, new
  <2>3. /\ v \o ws \in Seq(OpType) /\ Len(v \o ws) = Len(v) + Len(ws)
        /\ DOMAIN (v \o ws) = 1 .. Len(v) + Len(ws)
        /\ \A i \in 1 .. Len(v) : (v \o ws)[i] = v[i]
        /\ \A i \in 1 .. Len(ws) : (v \o ws)[Len(v) + i] = ws[i]
    <3>1. v \in Seq(OpType) /\ ws \in Seq(OpType)
      BY <2>1
    <3> QED
      BY ONLY <3>1, ConcatIs
  <2>4. /\ new \in Seq(OpType) /\ Len(new) = m + 1 /\ DOMAIN new = 1 .. m + 1
        /\ \A i \in 1 .. m : new[i] = v[i]
        /\ \A i \in 1 .. 1 : new[m + i] = ws[i]
    BY <1>4, <2>1, <2>2, <2>3
  <2> HIDE DEF m
  <2> QED
    BY <1>1, <1>4, <2>1, <2>4
<1> HIDE DEF new
<1>7. ASSUME NEW k \in 1 .. m + 1
      PROVE  /\ new[k].op = fop
             /\ new[k].by_name \/ new[k].num > 0
             /\ new[k].subordinate => k < m + 1 /\ new[k + 1].sub = base + k
             /\ new[k].sub # 0 =>
                  k > 1 /\ new[k].sub = (base + k) - 1 /\ new[k - 1].subordinate
  <2>1. CASE k = m + 1
    <3>1. k - 1 = m /\ k > 1 /\ (base + k) - 1 = base + m
      BY <1>1, <2>1
    <3>2. new[k - 1].subordinate /\ new[k] = w
      BY <1>1, <1>3, <1>6, <2>1, <3>1
    <3> QED
      BY <3>1, <3>2
  <2>2. CASE k = m
    <3>1. new[k] = x /\ new[k + 1] = w /\ k < m + 1
      BY <1>1, <1>6, <2>2
    <3> QED
      BY <1>3, <2>2, <3>1
  <2>3. CASE k # m /\ k # m + 1
    <3>1. k \in 1 .. m
      BY <1>1, <2>3
    <3>2. new[k] = row[k]
      BY <1>6, <2>3, <3>1
    <3> QED
      BY <3>1, <3>2
  <2> QED
    BY <2>1, <2>2, <2>3
<1>8. NewOps(new, base)
  BY <1>6, <1>7 DEF NewOps
<1>9. new # << >>
  BY <1>1, <1>6
<1> QED
  BY <1>6, <1>8, <1>9 DEF new, v, x

LEMMA CreatedIs ==
  ASSUME fields \in Seq(FieldType), fields # << >>, FieldsOf(fields),
         fop \in OpWords, par \in ParType, dm \in DmType
  PROVE  LET new == Created(Head(fields))
         IN new \in Seq(OpType) /\ NewOps(new, Len(dm.ops)) /\ new # << >>
<1> DEFINE f == Head(fields)
           param == Param(fop, par)
           to == IF f.range THEN fields[2].num ELSE f.num
           row == <<FieldOp(fop, f, f.num, param)>>
                  \o [k \in 1 .. to - f.num |-> FieldOp(fop, f, f.num + k, param)]
           c == Consumed(f)
           other == fields[c]
           base == Len(dm.ops)
           y == FieldOp(fop, other, other.num, param)
           w == [y EXCEPT !.sub = base + Len(row)]
<1>1. /\ Len(fields) \in Nat \ {0} /\ DOMAIN fields = 1 .. Len(fields)
      /\ f = fields[1] /\ f \in FieldType /\ base \in Nat
      /\ \A k \in 1 .. Len(fields) : fields[k] \in FieldType
  BY LenProperties, EmptySeq DEF DmType
<1>2. /\ f.by_name \/ f.num > 0
      /\ c <= Len(fields) /\ c \in 1 .. 3 /\ (f.range => c # 1)
  <2>1. 1 \in DOMAIN fields
    BY <1>1
  <2>2. (f.by_name \/ f.num > 0) /\ 1 + c <= Len(fields) + 1
    BY <1>1, <2>1 DEF FieldsOf
  <2>3. c \in 1 .. 3 /\ (f.range => c # 1)
    BY DEF Consumed
  <2> QED
    BY <1>1, <2>2, <2>3
<1>3. to \in Nat
  <2>1. f.num \in Nat
    BY <1>1 DEF FieldType
  <2>2. CASE f.range
    <3>1. 2 \in 1 .. Len(fields)
      BY <1>1, <1>2, <2>2
    <3>2. fields[2].num \in Nat
      BY <1>1, <3>1 DEF FieldType
    <3> QED
      BY <2>2, <3>2
  <2> QED
    BY <2>1, <2>2
<1>4. param \in ParamsOfOps
  BY ParamIs
<1>5. /\ row \in Seq(OpType) /\ Len(row) \in Nat \ {0} /\ DOMAIN row = 1 .. Len(row)
      /\ \A k \in 1 .. Len(row) : /\ row[k].op = fop
                                  /\ row[k].by_name \/ row[k].num > 0
                                  /\ ~row[k].subordinate /\ row[k].sub = 0
  <2> HIDE DEF f, to, param
  <2>1. f \in FieldType /\ (f.by_name \/ f.num > 0) /\ fop \in OpWords
    BY <1>1, <1>2
  <2> QED
    BY ONLY <1>3, <1>4, <2>1, RowIs
<1>6. /\ w \in OpType /\ w.op = fop /\ (w.by_name \/ w.num > 0)
      /\ ~w.subordinate /\ w.sub = base + Len(row)
  <2>1. c \in 1 .. Len(fields)
    BY <1>1, <1>2
  <2>2. other \in FieldType /\ other.num \in Nat /\ (other.by_name \/ other.num > 0)
    <3> HIDE DEF c
    <3> QED
      BY <1>1, <2>1 DEF FieldsOf, FieldType
  <2> HIDE DEF other, param, row
  <2>3. /\ y \in OpType /\ y.op = fop /\ y.by_name = other.by_name /\ y.num = other.num
        /\ ~y.subordinate
    BY <1>4, <2>2, FieldOpIs
  <2> HIDE DEF y
  <2>4. base + Len(row) \in Nat
    BY <1>1, <1>5
  <2> DEFINE b == base + Len(row)
  <2> HIDE DEF b
  <2>5. LET z == [y EXCEPT !.sub = b]
        IN /\ z \in OpType /\ z.op = fop /\ (z.by_name \/ z.num > 0)
           /\ ~z.subordinate /\ z.sub = b
    BY <2>2, <2>3, <2>4 DEF OpType, b
  <2> QED
    BY <2>5 DEF b
<1>7. Created(f) = IF f.pair THEN [row EXCEPT ![Len(row)].subordinate = TRUE] \o <<w>>
                   ELSE row
  BY DEF Created
<1> HIDE DEF row, w
<1>8. CASE f.pair
  <2>1. LET new == [row EXCEPT ![Len(row)].subordinate = TRUE] \o <<w>>
        IN new \in Seq(OpType) /\ NewOps(new, base) /\ new # << >>
    BY ONLY <1>1, <1>5, <1>6, PairIs
  <2> QED
    BY <1>7, <1>8, <2>1
<1>9. CASE ~f.pair
  <2>1. NewOps(row, base)
    BY <1>5 DEF NewOps
  <2>2. row # << >>
    BY <1>5
  <2> QED
    BY <1>5, <1>7, <1>9, <2>1, <2>2
<1> QED
  BY <1>8, <1>9

LEMMA CreateFieldOpsKeeps ==
  ASSUME Inv, CreateFieldOps
  PROVE  Inv'
<1> DEFINE f == Head(fields)
           new == Created(f)
           c == Consumed(f)
           n == Len(fields)
           rest == SubSeq(fields, c + 1, n)
           ops == dm.ops \o new
           h == dm.header_required \/ HasName(new)
           d == [[dm EXCEPT !.ops = ops] EXCEPT !.header_required = h]
<1>1. /\ status = "parsing" /\ pc = "create" /\ Idle(sc) /\ InOperation /\ ~InGroups
      /\ fields \in Seq(FieldType) /\ FieldsOf(fields) /\ fields # << >>
      /\ dm \in DmType /\ par \in ParType /\ dm.ops \in Seq(OpType)
      /\ dm.grps \in Seq(GroupType) /\ dm.header_required \in BOOLEAN
      /\ sc.text = Joined(job.argv, Space)
  BY DEF CreateFieldOps, At, Inv, Scanning, TypeOK, Columns, InOperation, InGroups, DmType
<1>2. /\ fop \in OpWords /\ dm.mode \in {"crosstab", ModeOfOp[fop]}
      /\ job.premode => dm.mode = "groupby"
      /\ dm.mode = "crosstab" => Len(dm.grps) = 2
  BY <1>1 DEF Inv, Modes
<1>3. new \in Seq(OpType) /\ NewOps(new, Len(dm.ops)) /\ new # << >>
  BY <1>1, <1>2, CreatedIs
<1>4. /\ n \in Nat \ {0} /\ DOMAIN fields = 1 .. n /\ c \in 1 .. n
      /\ \A k \in 1 .. n : fields[k] \in FieldType
      /\ \A k \in 1 .. n : /\ fields[k].by_name \/ fields[k].num > 0
                           /\ k + Consumed(fields[k]) <= n + 1
  <2>1. n \in Nat \ {0} /\ DOMAIN fields = 1 .. n /\ f = fields[1]
        /\ \A k \in 1 .. n : fields[k] \in FieldType
    BY <1>1, LenProperties, EmptySeq
  <2>2. \A k \in 1 .. n : /\ fields[k].by_name \/ fields[k].num > 0
                          /\ k + Consumed(fields[k]) <= n + 1
    BY <1>1, <2>1 DEF FieldsOf
  <2>3. c \in {1, 2, 3}
    BY DEF Consumed
  <2>4. 1 \in 1 .. n /\ 1 + c <= n + 1
    BY <2>1, <2>2
  <2> HIDE DEF c, n
  <2>5. c \in 1 .. n
    BY <2>1, <2>3, <2>4
  <2> QED
    BY <2>1, <2>2, <2>5
<1> HIDE DEF new, f
<1>5. /\ rest \in Seq(FieldType) /\ Len(rest) = n - c /\ DOMAIN rest = 1 .. n - c
      /\ \A i \in 1 .. n - c : rest[i] = fields[c + i]
  <2> HIDE DEF c, n
  <2>1. c + 1 \in Int /\ n \in Int /\ (\A i \in c + 1 .. n : fields[i] \in FieldType)
    BY <1>4
  <2>2. /\ rest \in Seq(FieldType)
        /\ Len(rest) = IF c + 1 <= n THEN (n - (c + 1)) + 1 ELSE 0
        /\ \A i \in 1 .. (n - (c + 1)) + 1 : rest[i] = fields[((c + 1) + i) - 1]
    BY ONLY <2>1, SubSeqProperties
  <2>3. (n - (c + 1)) + 1 = n - c /\ (\A i \in 1 .. n - c : ((c + 1) + i) - 1 = c + i)
        /\ (IF c + 1 <= n THEN (n - (c + 1)) + 1 ELSE 0) = n - c
    BY <1>4
  <2> HIDE DEF rest
  <2>4. Len(rest) = n - c /\ (\A i \in 1 .. n - c : rest[i] = fields[c + i])
    BY ONLY <2>2, <2>3
  <2> QED
    BY <2>2, <2>4, LenProperties
<1> HIDE DEF rest
<1>6. FieldsOf(rest)
  <2> HIDE DEF c, n
  <2> SUFFICES ASSUME NEW i \in 1 .. n - c
               PROVE  /\ rest[i].by_name \/ rest[i].num > 0
                      /\ i + Consumed(rest[i]) <= (n - c) + 1
    BY <1>5 DEF FieldsOf
  <2>1. c + i \in 1 .. n
    BY <1>4
  <2>2. (rest[i].by_name \/ rest[i].num > 0) /\ (c + i) + Consumed(rest[i]) <= n + 1
    BY <1>4, <1>5, <2>1
  <2>3. Consumed(rest[i]) \in Nat
    BY DEF Consumed
  <2> QED
    BY <1>4, <2>2, <2>3
<1>7. CASE /\ dm' = [dm EXCEPT !.ops = @ \o new,
                       !.header_required = @ \/ \E k \in DOMAIN new : new[k].by_name]
           /\ fields' = rest
           /\ pc' = IF rest = << >> THEN "operations" ELSE "create"
           /\ undefined' = (undefined \/ ReadsLeftover(fop, par))
           /\ UNCHANGED <<job, sc, fop, alloc_fields, p, dangling, par, status>>
  <2>1. dm' = d
    BY <1>1, <1>7 DEF HasName, DmType
  <2>2. /\ ops \in Seq(OpType) /\ ops # << >>
    <3>1. /\ ops \in Seq(OpType) /\ Len(ops) = Len(dm.ops) + Len(new)
          /\ Len(dm.ops) \in Nat /\ Len(new) \in Nat
      <4>1. dm.ops \in Seq(OpType) /\ new \in Seq(OpType)
        BY <1>1, <1>3
      <4> QED
        BY ONLY <4>1, ConcatIs
    <3>2. Len(new) # 0
      BY <1>3, EmptySeq
    <3> HIDE DEF ops
    <3>3. Len(ops) # 0
      BY ONLY <3>1, <3>2
    <3> QED
      BY <3>1, <3>3, EmptyDomain
  <2>3. OpsOf(ops, dm.mode, dm.mode # "crosstab" \/ NumbersFit)
    <3>1. OpsOf(dm.ops, dm.mode, dm.mode # "crosstab" \/ NumbersFit)
      BY DEF Inv, Operations
    <3> DEFINE nonzero == dm.mode # "crosstab" \/ NumbersFit
               mode == dm.mode
    <3>2. OpsOf(dm.ops, mode, nonzero) /\ mode \in {"crosstab", ModeOfOp[fop]}
      BY <1>2, <3>1
    <3> HIDE DEF nonzero, mode
    <3>3. OpsOf(ops, mode, nonzero)
      BY <1>1, <1>3, <3>2, OpsOfConcat
    <3> QED
      BY <3>3 DEF nonzero, mode
  <2>4. HasName(ops) <=> HasName(dm.ops) \/ HasName(new)
    <3>1. dm.ops \in Seq(OpType) /\ new \in Seq(OpType)
      BY <1>1, <1>3
    <3> QED
      BY ONLY <3>1, HasNameConcat
  <2>5. dm.header_required <=> HasName(dm.grps) \/ HasName(dm.ops)
    BY DEF Inv, Operations
  <2> HIDE DEF ops
  <2>6. h \in BOOLEAN /\ (h <=> HasName(dm.grps) \/ HasName(ops))
    BY <2>4, <2>5
  <2> HIDE DEF h
  <2>7. /\ d \in DmType /\ d.mode = dm.mode /\ d.grps = dm.grps /\ d.ops = ops
        /\ d.header_required = h
    <3> DEFINE u == [dm EXCEPT !.ops = ops]
    <3> HIDE DEF OpType, GroupType
    <3>1. u \in DmType /\ u.mode = dm.mode /\ u.grps = dm.grps /\ u.ops = ops
      BY <1>1, <2>2 DEF DmType
    <3> HIDE DEF u
    <3>2. /\ [u EXCEPT !.header_required = h] \in DmType
          /\ [u EXCEPT !.header_required = h].mode = u.mode
          /\ [u EXCEPT !.header_required = h].grps = u.grps
          /\ [u EXCEPT !.header_required = h].ops = u.ops
          /\ [u EXCEPT !.header_required = h].header_required = h
      BY <2>6, <3>1 DEF DmType
    <3> QED
      BY <3>1, <3>2 DEF u
  <2> HIDE DEF d
  <2>8. /\ pc' \in {"operations", "create"} /\ pc' \in Places
        /\ pc' = "create" => rest # << >>
    BY <1>7 DEF Places
  <2>9. ~InGroups' /\ (InOperation' => pc' = "create")
    BY <2>8 DEF InGroups, InOperation
  <2>10. TypeOK'
    <3>1. Len(fields') <= alloc_fields /\ alloc_fields \in Nat
      <4>1. Len(fields) <= alloc_fields /\ alloc_fields \in Nat
        BY DEF Inv, TypeOK
      <4>2. Len(fields') = n - c
        BY <1>5, <1>7
      <4>3. c \in 1 .. n /\ n \in Nat
        BY <1>4
      <4>4. n <= alloc_fields
        BY <4>1
      <4> HIDE DEF n, c
      <4> QED
        BY ONLY <4>1, <4>2, <4>3, <4>4
    <3>2. undefined' \in BOOLEAN
      BY <1>7
    <3> QED
      BY <1>5, <1>7, <2>1, <2>7, <2>8, <3>1, <3>2 DEF Inv, TypeOK
  <2>11. Scanning'
    BY <1>1, <1>7, <2>9 DEF Scanning
  <2>12. Columns'
    BY <1>6, <1>7, <2>8 DEF Columns
  <2>13. Modes'
    <3>1. ModeOfOp[fop] \in {"groupby", "per_line"}
      BY <1>2 DEF OpWords, ModeOfOp
    <3>2. dm'.mode = dm.mode /\ dm'.grps = dm.grps /\ dm'.ops # << >>
      BY <2>1, <2>2, <2>7
    <3> QED
      BY <1>2, <1>7, <2>8, <2>9, <3>1, <3>2 DEF Modes
  <2>14. NumbersFit' = NumbersFit /\ NoZeros' = NoZeros
    BY <1>7 DEF NumbersFit, NoZeros
  <2>15. Operations'
    <3>1. OpsOf(dm.ops, dm.mode, dm.mode # "crosstab" \/ NumbersFit)'
      <4>1. dm'.ops = ops /\ dm'.mode = dm.mode /\ NumbersFit' = NumbersFit
        BY <2>1, <2>7, <2>14
      <4> QED
        BY ONLY <2>3, <4>1, SMTT(30) DEF OpsOf
    <3> QED
      BY <2>1, <2>6, <2>7, <3>1 DEF Operations
  <2>16. Groupings'
    <3>1. ~NumberLeft
      BY <1>1 DEF NumberLeft
    <3>2. GroupsAreColumns' = GroupsAreColumns
      BY <2>1, <2>7 DEF GroupsAreColumns
    <3>3. dm'.mode = dm.mode /\ dm'.grps = dm.grps
      BY <2>1, <2>7
    <3> QED
      BY <1>1, <2>14, <3>1, <3>2, <3>3 DEF Inv, Groupings
  <2>17. Accepted'
    BY <1>1, <1>7 DEF Accepted
  <2> QED
    BY <2>10, <2>11, <2>12, <2>13, <2>15, <2>16, <2>17 DEF Inv
<1> QED
  <2>1. \/ Stop("refused")
        \/ /\ dm' = [dm EXCEPT !.ops = @ \o new,
                       !.header_required = @ \/ \E k \in DOMAIN new : new[k].by_name]
           /\ fields' = rest
           /\ pc' = IF rest = << >> THEN "operations" ELSE "create"
           /\ undefined' = (undefined \/ ReadsLeftover(fop, par))
           /\ UNCHANGED <<job, sc, fop, alloc_fields, p, dangling, par, status>>
    BY DEF CreateFieldOps, new, f, rest
  <2> QED
    BY <1>7, <2>1, StopKeeps

-----------------------------------------------------------------------------
(* The end.                                                                *)

LEMMA FinishKeeps ==
  ASSUME Inv, Finish
  PROVE  Inv'
<1>1. CASE Stop("refused")
  BY <1>1, StopKeeps
<1>2. CASE Peek(sc).tok = "END" /\ Stop("accepted")
  <2>1. /\ UNCHANGED <<job, sc, pc, dm, fop, fields, alloc_fields, p, dangling, par>>
        /\ undefined' = undefined /\ status' = "accepted"
        /\ status = "parsing" /\ pc = "extra operand"
    BY <1>2 DEF Stop, Finish, At
  <2>2. TypeOK'
    BY <2>1 DEF Inv, TypeOK
  <2>3. Scanning' /\ Columns'
    BY <2>1 DEF Inv, Scanning, InGroups, Columns
  <2>4. Modes'
    BY <2>1 DEF Inv, Modes, InGroups, InOperation
  <2>5. Operations' /\ Groupings'
    BY <2>1 DEF Inv, Operations, Groupings, NumbersFit, NoZeros, NumberLeft,
                GroupsAreColumns
  <2>6. Peek(sc)' = Peek(sc)
    BY <2>1
  <2>7. Accepted'
    BY <1>2, <2>1, <2>6 DEF Accepted
  <2> QED
    BY <2>2, <2>3, <2>4, <2>5, <2>7 DEF Inv
<1> QED
  BY <1>1, <1>2 DEF Finish

LEMMA InvInductive == Inv /\ [Next]_vars => Inv'
<1> SUFFICES ASSUME Inv, [Next]_vars
             PROVE  Inv'
  OBVIOUS
<1>1. CASE ParseModeOrOp
  BY <1>1, ParseModeOrOpKeeps
<1>2. CASE ParseModeColumn
  BY <1>2, ParseModeColumnKeeps
<1>3. CASE MoreModeColumns
  BY <1>3, MoreModeColumnsKeeps
<1>4. CASE ModeColumnsEnd
  BY <1>4, ModeColumnsEndKeeps
<1>5. CASE CheckOption \/ CheckEnds
  BY <1>5, CheckKeeps
<1>6. CASE ParseOperation
  BY <1>6, ParseOperationKeeps
<1>7. CASE OperationsEnd
  BY <1>7, OperationsEndKeeps
<1>8. CASE ParseParam
  BY <1>8, ParseParamKeeps
<1>9. CASE ParamsEnd
  BY <1>9, ParamsEndKeeps
<1>10. CASE ParseColumn
  BY <1>10, ParseColumnKeeps
<1>11. CASE ParsePair
  BY <1>11, ParsePairKeeps
<1>12. CASE ParseRange
  BY <1>12, ParseRangeKeeps
<1>13. CASE MoreColumns
  BY <1>13, MoreColumnsKeeps
<1>14. CASE ColumnsEnd
  BY <1>14, ColumnsEndKeeps
<1>15. CASE CreateFieldOps
  BY <1>15, CreateFieldOpsKeeps
<1>16. CASE Finish
  BY <1>16, FinishKeeps
<1>17. CASE UNCHANGED vars
  <2>1. /\ UNCHANGED <<job, sc, pc, dm, fop, fields, alloc_fields, p, dangling, par>>
        /\ undefined' = undefined /\ status' = status
    BY <1>17 DEF vars
  <2>2. undefined' \in BOOLEAN
    BY <2>1 DEF Inv, TypeOK
  <2> QED
    BY <2>1, <2>2, SameKeeps
<1> QED
  BY <1>1, <1>2, <1>3, <1>4, <1>5, <1>6, <1>7, <1>8, <1>9, <1>10, <1>11, <1>12,
     <1>13, <1>14, <1>15, <1>16, <1>17 DEF Next, Stopped

LEMMA InvHolds == Spec => []Inv
<1>1. Init => Inv
  BY InitInv
<1>2. Inv /\ [Next]_vars => Inv'
  BY InvInductive
<1> QED
  BY <1>1, <1>2, PTL DEF Spec

(* The parser keeps the types of its state, the scanner stays inside its   *)
(* text, and the fields of an operation have the room that was allocated.  *)
THEOREM TypeCorrect == Spec => []TypeOK
<1>1. Inv => TypeOK
  BY DEF Inv
<1> QED
  BY <1>1, InvHolds, PTL

(* What op-parser.c accepts has what the grouping and the field operations *)
(* take for granted: the groups and operations of the mode, pairs that are *)
(* complete, a header where there are names, and with numbers that fit no  *)
(* column 0 but the one that the text of -g may hold.                      *)
THEOREM AcceptedIsUsable == Spec => []ResultFits
<1>1. Inv => ResultFits
  <2> SUFFICES ASSUME Inv, status = "accepted"
               PROVE  ResultFits
    BY DEF ResultFits
  <2>1. pc = "extra operand" /\ Peek(sc).tok = "END" /\ Idle(sc)
    BY DEF Inv, Accepted, Scanning
  <2>2. ~InGroups /\ ~NumberLeft
    <3>1. ASSUME NumberLeft
          PROVE  FALSE
      <4>1. sc.have_peek /\ sc.tok \in Numbers
        BY <3>1 DEF NumberLeft
      <4>2. Peek(sc) = sc
        BY <4>1 DEF Peek
      <4>3. "END" \in Numbers
        BY <2>1, <4>1, <4>2
      <4> QED
        BY <4>3, PieceFacts
    <3> QED
      BY <2>1, <3>1 DEF InGroups
  <2>3. /\ dm.mode = "crosstab" => Len(dm.grps) = 2 /\ Len(dm.ops) = 1
        /\ dm.mode \in {"groupby", "per_line"} =>
             dm.ops # << >> \/ (job.premode /\ job.argv = << << >> >>)
    BY <2>1, <2>2 DEF Inv, Modes
  <2>4. OpsOf(dm.ops, dm.mode, dm.mode # "crosstab" \/ NumbersFit)
        /\ (dm.header_required <=> HasName(dm.grps) \/ HasName(dm.ops))
    BY DEF Inv, Operations
  <2>5. NumbersFit => /\ dm.mode = "rmdup" => dm.grps # << >>
                      /\ NoZeros => GroupsAreColumns
    BY <2>1, <2>2 DEF Inv, Groupings
  <2> DEFINE named == {k \in DOMAIN dm.grps : dm.grps[k].by_name}
                      \cup {k \in DOMAIN dm.ops : dm.ops[k].by_name}
             zeros == {k \in DOMAIN job.grouping :
                         job.grouping[k].tok \in Numbers /\ job.grouping[k].n = 0}
  <2>6. named # {} <=> HasName(dm.grps) \/ HasName(dm.ops)
    BY DEF HasName
  <2>7. ~job.premode \/ zeros = {} => NoZeros
    BY DEF NoZeros
  <2>8. dm.header_required <=> named # {}
    BY <2>4, <2>6
  <2>9. \A k \in DOMAIN dm.ops :
          LET o == dm.ops[k]
          IN /\ dm.mode \in {"crosstab", ModeOfOp[o.op]}
             /\ dm.mode # "crosstab" \/ NumbersFit => o.by_name \/ o.num > 0
             /\ o.subordinate => k < Len(dm.ops) /\ dm.ops[k + 1].sub = k
             /\ o.sub # 0 => o.sub = k - 1 /\ dm.ops[k - 1].subordinate
    BY <2>4 DEF OpsOf
  <2>10. NumbersFit => /\ dm.mode = "rmdup" => dm.grps # << >>
                       /\ ~job.premode \/ zeros = {} => GroupsAreColumns
    BY <2>5, <2>7
  <2> HIDE DEF named, zeros
  <2> QED
    BY <2>3, <2>8, <2>9, <2>10 DEF ResultFits, named, zeros
<1> QED
  BY <1>1, InvHolds, PTL
=============================================================================
