---------------------------- MODULE BufferProofs -----------------------------
(***************************************************************************)
(* The buffers datamash fills hold what is written into them and give it   *)
(* back: those of an operation, for every batch size and all strings       *)
(* (OpBuffers), and those of the keys rmdup has seen, for every set of     *)
(* keys, every input and every size of the first buffer (Rmdup).           *)
(*                                                                         *)
(* For an operation the inductive invariant adds to BuffersHold how full   *)
(* the strings' buffer is between two calls: one cell is free, or the      *)
(* strings fill at least a batch, or nothing was stored.  OutRoom adds     *)
(* what the result needs, and Stored which bytes the buffer holds: the     *)
(* strings as they were collected, from which the lists come out right.    *)
(* For rmdup it adds that next_key_pos is beyond every key stored.         *)
(***************************************************************************)
EXTENDS OpBuffers, Rmdup, SequenceTheorems, FiniteSetTheorems,
        WellFoundedInduction, TLAPS

Room ==
  /\ Used <= str_buf_alloc
  /\ Used = 0 \/ Used < str_buf_alloc \/ Used >= Batch
  /\ op \in Latest /\ count > 0 => Used > 0
  /\ num_values <= alloc_values

IInv == TypeOK /\ Room /\ BuffersHold

(* Storing a string behind kept leaves the buffer as Room wants it, and    *)
(* what was written is inside.                                             *)
LEMMA StoreFits ==
  ASSUME TypeOK,
         NEW kept \in Seq(Nat), NEW str \in Seq(Nat),
         Len(kept) <= str_buf_alloc,
         Store(kept, str)
  PROVE  /\ str_buf' \in Seq(Nat) /\ str_buf_alloc' \in Nat
         /\ touched'.str \in Nat /\ touched'.val = 0
         /\ touched'.str <= str_buf_alloc'
         /\ Len(str_buf') > 0
         /\ Len(str_buf') <= str_buf_alloc'
         /\ Len(str_buf') < str_buf_alloc' \/ Len(str_buf') >= Batch
<1> DEFINE used == Len(kept)
           len  == Len(str)
<1>1. used \in Nat /\ len \in Nat /\ str_buf_alloc \in Nat /\ Batch \in Nat \ {0}
  BY OpBuffersAssumption DEF TypeOK
<1>2. /\ str_buf' \in Seq(Nat)
      /\ Len(str_buf') = used + len + 1
  <2>1. str_buf' = Append(kept \o str, NUL)
    BY DEF Store
  <2>2. kept \o str \in Seq(Nat) /\ Len(kept \o str) = used + len
    OBVIOUS
  <2> HIDE DEF used, len
  <2> QED
    BY <2>1, <2>2, <1>1 DEF NUL
<1>3. touched'.str = used + len + 1 /\ touched'.val = 0
  BY DEF Store
<1>4. /\ str_buf_alloc' \in Nat
      /\ used + len + 1 <= str_buf_alloc'
      /\ used + len + 1 < str_buf_alloc' \/ used + len + 1 >= Batch
  <2>1. str_buf_alloc' = IF used + len + 1 >= str_buf_alloc
                         THEN str_buf_alloc + Largest(Batch, len + 1)
                         ELSE str_buf_alloc
    BY DEF Store, Grown
  <2>2. used <= str_buf_alloc
    OBVIOUS
  <2> HIDE DEF used, len
  <2> QED
    BY <1>1, <2>1, <2>2 DEF Largest
<1> HIDE DEF used, len
<1> QED
  BY <1>1, <1>2, <1>3, <1>4

LEMMA InitInv == Init => IInv
<1> SUFFICES ASSUME Init PROVE IInv
  OBVIOUS
<1>1. TypeOK
  BY DEF Init, TypeOK
<1>2. Used = 0 /\ Used \in Nat
  BY DEF Init, Used
<1>3. Room
  BY <1>2 DEF Init, Room
<1>4. BuffersHold
  BY <1>2, OpBuffersAssumption DEF Init, BuffersHold
<1> QED
  BY <1>1, <1>3, <1>4 DEF IInv

(* A call that leaves the strings alone and reads at most what is in use.  *)
LEMMA OthersKeep ==
  ASSUME IInv,
         op' = op, case_sensitive' = case_sensitive,
         str_buf' = str_buf, str_buf_alloc' = str_buf_alloc,
         phase' \in {"collect", "print"}, count' \in Nat, strs' \in Seq(Seq(Nat)),
         op \in Latest => count' = count,
         num_values' \in Nat, alloc_values' \in Nat, num_values' <= alloc_values',
         touched'.str \in Nat, touched'.val \in Nat,
         \/ touched'.str <= Used
         \/ op \in Paths /\ count > 0 /\ touched'.str = Used + 1,
         touched'.val <= alloc_values'
  PROVE  IInv'
<1>1. TypeOK'
  BY DEF IInv, TypeOK
<1>2. Used \in Nat /\ Used' = Used /\ str_buf_alloc \in Nat /\ Batch \in Nat \ {0}
  BY OpBuffersAssumption DEF IInv, TypeOK, Used
<1>3. Room'
  BY <1>2 DEF IInv, Room
<1>4. BuffersHold'
  <2>1. Used <= str_buf_alloc
    BY DEF IInv, Room
  <2>2. CASE touched'.str <= Used
    BY <1>2, <2>1, <2>2 DEF BuffersHold
  <2>3. CASE op \in Paths /\ count > 0 /\ touched'.str = Used + 1
    <3>1. Used < str_buf_alloc \/ Used >= Batch
      BY <2>3, <1>2 DEF IInv, Room, Latest
    <3> QED
      BY <1>2, <2>1, <2>3, <3>1 DEF BuffersHold
  <2> QED
    BY <2>2, <2>3
<1> QED
  BY <1>1, <1>3, <1>4 DEF IInv

LEMMA CollectKeeps ==
  ASSUME IInv, NEW str \in Inputs, Collect(str)
  PROVE  IInv'
<1>1. str \in Seq(Nat)
  BY OpBuffersAssumption
<1>2. /\ op' = op /\ case_sensitive' = case_sensitive /\ phase' = phase
      /\ count' = count + 1 /\ count' \in Nat
      /\ strs' \in Seq(Seq(Nat))
  BY <1>1 DEF Collect, IInv, TypeOK
<1>3. CASE /\ AddString(str) \/ ReplaceString(str)
           /\ UNCHANGED <<num_values, alloc_values, out_buf, out_buf_alloc>>
  <2>1. PICK kept \in Seq(Nat) : Len(kept) <= str_buf_alloc /\ Store(kept, str)
    <3>1. << >> \in Seq(Nat) /\ Len(<< >>) <= str_buf_alloc
      BY DEF IInv, TypeOK
    <3>2. str_buf \in Seq(Nat) /\ Len(str_buf) <= str_buf_alloc
      BY DEF IInv, TypeOK, Room, Used
    <3> QED
      BY <1>3, <3>1, <3>2 DEF AddString, ReplaceString
  <2>2. /\ str_buf' \in Seq(Nat) /\ str_buf_alloc' \in Nat
        /\ touched'.str \in Nat /\ touched'.val = 0
        /\ touched'.str <= str_buf_alloc'
        /\ Len(str_buf') > 0
        /\ Len(str_buf') <= str_buf_alloc'
        /\ Len(str_buf') < str_buf_alloc' \/ Len(str_buf') >= Batch
    BY <1>1, <2>1, StoreFits DEF IInv
  <2>3. num_values' = num_values /\ alloc_values' = alloc_values
    BY <1>3
  <2>4. TypeOK'
    BY <1>2, <2>2, <2>3 DEF IInv, TypeOK
  <2>5. Room'
    BY <2>2, <2>3 DEF IInv, Room, Used
  <2>6. BuffersHold'
    <3>1. touched'.val <= alloc_values'
      BY <2>2, <2>3 DEF IInv, TypeOK
    <3> QED
      BY <2>2, <3>1 DEF BuffersHold
  <2> QED
    BY <2>4, <2>5, <2>6 DEF IInv
<1>4. CASE /\ AddValue
           /\ UNCHANGED <<str_buf, str_buf_alloc, out_buf, out_buf_alloc>>
  <2>1. /\ op \notin Latest
        /\ alloc_values' = IF num_values >= alloc_values THEN alloc_values + Batch
                           ELSE alloc_values
        /\ num_values' = num_values + 1
        /\ touched'.str = 0 /\ touched'.val = num_values + 1
    BY <1>4 DEF AddValue, Vectors, Latest, Paths
  <2>2. num_values \in Nat /\ alloc_values \in Nat /\ num_values <= alloc_values
    BY DEF IInv, TypeOK, Room
  <2>3. /\ num_values' \in Nat /\ alloc_values' \in Nat
        /\ num_values' <= alloc_values'
        /\ touched'.val <= alloc_values' /\ touched'.val \in Nat
    BY <2>1, <2>2, OpBuffersAssumption
  <2>4. touched'.str <= Used
    BY <2>1 DEF IInv, TypeOK, Used
  <2>5. phase' \in {"collect", "print"}
    BY <1>2 DEF IInv, TypeOK
  <2>6. str_buf' = str_buf /\ str_buf_alloc' = str_buf_alloc
    BY <1>4
  <2> QED
    BY <1>2, <2>1, <2>3, <2>4, <2>5, <2>6, OthersKeep
<1>5. ASSUME op \notin Latest,
             touched' = [str |-> 0, val |-> 0, out |-> touched'.out],
             UNCHANGED <<str_buf, str_buf_alloc, num_values, alloc_values>>
      PROVE  IInv'
  <2>1. touched'.str = 0 /\ touched'.val = 0
    BY <1>5
  <2>2. /\ num_values' \in Nat /\ alloc_values' \in Nat
        /\ num_values' <= alloc_values' /\ 0 <= alloc_values'
    BY <1>5 DEF IInv, TypeOK, Room
  <2>3. 0 <= Used
    BY DEF IInv, TypeOK, Used
  <2>4. phase' \in {"collect", "print"}
    BY <1>2 DEF IInv, TypeOK
  <2>5. str_buf' = str_buf /\ str_buf_alloc' = str_buf_alloc
    BY <1>5
  <2> QED
    BY <1>2, <1>5, <2>1, <2>2, <2>3, <2>4, <2>5, OthersKeep
<1>6. CASE /\ Decode(str)
           /\ UNCHANGED <<str_buf, str_buf_alloc, num_values, alloc_values>>
  BY <1>5, <1>6 DEF Decode, Latest, Paths
<1>7. CASE /\ op = "sum"
           /\ touched' = [str |-> 0, val |-> 0, out |-> 0]
           /\ UNCHANGED <<str_buf, str_buf_alloc, num_values, alloc_values,
                          out_buf, out_buf_alloc>>
  BY <1>5, <1>7 DEF Latest, Paths
<1> QED
  BY <1>3, <1>4, <1>6, <1>7 DEF Collect

LEMMA SummarizeKeeps ==
  ASSUME IInv, Summarize
  PROVE  IInv'
<1>1. /\ op' = op /\ case_sensitive' = case_sensitive
      /\ count' = count /\ strs' = strs /\ phase' = "print"
      /\ str_buf' = str_buf /\ str_buf_alloc' = str_buf_alloc
      /\ num_values' = num_values /\ alloc_values' = alloc_values
  BY DEF Summarize
<1>2. /\ Used \in Nat /\ num_values \in Nat /\ alloc_values \in Nat
      /\ num_values <= alloc_values
  BY DEF IInv, TypeOK, Room, Used
<1>3. /\ touched'.val = num_values \/ touched'.val = 0
      /\ touched'.str \in Nat
      /\ \/ touched'.str <= Used
         \/ op \in Paths /\ count > 0 /\ touched'.str = Used + 1
  <2>1. CASE count = 0
    BY <2>1, <1>2 DEF Summarize, SummarizeEmpty, Result, PrintNumber
  <2>2. CASE count # 0
    <3> count > 0
      BY <2>2 DEF IInv, TypeOK
    <3>1. CASE SummarizeLast
      BY <3>1, <1>2 DEF SummarizeLast, Result
    <3>2. CASE SummarizeLists
      <4>1. CASE op = "unique"
        <5>1. PICK s \in SortedFrom(StringPtrs) :
                Result(UniqueValues(s), Used, Used, Len(UniqueValues(s)) + 1)
          BY <3>2, <4>1 DEF SummarizeLists
        <5>2. touched'.str = Used /\ touched'.val = num_values
          BY <5>1 DEF Result
        <5> QED
          BY <5>2, <1>2
      <4>2. CASE op = "countunique"
        <5>1. PICK s \in SortedFrom(StringPtrs) :
                PrintNumber(Cardinality({i \in DOMAIN s : IsNew(s, i)}))
          BY <3>2, <4>2 DEF SummarizeLists
        <5>2. touched'.str = Used /\ touched'.val = num_values
          BY <5>1 DEF PrintNumber, Result
        <5> QED
          BY <5>2, <1>2
      <4>3. CASE op = "collapse"
        <5>1. touched'.str = Used /\ touched'.val = num_values
          BY <3>2, <4>3 DEF SummarizeLists, Result
        <5> QED
          BY <5>1, <1>2
      <4> QED
        BY <3>2, <4>1, <4>2, <4>3 DEF SummarizeLists
    <3>3. CASE SummarizeEncoded
      <4>1. touched'.str = Used - 1 /\ touched'.val = num_values
        BY <3>3 DEF SummarizeEncoded, Result
      <4>2. op \in Latest
        BY <3>3 DEF SummarizeEncoded, Latest
      <4>3. Used > 0
        BY <4>2 DEF IInv, Room
      <4> QED
        BY <4>1, <4>3, <1>2
    <3>4. CASE SummarizeDirname
      BY <3>4, <1>2 DEF SummarizeDirname, Result, Paths
    <3>5. CASE SummarizeBasename
      BY <3>5, <1>2 DEF SummarizeBasename, Result, Paths
    <3>6. CASE SummarizeNumbers
      BY <3>6, <1>2 DEF SummarizeNumbers, Result, PrintNumber
    <3>7. CASE touched' = [str |-> 0, val |-> 0, out |-> 0]
      BY <3>7, <1>2
    <3> QED
      BY <2>2, <3>1, <3>2, <3>3, <3>4, <3>5, <3>6, <3>7 DEF Summarize
  <2> QED
    BY <2>1, <2>2
<1>4. touched'.val \in Nat /\ touched'.val <= alloc_values'
  BY <1>1, <1>2, <1>3
<1>5. count' \in Nat /\ strs' \in Seq(Seq(Nat))
  BY <1>1 DEF IInv, TypeOK
<1> QED
  BY <1>1, <1>2, <1>3, <1>4, <1>5, OthersKeep

LEMMA ResetKeeps ==
  ASSUME IInv, Reset
  PROVE  IInv'
<1>1. /\ op' = op /\ case_sensitive' = case_sensitive /\ phase' = "collect"
      /\ count' = 0 /\ strs' = << >> /\ str_buf' = << >> /\ num_values' = 0
      /\ str_buf_alloc' = str_buf_alloc /\ alloc_values' = alloc_values
      /\ touched'.str = 0 /\ touched'.val = 0
  BY DEF Reset
<1>2. TypeOK'
  BY <1>1 DEF IInv, TypeOK
<1>3. Used' = 0 /\ str_buf_alloc \in Nat /\ alloc_values \in Nat
  BY <1>1 DEF Used, IInv, TypeOK
<1>4. Room' /\ BuffersHold'
  BY <1>1, <1>3, OpBuffersAssumption DEF Room, BuffersHold
<1> QED
  BY <1>2, <1>4 DEF IInv

LEMMA StutterKeeps ==
  ASSUME IInv, UNCHANGED vars
  PROVE  IInv'
BY DEF IInv, TypeOK, Room, BuffersHold, Used, vars

(* IInv holds in every state of an operation.                              *)
THEOREM Invariance == Spec => []IInv
<1>1. Init => IInv
  BY InitInv
<1>2. IInv /\ [Next]_vars => IInv'
  BY CollectKeeps, SummarizeKeeps, ResetKeeps, StutterKeeps DEF Next
<1> QED
  BY <1>1, <1>2, PTL DEF Spec

(* The variables keep their types.                                         *)
THEOREM TypeCorrect == Spec => []TypeOK
BY Invariance, PTL DEF IInv

(* Whatever strings come in whatever order and groups, the strings and the *)
(* numbers stay in their buffers; file names may exceed theirs by the one  *)
(* NUL if they fill a batch.                                               *)
THEOREM BuffersNeverOverrun == Spec => []BuffersHold
BY Invariance, PTL DEF IInv

-----------------------------------------------------------------------------
(* Lemmas on numbers and sequences.                                        *)

(* A set of numbers that is not empty has a least member.                  *)
LEMMA LeastNumber ==
  ASSUME NEW S \in SUBSET Nat, S # {}
  PROVE  \E x \in S : \A y \in S : x <= y
<1> DEFINE LT == {ss \in Nat \X Nat : ss[1] < ss[2]}
<1>1. IsWellFoundedOn(LT, Nat)
  BY NatLessThanWellFounded DEF OpToRel
<1>2. PICK x \in S : \A y \in S : ~ (<<y, x>> \in LT)
  <2> HIDE DEF LT
  <2> QED
    BY <1>1, WFMin
<1>3. ASSUME NEW y \in S
      PROVE  x <= y
  <2>1. x \in Nat /\ y \in Nat /\ ~ (<<y, x>> \in LT)
    BY <1>2
  <2>2. ~ (y < x)
    BY <2>1
  <2> QED
    BY <2>1, <2>2
<1> QED
  BY <1>3

(* The concatenations of the first, the first two, ... of some sequences.  *)
Flattens(f, seqs, n) ==
  f = [i \in 1 .. n |-> IF i = 1 THEN seqs[i] ELSE f[i-1] \o seqs[i]]

LEMMA FlattensExists ==
  ASSUME NEW seqs, NEW n \in Nat
  PROVE  \E f : Flattens(f, seqs, n)
<1> DEFINE Bad == {m \in Nat : ~ \E f : Flattens(f, seqs, m)}
<1> SUFFICES ASSUME ~ \E f : Flattens(f, seqs, n)
             PROVE  FALSE
  OBVIOUS
<1>1. PICK m \in Bad : \A k \in Bad : m <= k
  <2>1. Bad \in SUBSET Nat /\ Bad # {}
    OBVIOUS
  <2> HIDE DEF Bad
  <2> QED
    BY <2>1, LeastNumber
<1>2. m \in Nat /\ ~ \E f : Flattens(f, seqs, m)
  BY <1>1
<1>3. m # 0
  <2>1. Flattens(<< >>, seqs, 0)
    BY DEF Flattens
  <2> QED
    BY <1>2, <2>1
<1>4. m - 1 \in Nat /\ m - 1 \notin Bad
  BY <1>1, <1>2, <1>3
<1>5. PICK f : Flattens(f, seqs, m - 1)
  BY <1>4
<1> DEFINE g == [i \in 1 .. m |-> IF i < m THEN f[i]
                                  ELSE IF i = 1 THEN seqs[i] ELSE f[i-1] \o seqs[i]]
<1>6. ASSUME NEW i \in 1 .. m
      PROVE  g[i] = IF i = 1 THEN seqs[i] ELSE g[i-1] \o seqs[i]
  <2>1. CASE i = m
    <3>1. m # 1 => m - 1 \in 1 .. m /\ m - 1 < m
      BY <1>2, <1>3
    <3> QED
      BY <2>1, <3>1
  <2>2. CASE i # m
    <3>1. i \in 1 .. m - 1 /\ i < m
      BY <1>2, <2>2
    <3>2. i # 1 => i - 1 \in 1 .. m /\ i - 1 < m
      BY <1>2, <3>1
    <3>3. f[i] = IF i = 1 THEN seqs[i] ELSE f[i-1] \o seqs[i]
      BY <1>5, <3>1 DEF Flattens
    <3> QED
      BY <3>1, <3>2, <3>3
  <2> QED
    BY <2>1, <2>2
<1>7. g = [i \in 1 .. m |-> g[i]]
  OBVIOUS
<1> HIDE DEF g
<1>8. Flattens(g, seqs, m)
  BY <1>6, <1>7 DEF Flattens
<1> QED
  BY <1>2, <1>8

(* FlattenSeq is the last of them.                                         *)
LEMMA FlattenSeqIs ==
  ASSUME NEW seqs, Len(seqs) \in Nat \ {0}
  PROVE  \E f : /\ f[1] = seqs[1]
                /\ \A i \in 2 .. Len(seqs) : f[i] = f[i-1] \o seqs[i]
                /\ FlattenSeq(seqs) = f[Len(seqs)]
<1> DEFINE n == Len(seqs)
           F == CHOOSE f : Flattens(f, seqs, n)
<1>1. Flattens(F, seqs, n)
  BY FlattensExists
<1>2. FlattenSeq(seqs) = F[n]
  BY DEF FlattenSeq, Flattens
<1> HIDE DEF F
<1>3. F[1] = seqs[1] /\ \A i \in 2 .. n : F[i] = F[i-1] \o seqs[i]
  <2> HIDE DEF n
  <2>1. ASSUME NEW i \in 1 .. n
        PROVE  F[i] = IF i = 1 THEN seqs[i] ELSE F[i-1] \o seqs[i]
    BY <1>1, Zenon DEF Flattens
  <2>2. 1 \in 1 .. n /\ \A i \in 2 .. n : i \in 1 .. n /\ i # 1
    BY DEF n
  <2> QED
    BY <2>1, <2>2
<1> QED
  BY <1>2, <1>3

-----------------------------------------------------------------------------
(* The strings that field_op_get_string_ptrs finds lie one behind the      *)
(* other in the buffer, each up to its NUL.                                *)

Nuls == {q \in DOMAIN str_buf : str_buf[q] = NUL}

LEMMA NulsCounted ==
  ASSUME str_buf \in Seq(Nat)
  PROVE  /\ Used \in Nat /\ DOMAIN str_buf = 1 .. Used
         /\ IsFiniteSet(Nuls) /\ Cardinality(Nuls) \in Nat
         /\ NulsBefore(1) = 0 /\ NulsBefore(Used + 1) = Cardinality(Nuls)
         /\ \A p \in 1 .. Used + 1 : NulsBefore(p) \in Nat
         /\ \A p \in 1 .. Used :
              NulsBefore(p + 1) = IF str_buf[p] = NUL THEN NulsBefore(p) + 1
                                  ELSE NulsBefore(p)
<1> DEFINE N(p) == {q \in 1 .. p - 1 : str_buf[q] = NUL}
<1>1. Used \in Nat /\ DOMAIN str_buf = 1 .. Used
  BY DEF Used
<1>2. \A p : NulsBefore(p) = Cardinality(N(p))
  BY DEF NulsBefore
<1>3. ASSUME NEW p \in 1 .. Used + 1
      PROVE  IsFiniteSet(N(p)) /\ Cardinality(N(p)) \in Nat
  <2>1. IsFiniteSet(1 .. p - 1)
    BY <1>1, FS_Interval
  <2>2. N(p) \subseteq 1 .. p - 1
    OBVIOUS
  <2> HIDE DEF N
  <2> QED
    BY <2>1, <2>2, FS_Subset, FS_CardinalityType
<1>4. N(1) = {}
  OBVIOUS
<1>5. Nuls = N(Used + 1)
  BY <1>1 DEF Nuls
<1>6. ASSUME NEW p \in 1 .. Used
      PROVE  N(p + 1) = (IF str_buf[p] = NUL THEN N(p) \cup {p} ELSE N(p))
             /\ p \notin N(p)
  <2>1. \A q : q \in 1 .. (p + 1) - 1 <=> q \in 1 .. p - 1 \/ q = p
    BY <1>1
  <2> QED
    BY <2>1
<1> HIDE DEF N
<1>7. ASSUME NEW p \in 1 .. Used
      PROVE  NulsBefore(p + 1) = IF str_buf[p] = NUL THEN NulsBefore(p) + 1
                                 ELSE NulsBefore(p)
  <2>1. IsFiniteSet(N(p))
    BY <1>1, <1>3
  <2>2. Cardinality(N(p) \cup {p}) = Cardinality(N(p)) + 1
    BY <1>6, <2>1, FS_AddElement
  <2> QED
    BY <1>2, <1>6, <2>2
<1>8. NulsBefore(1) = 0 /\ NulsBefore(Used + 1) = Cardinality(Nuls)
  BY <1>2, <1>4, <1>5, FS_EmptySet
<1>9. IsFiniteSet(Nuls) /\ Cardinality(Nuls) \in Nat
  <2>1. Used + 1 \in 1 .. Used + 1
    BY <1>1
  <2> QED
    BY <1>3, <1>5, <2>1
<1>10. \A p \in 1 .. Used + 1 : NulsBefore(p) \in Nat
  BY <1>2, <1>3
<1> QED
  BY <1>1, <1>7, <1>8, <1>9, <1>10

(* More NULs come before what comes later.                                 *)
LEMMA NulsGrow ==
  ASSUME str_buf \in Seq(Nat), NEW p \in 1 .. Used + 1, NEW r \in 1 .. Used + 1, p < r
  PROVE  /\ NulsBefore(p) <= NulsBefore(r)
         /\ str_buf[p] = NUL => NulsBefore(p) < NulsBefore(r)
<1>1. Used \in Nat /\ p + 1 \in 1 .. Used + 1
  BY NulsCounted
(* NulsBefore never falls from one position to the next.                   *)
<1>2. ASSUME NEW a \in 1 .. Used + 1
      PROVE  \A b \in 1 .. Used + 1 : a <= b => NulsBefore(a) <= NulsBefore(b)
  <2> DEFINE Less == {b \in 1 .. Used + 1 : a <= b /\ ~(NulsBefore(a) <= NulsBefore(b))}
  <2> SUFFICES ASSUME Less # {}
               PROVE  FALSE
    OBVIOUS
  <2>1. PICK b \in Less : \A c \in Less : b <= c
    <3>1. Less \in SUBSET Nat
      BY <1>1
    <3> HIDE DEF Less
    <3> QED
      BY <3>1, LeastNumber
  <2>2. b # a /\ b \in Nat /\ a \in Nat /\ a <= b /\ b <= Used + 1
    BY <1>1, <2>1, NulsCounted
  <2>3. b - 1 \in 1 .. Used /\ a <= b - 1 /\ (b - 1) + 1 = b /\ b - 1 \in 1 .. Used + 1
    BY <1>1, <2>2
  <2>4. b - 1 \notin Less
    BY <2>1, <2>2
  <2>5. NulsBefore(a) <= NulsBefore(b - 1)
    BY <2>3, <2>4
  <2>6. NulsBefore(b - 1) <= NulsBefore(b)
    <3>1. NulsBefore((b - 1) + 1) = IF str_buf[b - 1] = NUL THEN NulsBefore(b - 1) + 1
                                    ELSE NulsBefore(b - 1)
      BY ONLY <2>3, str_buf \in Seq(Nat), NulsCounted
    <3>2. NulsBefore(b - 1) \in Nat
      BY <2>3, NulsCounted
    <3> QED
      BY <2>3, <3>1, <3>2
  <2>7. ~(NulsBefore(a) <= NulsBefore(b))
    BY <2>1
  <2>8. NulsBefore(a) \in Nat /\ NulsBefore(b) \in Nat /\ NulsBefore(b - 1) \in Nat
    BY <2>2, <2>3, <2>1, NulsCounted
  <2> HIDE DEF Less
  <2> QED
    BY <2>5, <2>6, <2>7, <2>8
<1>3. NulsBefore(p) <= NulsBefore(r)
  BY <1>1, <1>2
<1>4. NulsBefore(p + 1) <= NulsBefore(r)
  BY <1>1, <1>2
<1>5. str_buf[p] = NUL => NulsBefore(p + 1) = NulsBefore(p) + 1
  <2>1. p \in 1 .. Used
    BY <1>1
  <2> QED
    BY <2>1, NulsCounted
<1>6. NulsBefore(p) \in Nat /\ NulsBefore(r) \in Nat
  BY NulsCounted
<1> QED
  BY <1>3, <1>4, <1>5, <1>6

(* The k-th NUL is where StringPtrs looks for it.                          *)
IsNul(p, k) == p \in DOMAIN str_buf /\ str_buf[p] = NUL /\ NulsBefore(p) = k - 1

LEMMA NulExists ==
  ASSUME str_buf \in Seq(Nat), NEW k \in Nat \ {0}, k <= Cardinality(Nuls)
  PROVE  \E p : IsNul(p, k)
<1> DEFINE Past == {p \in 1 .. Used + 1 : k <= NulsBefore(p)}
<1>1. Used \in Nat /\ Used + 1 \in Past
  BY NulsCounted
<1>2. PICK p \in Past : \A r \in Past : p <= r
  <2>1. Past \in SUBSET Nat /\ Past # {}
    BY <1>1
  <2> HIDE DEF Past
  <2> QED
    BY <2>1, LeastNumber
<1>3. p # 1 /\ p - 1 \in 1 .. Used /\ p - 1 \in 1 .. Used + 1 /\ (p - 1) + 1 = p
  BY <1>1, <1>2, NulsCounted
<1>4. p - 1 \notin Past
  BY <1>1, <1>2
<1>5. /\ NulsBefore(p - 1) \in Nat /\ NulsBefore(p) \in Nat
      /\ NulsBefore(p) = IF str_buf[p - 1] = NUL THEN NulsBefore(p - 1) + 1
                         ELSE NulsBefore(p - 1)
  BY <1>2, <1>3, NulsCounted
<1>6. NulsBefore(p - 1) < k /\ k <= NulsBefore(p)
  BY <1>2, <1>3, <1>4, <1>5
<1>7. str_buf[p - 1] = NUL /\ NulsBefore(p - 1) = k - 1
  BY <1>5, <1>6
<1>8. p - 1 \in DOMAIN str_buf
  BY <1>3, NulsCounted
<1> QED
  BY <1>7, <1>8 DEF IsNul

LEMMA NulUnique ==
  ASSUME str_buf \in Seq(Nat), NEW k \in Nat, NEW m \in Nat, k <= m,
         NEW p, NEW r, IsNul(p, k), IsNul(r, m)
  PROVE  /\ k = m => p = r
         /\ k < m => p < r
<1>1. /\ Used \in Nat /\ p \in 1 .. Used /\ r \in 1 .. Used
      /\ p \in 1 .. Used + 1 /\ r \in 1 .. Used + 1
      /\ str_buf[p] = NUL /\ str_buf[r] = NUL
      /\ NulsBefore(p) = k - 1 /\ NulsBefore(r) = m - 1
  BY NulsCounted DEF IsNul
<1>2. p < r => k - 1 < m - 1
  BY <1>1, NulsGrow
<1>3. r < p => m - 1 < k - 1
  BY <1>1, NulsGrow
<1> QED
  BY <1>1, <1>2, <1>3

(* The strings, by the positions of their NULs.                            *)
Bounds(e) ==
  /\ e \in [0 .. count -> Nat] /\ e[0] = 0
  /\ \A k \in 1 .. count : e[k] \in DOMAIN str_buf /\ str_buf[e[k]] = NUL
  /\ \A i, k \in 0 .. count : i < k => e[i] < e[k]
  /\ StringPtrs = [k \in 1 .. count |-> SubSeq(str_buf, e[k-1] + 1, e[k] - 1)]

LEMMA StringsInARow ==
  ASSUME str_buf \in Seq(Nat), count \in Nat, count <= Cardinality(Nuls)
  PROVE  \E e : Bounds(e)
<1> DEFINE nul(k) == CHOOSE p \in DOMAIN str_buf :
                       str_buf[p] = NUL /\ NulsBefore(p) = k - 1
           e == [k \in 0 .. count |-> IF k = 0 THEN 0 ELSE nul(k)]
<1>1. ASSUME NEW k \in 1 .. count
      PROVE  IsNul(nul(k), k)
  <2>1. k \in Nat \ {0} /\ k <= Cardinality(Nuls)
    BY NulsCounted
  <2>2. \E p \in DOMAIN str_buf : str_buf[p] = NUL /\ NulsBefore(p) = k - 1
    BY <2>1, NulExists DEF IsNul
  <2> QED
    BY <2>2 DEF IsNul
<1>3. StringPtrs = [k \in 1 .. count |->
         SubSeq(str_buf, IF k = 1 THEN 1 ELSE nul(k - 1) + 1, nul(k) - 1)]
  BY DEF StringPtrs
<1> HIDE DEF nul
<1>2. \A k \in 1 .. count : nul(k) \in DOMAIN str_buf /\ str_buf[nul(k)] = NUL
                            /\ nul(k) \in Nat \ {0}
  <2>1. \A q \in DOMAIN str_buf : q \in Nat \ {0}
    BY NulsCounted
  <2> QED
    BY <1>1, <2>1 DEF IsNul
<1>4. ASSUME NEW i \in 0 .. count, NEW k \in 0 .. count, i < k
      PROVE  (IF i = 0 THEN 0 ELSE nul(i)) < nul(k)
  <2>1. k \in 1 .. count /\ (i # 0 => i \in 1 .. count) /\ i \in Nat /\ k \in Nat
    BY <1>4
  <2>2. CASE i = 0
    BY <1>2, <2>1, <2>2
  <2>3. CASE i # 0
    <3>1. IsNul(nul(i), i) /\ IsNul(nul(k), k)
      BY <1>1, <2>1, <2>3
    <3>2. nul(i) < nul(k)
      BY <1>4, <2>1, <3>1, NulUnique
    <3> QED
      BY <2>3, <3>2
  <2> QED
    BY <2>2, <2>3
<1>5. e \in [0 .. count -> Nat] /\ e[0] = 0
  <2>1. 0 \in 0 .. count /\ \A k \in 0 .. count : k # 0 => k \in 1 .. count
    OBVIOUS
  <2> QED
    BY <1>2, <2>1
<1>6. \A k \in 1 .. count : e[k] = nul(k) /\ k - 1 \in 0 .. count
                            /\ e[k-1] = IF k = 1 THEN 0 ELSE nul(k - 1)
  OBVIOUS
<1>7. \A i, k \in 0 .. count : i < k => e[i] < e[k]
  BY <1>4
<1> HIDE DEF e
<1>8. StringPtrs = [k \in 1 .. count |-> SubSeq(str_buf, e[k-1] + 1, e[k] - 1)]
  <2>1. ASSUME NEW k \in 1 .. count
        PROVE  SubSeq(str_buf, IF k = 1 THEN 1 ELSE nul(k - 1) + 1, nul(k) - 1)
                 = SubSeq(str_buf, e[k-1] + 1, e[k] - 1)
    <3>1. e[k] = nul(k) /\ (IF k = 1 THEN 1 ELSE nul(k - 1) + 1) = e[k-1] + 1
      BY <1>6
    <3> QED
      BY <3>1
  <2> QED
    BY <1>3, <2>1
<1>9. \A k \in 1 .. count : e[k] \in DOMAIN str_buf /\ str_buf[e[k]] = NUL
  BY <1>2, <1>6
<1>10. Bounds(e)
  BY <1>5, <1>7, <1>8, <1>9 DEF Bounds
<1> QED
  BY <1>10

(* A string of the buffer has the cells before its NUL.                    *)
LEMMA Piece ==
  ASSUME NEW buf \in Seq(Nat), NEW a \in Nat, NEW b \in Nat, a < b, b <= Len(buf)
  PROVE  /\ SubSeq(buf, a + 1, b - 1) \in Seq(Nat)
         /\ Len(SubSeq(buf, a + 1, b - 1)) = b - 1 - a
         /\ IsFiniteSet(a + 1 .. b) /\ Cardinality(a + 1 .. b) = b - a
         /\ a + 1 .. b \subseteq 1 .. Len(buf)
<1>1. \A q \in a + 1 .. b - 1 : buf[q] \in Nat
  OBVIOUS
<1>2. a + 1 \in Int /\ b - 1 \in Int
  OBVIOUS
<1>3. /\ SubSeq(buf, a + 1, b - 1) \in Seq(Nat)
      /\ Len(SubSeq(buf, a + 1, b - 1)) =
           IF a + 1 <= b - 1 THEN (b - 1) - (a + 1) + 1 ELSE 0
  BY ONLY <1>1, <1>2, SubSeqProperties
<1>4. IsFiniteSet(a + 1 .. b) /\ Cardinality(a + 1 .. b) = b - a
  BY FS_Interval
<1> QED
  BY <1>3, <1>4

(* Strings that are put one behind the other fit into U cells when each    *)
(* has cells of its own, the first one cell more than it needs.            *)
LEMMA Packed ==
  ASSUME NEW n \in Nat \ {0}, NEW U \in Nat, NEW S,
         NEW c \in [1 .. n -> SUBSET (1 .. U)],
         NEW t \in [1 .. n -> Seq(S)],
         \A i, k \in 1 .. n : i # k => c[i] \cap c[k] = {},
         \A i \in 1 .. n : Len(t[i]) + (IF i = 1 THEN 1 ELSE 0) <= Cardinality(c[i])
  PROVE  FlattenSeq(t) \in Seq(S) /\ Len(FlattenSeq(t)) + 1 <= U
<1> DEFINE C(k) == UNION {c[i] : i \in 1 .. k}
<1>1. ASSUME NEW i \in 1 .. n
      PROVE  /\ t[i] \in Seq(S) /\ Len(t[i]) \in Nat
             /\ IsFiniteSet(c[i]) /\ Cardinality(c[i]) \in Nat
             /\ c[i] \subseteq 1 .. U
  <2>1. t[i] \in Seq(S) /\ c[i] \subseteq 1 .. U
    OBVIOUS
  <2>2. Len(t[i]) \in Nat
    BY ONLY <2>1, LenProperties
  <2>3. IsFiniteSet(1 .. U)
    BY ONLY U \in Nat, FS_Interval
  <2>4. IsFiniteSet(c[i]) /\ Cardinality(c[i]) \in Nat
    BY ONLY <2>1, <2>3, FS_Subset, FS_CardinalityType
  <2> QED
    BY ONLY <2>1, <2>2, <2>4
<1>2. Len(t) = n /\ t \in Seq(Seq(S))
  <2>1. t \in Seq(Seq(S))
    BY ONLY n \in Nat \ {0}, t \in [1 .. n -> Seq(S)], SeqDef
  <2>2. DOMAIN t = 1 .. n
    OBVIOUS
  <2> QED
    BY ONLY <2>1, <2>2, LenProperties, n \in Nat \ {0}
<1>3. PICK f : /\ f[1] = t[1]
               /\ \A i \in 2 .. n : f[i] = f[i-1] \o t[i]
               /\ FlattenSeq(t) = f[n]
  BY <1>2, FlattenSeqIs
<1> DEFINE Good(k) == /\ f[k] \in Seq(S) /\ Len(f[k]) + 1 <= Cardinality(C(k))
                      /\ IsFiniteSet(C(k))
           Bad == {k \in 1 .. n : ~Good(k)}
<1>4. C(1) = c[1] /\ \A k \in 2 .. n : C(k) = C(k-1) \cup c[k]
  <2>1. 1 .. 1 = {1} /\ \A k \in 2 .. n : 1 .. k = (1 .. (k - 1)) \cup {k}
    OBVIOUS
  <2>2. C(1) = c[1]
    BY <2>1
  <2>3. ASSUME NEW k \in 2 .. n
        PROVE  C(k) = C(k-1) \cup c[k]
    BY <2>1
  <2> QED
    BY <2>2, <2>3
<1>5. ASSUME NEW k \in 2 .. n
      PROVE  C(k-1) \cap c[k] = {}
  <2>1. \A i \in 1 .. (k - 1) : i \in 1 .. n /\ i # k /\ k \in 1 .. n
    OBVIOUS
  <2>2. \A i \in 1 .. (k - 1) : c[i] \cap c[k] = {}
    BY <2>1
  <2> QED
    BY <2>2
<1>6. C(n) \subseteq 1 .. U
  BY <1>1
<1> HIDE DEF C
<1>7. Good(1)
  <2>1. 1 \in 1 .. n
    OBVIOUS
  <2>2. Len(t[1]) + 1 <= Cardinality(c[1])
    BY <2>1
  <2>3. t[1] \in Seq(S) /\ IsFiniteSet(c[1])
    BY <1>1, <2>1
  <2> QED
    BY ONLY <1>3, <1>4, <2>2, <2>3
<1>8. ASSUME NEW k \in 2 .. n, Good(k - 1)
      PROVE  Good(k)
  <2>1. k \in 1 .. n /\ k # 1
    OBVIOUS
  <2>2. /\ t[k] \in Seq(S) /\ Len(t[k]) \in Nat
        /\ IsFiniteSet(c[k]) /\ Cardinality(c[k]) \in Nat
    BY <1>1, <2>1
  <2>3. f[k-1] \in Seq(S) /\ Len(f[k-1]) + 1 <= Cardinality(C(k-1))
        /\ IsFiniteSet(C(k-1))
    BY <1>8
  <2>4. Cardinality(C(k)) = Cardinality(C(k-1)) + Cardinality(c[k])
        /\ IsFiniteSet(C(k)) /\ Cardinality(C(k-1)) \in Nat
    <3>1. IsFiniteSet(C(k-1) \cup c[k])
          /\ Cardinality(C(k-1) \cup c[k]) =
               Cardinality(C(k-1)) + Cardinality(c[k])
                 - Cardinality(C(k-1) \cap c[k])
      BY ONLY <2>2, <2>3, FS_Union
    <3>2. Cardinality(C(k-1) \cap c[k]) = 0
      BY <1>5, FS_EmptySet
    <3>3. Cardinality(C(k-1)) \in Nat
      BY ONLY <2>3, FS_CardinalityType
    <3>4. C(k) = C(k-1) \cup c[k]
      BY <1>4
    <3> QED
      BY ONLY <2>2, <3>1, <3>2, <3>3, <3>4
  <2>5. f[k] = f[k-1] \o t[k]
    BY <1>3
  <2>6. f[k] \in Seq(S) /\ Len(f[k]) = Len(f[k-1]) + Len(t[k])
    BY ONLY <2>2, <2>3, <2>5, ConcatProperties
  <2>7. Len(f[k-1]) \in Nat
    BY ONLY <2>3, LenProperties
  <2>8. Len(t[k]) + 0 <= Cardinality(c[k])
    BY <2>1
  <2>9. Len(f[k]) + 1 <= Cardinality(C(k))
    <3>1. ASSUME NEW a \in Nat, NEW b \in Nat, NEW x \in Nat, NEW y \in Nat,
                 a + 1 <= x, b + 0 <= y
          PROVE  (a + b) + 1 <= x + y
      BY ONLY <3>1
    <3>2. Len(f[k-1]) + 1 <= Cardinality(C(k-1))
      BY <2>3
    <3>3. (Len(f[k-1]) + Len(t[k])) + 1
            <= Cardinality(C(k-1)) + Cardinality(c[k])
      BY ONLY <2>2, <2>4, <2>7, <2>8, <3>1, <3>2
    <3> QED
      BY ONLY <2>4, <2>6, <3>3
  <2> QED
    BY <2>4, <2>6, <2>9
<1>9. Good(n)
  <2> SUFFICES ASSUME ~Good(n)
               PROVE  FALSE
    OBVIOUS
  <2>1. n \in Bad /\ Bad \in SUBSET Nat /\ Bad \subseteq 1 .. n
    OBVIOUS
  <2>2. \A k \in 1 .. n : k \notin Bad => Good(k)
    OBVIOUS
  <2>3. \A k \in Bad : ~Good(k)
    OBVIOUS
  <2> HIDE DEF Bad
  <2>4. PICK k \in Bad : \A m \in Bad : k <= m
    BY ONLY <2>1, LeastNumber
  <2> HIDE DEF Good
  <2>5. k # 1 /\ k \in 1 .. n
    BY <1>7, <2>1, <2>3
  <2>6. k \in 2 .. n /\ k - 1 \in 1 .. n /\ ~(k <= k - 1)
    BY ONLY <2>5, n \in Nat \ {0}
  <2>7. k - 1 \notin Bad
    BY ONLY <2>4, <2>6
  <2>8. Good(k - 1)
    BY ONLY <2>2, <2>6, <2>7
  <2> QED
    BY <1>8, <2>3, <2>6, <2>8
<1>10. f[n] \in Seq(S) /\ Len(f[n]) + 1 <= Cardinality(C(n)) /\ IsFiniteSet(C(n))
  BY <1>9
<1>11. Cardinality(C(n)) <= U
  <2>1. IsFiniteSet(1 .. U) /\ Cardinality(1 .. U) = U
    BY ONLY U \in Nat, FS_Interval
  <2> QED
    BY ONLY <1>6, <2>1, FS_Subset
<1>12. Len(f[n]) \in Nat /\ Cardinality(C(n)) \in Nat
  BY ONLY <1>10, FS_CardinalityType, LenProperties
<1>13. Len(f[n]) + 1 <= U
  BY ONLY <1>10, <1>11, <1>12, U \in Nat
<1> QED
  BY ONLY <1>3, <1>10, <1>13

(* What unique_value writes takes no more room than the strings have in    *)
(* the buffer: each comes with a separator in place of its NUL, at most.   *)
LEMMA UniqueFits ==
  ASSUME str_buf \in Seq(Nat), count \in Nat \ {0}, count <= Cardinality(Nuls),
         NEW s \in SortedFrom(StringPtrs)
  PROVE  /\ UniqueValues(s) \in Seq(Nat \cup {Sep})
         /\ Len(UniqueValues(s)) \in Nat /\ Len(UniqueValues(s)) + 1 <= Used
<1> DEFINE ptr == StringPtrs
           S == Nat \cup {Sep}
<1>0. Used = Len(str_buf) /\ Used \in Nat /\ DOMAIN str_buf = 1 .. Used
  BY NulsCounted DEF Used
<1>n. count \in Nat \ {0}
  OBVIOUS
<1>1. PICK e : Bounds(e)
  BY StringsInARow
<1>2. /\ \A k \in 0 .. count : e[k] \in Nat
      /\ \A k \in 1 .. count : e[k] <= Used
      /\ \A i, k \in 0 .. count : i < k => e[i] < e[k]
      /\ ptr = [k \in 1 .. count |-> SubSeq(str_buf, e[k-1] + 1, e[k] - 1)]
  <2>1. \A k \in 0 .. count : e[k] \in Nat
    BY ONLY <1>1 DEF Bounds
  <2>2. \A k \in 1 .. count : e[k] \in 1 .. Used
    BY ONLY <1>0, <1>1 DEF Bounds
  <2>3. \A k \in 1 .. count : e[k] <= Used
    BY ONLY <1>0, <2>2
  <2>4. \A i, k \in 0 .. count : i < k => e[i] < e[k]
    BY ONLY <1>1 DEF Bounds
  <2>5. ptr = [k \in 1 .. count |-> SubSeq(str_buf, e[k-1] + 1, e[k] - 1)]
    BY ONLY <1>1 DEF Bounds
  <2> QED
    BY ONLY <2>1, <2>3, <2>4, <2>5
<1> HIDE DEF ptr, S
<1>3. PICK p \in [1 .. count -> 1 .. count] :
        IsInjective(p) /\ s = [i \in 1 .. count |-> ptr[p[i]]]
  <2>1. DOMAIN ptr = 1 .. count
    BY <1>2
  <2> QED
    BY <2>1 DEF SortedFrom, ptr
<1>4. ASSUME NEW i \in 1 .. count
      PROVE  /\ p[i] \in 1 .. count
             /\ e[p[i]-1] \in Nat /\ e[p[i]] \in Nat /\ e[p[i]-1] < e[p[i]]
             /\ e[p[i]] <= Used
             /\ s[i] = SubSeq(str_buf, e[p[i]-1] + 1, e[p[i]] - 1)
  <2>0. p[i] \in 1 .. count
    BY ONLY <1>3, i \in 1 .. count
  <2>1. p[i] \in 1 .. count /\ p[i] - 1 \in 0 .. count /\ p[i] \in 0 .. count
        /\ p[i] - 1 < p[i]
    BY ONLY <1>n, <2>0
  <2>2. e[p[i]-1] \in Nat /\ e[p[i]] \in Nat /\ e[p[i]-1] < e[p[i]]
    BY ONLY <1>2, <2>1
  <2>3. e[p[i]] <= Used
    BY ONLY <1>2, <2>1
  <2>4. ptr[p[i]] = SubSeq(str_buf, e[p[i]-1] + 1, e[p[i]] - 1)
    BY ONLY <1>2, <2>1
  <2>5. s[i] = ptr[p[i]]
    BY ONLY <1>3, i \in 1 .. count
  <2> QED
    BY ONLY <2>1, <2>2, <2>3, <2>4, <2>5
<1> DEFINE c == [i \in 1 .. count |-> e[p[i]-1] + 1 .. e[p[i]]]
<1>5. ASSUME NEW i \in 1 .. count
      PROVE  /\ s[i] \in Seq(Nat) /\ Len(s[i]) \in Nat
             /\ Cardinality(c[i]) = Len(s[i]) + 1
             /\ c[i] \subseteq 1 .. Used
  <2> DEFINE a == e[p[i]-1]
             b == e[p[i]]
  <2>1. a \in Nat /\ b \in Nat /\ a < b /\ b <= Len(str_buf)
        /\ s[i] = SubSeq(str_buf, a + 1, b - 1)
    BY ONLY <1>0, <1>4, i \in 1 .. count
  <2>2. c[i] = a + 1 .. b
    BY ONLY i \in 1 .. count
  <2>3. str_buf \in Seq(Nat)
    OBVIOUS
  <2> HIDE DEF a, b, c
  <2>4. /\ s[i] \in Seq(Nat) /\ Len(s[i]) = b - 1 - a
        /\ Cardinality(a + 1 .. b) = b - a
        /\ a + 1 .. b \subseteq 1 .. Len(str_buf)
    BY ONLY <2>1, <2>3, Piece
  <2>5. b - a = (b - 1 - a) + 1 /\ b - 1 - a \in Nat
    BY ONLY <2>1
  <2> QED
    BY ONLY <1>0, <2>2, <2>4, <2>5
<1>6. \A i, k \in 1 .. count : i # k => c[i] \cap c[k] = {}
  <2> SUFFICES ASSUME NEW i \in 1 .. count, NEW k \in 1 .. count, i # k
               PROVE  c[i] \cap c[k] = {}
    OBVIOUS
  <2>1. p[i] # p[k] /\ p[i] \in 1 .. count /\ p[k] \in 1 .. count
    BY <1>3 DEF IsInjective
  <2>2. ASSUME NEW a \in 1 .. count, NEW b \in 1 .. count, a < b
        PROVE  e[a] <= e[b-1]
    <3>1. a \in 0 .. count /\ b - 1 \in 0 .. count /\ (a = b - 1 \/ a < b - 1)
      BY ONLY <1>n, <2>2
    <3>2. e[a] \in Nat /\ e[b-1] \in Nat
      BY ONLY <1>2, <3>1
    <3>3. a < b - 1 => e[a] < e[b-1]
      BY ONLY <1>2, <3>1
    <3>4. a = b - 1 => e[a] = e[b-1]
      OBVIOUS
    <3> QED
      BY ONLY <3>1, <3>2, <3>3, <3>4
  <2> DEFINE ai == e[p[i]-1]
             bi == e[p[i]]
             ak == e[p[k]-1]
             bk == e[p[k]]
  <2>3. bi <= ak \/ bk <= ai
    <3>1. p[i] < p[k] \/ p[k] < p[i]
      BY ONLY <1>n, <2>1
    <3> QED
      BY ONLY <2>1, <2>2, <3>1
  <2>4. ai \in Nat /\ bi \in Nat /\ ak \in Nat /\ bk \in Nat
    BY ONLY <1>4, i \in 1 .. count, k \in 1 .. count
  <2>5. c[i] = ai + 1 .. bi /\ c[k] = ak + 1 .. bk
    BY ONLY i \in 1 .. count, k \in 1 .. count
  <2> HIDE DEF ai, bi, ak, bk, c
  <2> QED
    BY ONLY <2>3, <2>4, <2>5
<1> DEFINE t == [i \in 1 .. count |-> IF ~IsNew(s, i) THEN << >>
                                      ELSE IF i = 1 THEN s[i] ELSE <<Sep>> \o s[i]]
<1>7. UniqueValues(s) = FlattenSeq(t)
  <2>1. DOMAIN s = 1 .. count
    BY ONLY <1>3
  <2> QED
    BY ONLY <2>1 DEF UniqueValues
<1>8. ASSUME NEW i \in 1 .. count
      PROVE  /\ t[i] \in Seq(S)
             /\ Len(t[i]) + (IF i = 1 THEN 1 ELSE 0) <= Cardinality(c[i])
  <2>1. t[i] = IF ~IsNew(s, i) THEN << >>
               ELSE IF i = 1 THEN s[i] ELSE <<Sep>> \o s[i]
    BY ONLY i \in 1 .. count
  <2>2. s[i] \in Seq(Nat) /\ Len(s[i]) \in Nat /\ Cardinality(c[i]) = Len(s[i]) + 1
    BY ONLY <1>5, i \in 1 .. count
  <2> HIDE DEF t, c
  <2>3. s[i] \in Seq(S) /\ <<Sep>> \in Seq(S) /\ Len(<<Sep>>) = 1
        /\ << >> \in Seq(S) /\ Len(<< >>) = 0
    <3>1. Nat \subseteq S /\ Sep \in S
      BY DEF S
    <3>2. s[i] \in Seq(S)
      BY ONLY <2>2, <3>1, SeqMonotonic
    <3> QED
      BY ONLY <3>1, <3>2
  <2>4. <<Sep>> \o s[i] \in Seq(S) /\ Len(<<Sep>> \o s[i]) = 1 + Len(s[i])
    BY ONLY <2>3, ConcatProperties
  <2>5. CASE ~IsNew(s, i)
    BY ONLY <2>1, <2>2, <2>3, <2>5
  <2>6. CASE IsNew(s, i) /\ i = 1
    BY ONLY <2>1, <2>2, <2>3, <2>6
  <2>7. CASE IsNew(s, i) /\ i # 1
    BY ONLY <2>1, <2>2, <2>4, <2>7
  <2> QED
    BY ONLY <2>5, <2>6, <2>7
<1>9. t \in [1 .. count -> Seq(S)]
  BY <1>8
<1>10. c \in [1 .. count -> SUBSET (1 .. Used)]
  BY <1>5
<1> HIDE DEF t, c
<1>11. FlattenSeq(t) \in Seq(S) /\ Len(FlattenSeq(t)) + 1 <= Used
  BY ONLY <1>0, <1>n, <1>6, <1>8, <1>9, <1>10, Packed
<1>12. Len(FlattenSeq(t)) \in Nat
  BY ONLY <1>11, LenProperties
<1> QED
  BY ONLY <1>7, <1>11, <1>12 DEF S

-----------------------------------------------------------------------------
(* The result fits: OutRoom adds to IInv what out_buf has room for at the  *)
(* least, and how the strings' buffer ends and is divided.                 *)

NulPositions(s) == {q \in DOMAIN s : s[q] = NUL}

OutRoom ==
  /\ out_buf_alloc \in Nat /\ touched.out \in Nat
  /\ op \in StringResult => out_buf_alloc >= 2
  /\ Used > 0 => str_buf[Used] = NUL
  /\ op \in Lists => count <= Cardinality(Nuls)
  /\ op = "softmax" => num_values = count
  /\ ResultInBounds

(* One more string, one more NUL, at the end.                              *)
LEMMA OneMoreNul ==
  ASSUME NEW kept \in Seq(Nat), NEW str \in Seq(Nat),
         NEW s, s = Append(kept \o str, NUL)
  PROVE  /\ s \in Seq(Nat) /\ Len(s) = Len(kept) + Len(str) + 1
         /\ s[Len(s)] = NUL
         /\ Cardinality(NulPositions(kept)) \in Nat
         /\ Cardinality(NulPositions(s)) \in Nat
         /\ Cardinality(NulPositions(kept)) + 1 <= Cardinality(NulPositions(s))
<1>1. kept \o str \in Seq(Nat) /\ Len(kept \o str) = Len(kept) + Len(str)
      /\ Len(kept) \in Nat /\ Len(str) \in Nat
      /\ \A i \in 1 .. Len(kept) : (kept \o str)[i] = kept[i]
  BY ConcatProperties, LenProperties
<1>2. NUL \in Nat
  BY DEF NUL
<1>3. s \in Seq(Nat) /\ Len(s) = Len(kept) + Len(str) + 1
      /\ s[Len(s)] = NUL /\ \A i \in 1 .. Len(kept) : s[i] = kept[i]
  <2>1. /\ s \in Seq(Nat) /\ Len(s) = Len(kept \o str) + 1
        /\ \A i \in 1 .. Len(kept \o str) : s[i] = (kept \o str)[i]
        /\ s[Len(kept \o str) + 1] = NUL
    BY <1>1, <1>2, AppendProperties
  <2>2. \A i \in 1 .. Len(kept) : i \in 1 .. Len(kept \o str)
    BY ONLY <1>1
  <2> QED
    BY ONLY <1>1, <2>1, <2>2
<1>4. DOMAIN kept = 1 .. Len(kept) /\ DOMAIN s = 1 .. Len(s) /\ Len(s) \in Nat
  BY ONLY <1>1, <1>3, kept \in Seq(Nat), LenProperties
<1>5. /\ NulPositions(kept) \subseteq 1 .. Len(kept)
      /\ NulPositions(s) \subseteq 1 .. Len(s)
      /\ Len(s) \in NulPositions(s) /\ Len(s) \notin NulPositions(kept)
      /\ NulPositions(kept) \subseteq NulPositions(s)
  BY ONLY <1>1, <1>3, <1>4 DEF NulPositions
<1>6. IsFiniteSet(NulPositions(kept)) /\ IsFiniteSet(NulPositions(s))
  <2>1. IsFiniteSet(1 .. Len(kept)) /\ IsFiniteSet(1 .. Len(s))
    BY ONLY <1>1, <1>4, FS_Interval
  <2> QED
    BY ONLY <1>5, <2>1, FS_Subset
<1>7. /\ IsFiniteSet(NulPositions(kept) \cup {Len(s)})
      /\ Cardinality(NulPositions(kept) \cup {Len(s)})
           = Cardinality(NulPositions(kept)) + 1
  BY ONLY <1>5, <1>6, FS_AddElement
<1>8. Cardinality(NulPositions(kept) \cup {Len(s)}) <= Cardinality(NulPositions(s))
  <2>1. NulPositions(kept) \cup {Len(s)} \subseteq NulPositions(s)
    BY ONLY <1>5
  <2> QED
    BY ONLY <1>6, <2>1, FS_Subset
<1>9. Cardinality(NulPositions(kept)) \in Nat /\ Cardinality(NulPositions(s)) \in Nat
  BY ONLY <1>6, FS_CardinalityType
<1>10. Cardinality(NulPositions(kept)) + 1 <= Cardinality(NulPositions(s))
  BY ONLY <1>7, <1>8
<1> QED
  BY ONLY <1>3, <1>9, <1>10

(* What comes before the first NUL of a sequence that ends in NUL.         *)
LEMMA CStringFits ==
  ASSUME NEW s \in Seq(Nat), Len(s) > 0, s[Len(s)] = NUL
  PROVE  CString(s) \in Seq(Nat) /\ Len(CString(s)) \in Nat
         /\ Len(CString(s)) + 1 <= Len(s)
<1>1. Len(s) \in Nat /\ DOMAIN s = 1 .. Len(s)
  BY LenProperties
<1>2. Len(s) \in NulPositions(s) /\ NulPositions(s) \subseteq 1 .. Len(s)
  BY <1>1 DEF NulPositions
<1>3. PICK m \in NulPositions(s) : \A k \in NulPositions(s) : m <= k
  <2>1. NulPositions(s) \in SUBSET Nat /\ NulPositions(s) # {}
    BY ONLY <1>1, <1>2
  <2> QED
    BY ONLY <2>1, LeastNumber
<1>4. m \in 1 .. Len(s) /\ s[m] = NUL
  BY ONLY <1>2, <1>3 DEF NulPositions
<1>5. m - 1 \in 0 .. (Len(s) - 1) /\ s[(m - 1) + 1] = NUL
      /\ \A i \in 1 .. (m - 1) : s[i] # NUL
  <2>1. m - 1 \in 0 .. (Len(s) - 1) /\ (m - 1) + 1 = m
    BY ONLY <1>1, <1>4
  <2>2. ASSUME NEW i \in 1 .. (m - 1), s[i] = NUL
        PROVE  FALSE
    <3>1. i \in 1 .. Len(s) /\ ~(m <= i)
      BY ONLY <1>1, <1>4, i \in 1 .. (m - 1)
    <3>2. i \in NulPositions(s)
      BY <1>1, <2>2, <3>1 DEF NulPositions
    <3> QED
      BY ONLY <1>3, <3>1, <3>2
  <2> QED
    BY <1>4, <2>1, <2>2
<1> DEFINE First(n) == s[n + 1] = NUL /\ \A i \in 1 .. n : s[i] # NUL
           d == CHOOSE n \in 0 .. Len(s) - 1 : First(n)
<1>6. d \in 0 .. (Len(s) - 1)
  <2>1. \E n \in 0 .. Len(s) - 1 : First(n)
    BY <1>5
  <2> HIDE DEF First
  <2> QED
    BY <2>1
<1>7. CString(s) = SubSeq(s, 1, d)
  <2>1. \E i \in DOMAIN s : s[i] = NUL
    BY <1>1, <1>4
  <2> QED
    BY <2>1 DEF CString
<1> HIDE DEF d
<1>8. \A i \in 1 .. d : s[i] \in Nat
  BY <1>1, <1>6
<1>9. 1 \in Int /\ d \in Int
  BY <1>1, <1>6
<1>10. SubSeq(s, 1, d) \in Seq(Nat)
       /\ Len(SubSeq(s, 1, d)) = IF 1 <= d THEN d - 1 + 1 ELSE 0
  BY ONLY <1>8, <1>9, SubSeqProperties
<1> QED
  BY ONLY <1>1, <1>6, <1>7, <1>10

(* A part of a sequence is no longer than the sequence.                    *)
LEMMA PartFits ==
  ASSUME NEW s \in Seq(Nat), NEW a \in Nat \ {0}, NEW b \in Nat, b <= Len(s)
  PROVE  SubSeq(s, a, b) \in Seq(Nat) /\ Len(SubSeq(s, a, b)) \in 0 .. Len(s)
<1>1. Len(s) \in Nat /\ \A i \in a .. b : s[i] \in Nat
  <2>1. Len(s) \in Nat
    BY LenProperties
  <2> QED
    BY <2>1
<1>2. a \in Int /\ b \in Int
  OBVIOUS
<1>3. SubSeq(s, a, b) \in Seq(Nat)
      /\ Len(SubSeq(s, a, b)) = IF a <= b THEN b - a + 1 ELSE 0
  BY ONLY <1>1, <1>2, SubSeqProperties
<1> QED
  BY ONLY <1>1, <1>3, a \in Nat \ {0}, b \in Nat, b <= Len(s)

(* What dirname and its like return fits into what is reserved, the length *)
(* of the string, or into the two bytes there are at least.                *)
LEMMA PartsFit ==
  ASSUME NEW s \in Seq(Nat), Len(s) > 0, s[Len(s)] = NUL,
         NEW t \in PartsOf(s)
  PROVE  t \in Seq(Nat) /\ Len(t) \in Nat /\ (Len(t) + 1 <= Len(s) \/ Len(t) = 1)
<1>1. CASE t = <<46>> \/ t = <<47>>
  <2>1. PICK c \in Nat : t = <<c>>
    BY <1>1
  <2>2. <<c>> \in Seq(Nat) /\ Len(<<c>>) = 1 /\ 1 \in Nat
    OBVIOUS
  <2> QED
    BY ONLY <2>1, <2>2
<1>2. CASE t \in SubSeqs(CString(s))
  <2> DEFINE c == CString(s)
  <2>1. c \in Seq(Nat) /\ Len(c) \in Nat /\ Len(c) + 1 <= Len(s)
    BY CStringFits
  <2>2. PICK i \in 0 .. Len(c), j \in 0 .. Len(c) : t = SubSeq(c, i + 1, j)
    BY <1>2 DEF SubSeqs
  <2> HIDE DEF c
  <2>3. i + 1 \in Nat \ {0} /\ j \in Nat /\ j <= Len(c)
    BY ONLY <2>1, <2>2
  <2>4. t \in Seq(Nat) /\ Len(t) \in 0 .. Len(c)
    BY ONLY <2>1, <2>2, <2>3, PartFits
  <2>5. Len(s) \in Nat
    BY LenProperties
  <2> QED
    BY ONLY <2>1, <2>4, <2>5
<1> QED
  BY <1>1, <1>2 DEF PartsOf

(* What is written fits if it fits into what there is or what is reserved. *)
LEMMA ResultFits ==
  ASSUME IInv, OutRoom,
         op' = op, count' = count, str_buf' = str_buf, num_values' = num_values,
         NEW minsize \in Nat, out_buf_alloc' = Reserved(minsize),
         touched'.out \in Nat,
         touched'.out <= minsize \/ touched'.out <= out_buf_alloc
  PROVE  OutRoom'
<1>1. /\ out_buf_alloc \in Nat
      /\ op \in StringResult => out_buf_alloc >= 2
  BY DEF OutRoom
<1>2. /\ out_buf_alloc' \in Nat /\ out_buf_alloc' >= out_buf_alloc
      /\ out_buf_alloc' >= minsize
  BY <1>1 DEF Reserved, Largest
<1>3. ResultInBounds'
  BY <1>1, <1>2 DEF ResultInBounds
<1>4. op' \in StringResult => out_buf_alloc' >= 2
  BY <1>1, <1>2
<1>5. Used' = Used /\ Nuls' = Nuls
  BY DEF Used, Nuls
<1> QED
  BY <1>2, <1>3, <1>4, <1>5 DEF OutRoom

(* field_op_summarize reserves what it writes.                             *)
LEMMA SummarizeFits ==
  ASSUME IInv, OutRoom, Summarize
  PROVE  OutRoom'
<1>1. op' = op /\ count' = count /\ str_buf' = str_buf /\ num_values' = num_values
  BY DEF Summarize
<1>2. /\ Used \in Nat /\ num_values \in Nat /\ count \in Nat /\ str_buf \in Seq(Nat)
      /\ out_buf_alloc \in Nat /\ Used = Len(str_buf)
      /\ op \in StringResult => out_buf_alloc >= 2
      /\ NumSize \in Nat \ {0} /\ Digest \in Nat
  BY OpBuffersAssumption DEF IInv, TypeOK, OutRoom, Used
<1>3. ASSUME NEW minsize \in Nat, NEW writes \in Nat, NEW printed, NEW reads,
             Result(printed, minsize, reads, writes),
             writes <= minsize \/ writes <= out_buf_alloc
      PROVE  OutRoom'
  <2>1. out_buf_alloc' = Reserved(minsize) /\ touched'.out = writes
    BY <1>3 DEF Result
  <2> QED
    BY <1>1, <1>3, <2>1, ResultFits
<1>4. ASSUME NEW n, PrintNumber(n)
      PROVE  OutRoom'
  <2>1. Result(<<n>>, NumSize, Used, NumSize)
    BY <1>4 DEF PrintNumber
  <2> QED
    BY <1>2, <1>3, <2>1
<1>5. CASE count = 0
  <2>1. SummarizeEmpty
    BY <1>5 DEF Summarize
  <2>2. CASE op \in StringResult \ {"softmax", "last"} /\ Result(<< >>, 1, 0, 1)
    BY <1>3, <2>2
  <2>3. CASE op = "last" /\ Result(<<78, 47, 65>>, 4, 0, 4)
    BY <1>3, <2>3
  <2>4. CASE op = "softmax" /\ Result(out_buf, 0, 0, 0)
    BY <1>3, <2>4
  <2>5. CASE op \notin StringResult /\ PrintNumber(0)
    BY <1>4, <2>5
  <2> QED
    BY <2>1, <2>2, <2>3, <2>4, <2>5 DEF SummarizeEmpty
<1>6. ASSUME count # 0
      PROVE  /\ count > 0 /\ count \in Nat \ {0}
             /\ op \in Latest =>
                  Used > 0 /\ str_buf[Used] = NUL /\ out_buf_alloc >= 2
             /\ op \in Lists => count <= Cardinality(Nuls)
             /\ op = "softmax" => num_values = count
  <2>1. count > 0 /\ count \in Nat \ {0}
    BY <1>2, <1>6
  <2>2. op \in Latest => op \in StringResult
    BY DEF Latest, Paths, StringResult, Operation
  <2> QED
    BY <1>2, <2>1, <2>2 DEF IInv, Room, OutRoom
<1>7. CASE count # 0 /\ SummarizeLast
  <2>1. Result(CString(str_buf), Used, Used, Used)
    BY <1>7 DEF SummarizeLast
  <2> QED
    BY <1>2, <1>3, <2>1
<1>8. CASE count # 0 /\ SummarizeLists
  <2>1. CASE op = "unique"
    <3>1. PICK s \in SortedFrom(StringPtrs) :
            Result(UniqueValues(s), Used, Used, Len(UniqueValues(s)) + 1)
      BY <1>8, <2>1 DEF SummarizeLists
    <3>2. count \in Nat \ {0} /\ count <= Cardinality(Nuls)
      BY <1>6, <1>8, <2>1 DEF Lists
    <3>3. Len(UniqueValues(s)) + 1 \in Nat /\ Len(UniqueValues(s)) + 1 <= Used
      BY <1>2, <3>2, UniqueFits
    <3> QED
      BY <1>2, <1>3, <3>1, <3>3
  <2>2. CASE op = "countunique"
    BY <1>4, <1>8, <2>2 DEF SummarizeLists
  <2>3. CASE op = "collapse"
    <3>1. Result(CollapsedValues, Used, Used, Used)
      BY <1>8, <2>3 DEF SummarizeLists
    <3> QED
      BY <1>2, <1>3, <3>1
  <2> QED
    BY <1>8, <2>1, <2>2, <2>3 DEF SummarizeLists
<1>9. CASE count # 0 /\ SummarizeEncoded
  <2>1. CASE op = "digest" /\ Result(<< >>, 2 * Digest + 1, Used - 1, 2 * Digest + 1)
    <3>1. 2 * Digest + 1 \in Nat
      BY <1>2
    <3> QED
      BY <1>3, <2>1, <3>1
  <2>2. CASE op = "base64"
    <3> DEFINE len == 4 * ((Used - 1 + 2) \div 3)
    <3>1. Result(<< >>, len + 1, Used - 1, len + 1)
      BY <1>9, <2>2 DEF SummarizeEncoded
    <3>2. len + 1 \in Nat
      BY <1>2
    <3> HIDE DEF len
    <3> QED
      BY <1>3, <3>1, <3>2
  <2> QED
    BY <1>9, <2>1, <2>2 DEF SummarizeEncoded
<1>10. ASSUME op \in Latest, count # 0, NEW t \in PartsOf(str_buf)
       PROVE  /\ t \in Seq(Nat) /\ Len(t) \in Nat
              /\ Len(t) + 1 <= Used \/ Len(t) + 1 <= out_buf_alloc
  <2>1. Used > 0 /\ str_buf[Used] = NUL /\ out_buf_alloc >= 2
    BY <1>6, <1>10
  <2>2. t \in Seq(Nat) /\ Len(t) \in Nat /\ (Len(t) + 1 <= Len(str_buf) \/ Len(t) = 1)
    BY <1>2, <2>1, PartsFit
  <2>3. Len(t) = 1 => Len(t) + 1 <= out_buf_alloc
    BY ONLY <1>2, <2>1, <2>2
  <2>4. Len(t) + 1 <= Len(str_buf) => Len(t) + 1 <= Used
    BY <1>2
  <2> QED
    BY ONLY <2>2, <2>3, <2>4
<1>11. CASE count # 0 /\ SummarizeDirname
  <2>1. PICK t \in PartsOf(str_buf) : Result(t, Used, Used + 1, Len(t) + 1)
    BY <1>11 DEF SummarizeDirname
  <2>2. op \in Latest
    BY <1>11 DEF SummarizeDirname, Latest, Paths
  <2>3. Len(t) + 1 \in Nat /\ (Len(t) + 1 <= Used \/ Len(t) + 1 <= out_buf_alloc)
    BY <1>10, <1>11, <2>2
  <2> QED
    BY <1>2, <1>3, <2>1, <2>3
<1>12. CASE count # 0 /\ SummarizeBasename
  <2>1. op \in Latest /\ op \in {"basename", "extname", "barename"}
    BY <1>12 DEF SummarizeBasename, Latest, Paths
  <2>2. CASE Result(<< >>, 1, 1, 1)
    BY <1>3, <2>2
  <2>3. CASE \E t \in PartsOf(str_buf) : \E len \in 0 .. Len(t) :
               LET name == SubSeq(t, 1, Len(t) - len)
                   ext  == SubSeq(t, Len(t) - len + 2, Len(t))
                   printed  == CASE op = "basename" -> t
                             [] op = "extname"  -> ext
                             [] op = "barename" -> name
               IN  Result(printed, Used, Used + 1, Len(printed) + 1)
    <3> DEFINE name(t, len) == SubSeq(t, 1, Len(t) - len)
               ext(t, len) == SubSeq(t, Len(t) - len + 2, Len(t))
               printed(t, len) == CASE op = "basename" -> t
                                [] op = "extname"  -> ext(t, len)
                                [] op = "barename" -> name(t, len)
    <3>p. PICK t \in PartsOf(str_buf) : \E len \in 0 .. Len(t) :
            Result(printed(t, len), Used, Used + 1, Len(printed(t, len)) + 1)
      BY <2>3
    <3>l. PICK len \in 0 .. Len(t) :
            Result(printed(t, len), Used, Used + 1, Len(printed(t, len)) + 1)
      BY <3>p
    <3>1. PICK o \in {t, name(t, len), ext(t, len)} :
            Result(o, Used, Used + 1, Len(o) + 1)
      <4>1. printed(t, len) \in {t, name(t, len), ext(t, len)}
        BY <2>1
      <4> HIDE DEF printed
      <4> QED
        BY <3>l, <4>1
    <3>2. t \in Seq(Nat) /\ Len(t) \in Nat
          /\ (Len(t) + 1 <= Used \/ Len(t) + 1 <= out_buf_alloc)
      BY <1>10, <1>12, <2>1
    <3>3. 1 \in Nat \ {0} /\ Len(t) - len \in Nat /\ Len(t) - len <= Len(t)
          /\ Len(t) - len + 2 \in Nat \ {0} /\ Len(t) <= Len(t)
      BY <3>2
    <3>4. Len(SubSeq(t, 1, Len(t) - len)) \in 0 .. Len(t)
          /\ Len(SubSeq(t, Len(t) - len + 2, Len(t))) \in 0 .. Len(t)
      BY ONLY <3>2, <3>3, PartFits
    <3>5. Len(o) \in 0 .. Len(t)
      BY <3>1, <3>2, <3>4
    <3>6. Len(o) + 1 \in Nat
          /\ (Len(o) + 1 <= Used \/ Len(o) + 1 <= out_buf_alloc)
      BY ONLY <1>2, <3>2, <3>5
    <3> QED
      BY <1>2, <1>3, <3>1, <3>6
  <2> QED
    BY <1>12, <2>2, <2>3 DEF SummarizeBasename
<1>13. CASE count # 0 /\ SummarizeNumbers
  <2>1. CASE op \in {"median", "sum"} /\ PrintNumber(0)
    BY <1>4, <2>1
  <2>2. CASE /\ op = "softmax"
             /\ Result(<< >>, (NumSize + 1) * num_values - 1, 0,
                       Largest((NumSize + 1) * num_values - 1, NumSize * num_values))
    <3> DEFINE printed == NumSize * num_values
    <3>1. num_values \in Nat \ {0}
      BY <1>6, <1>13, <2>2
    <3>2. printed \in Nat /\ (NumSize + 1) * num_values = printed + num_values
      <4>1. \A a, b \in Nat : a * b \in Nat /\ (a + 1) * b = a * b + b
        OBVIOUS
      <4> QED
        BY <1>2, <3>1, <4>1
    <3>3. Result(<< >>, (printed + num_values) - 1, 0,
                 Largest((printed + num_values) - 1, printed))
      <4> DEFINE all == (NumSize + 1) * num_values - 1
      <4>1. Result(<< >>, all, 0, Largest(all, printed))
        BY <2>2
      <4> HIDE DEF printed
      <4>2. all = (printed + num_values) - 1
        BY ONLY <3>2
      <4> HIDE DEF all
      <4> QED
        BY <4>1, <4>2
    <3> HIDE DEF printed
    <3>4. (printed + num_values) - 1 \in Nat /\ printed <= (printed + num_values) - 1
      BY <3>1, <3>2
    <3>5. Largest((printed + num_values) - 1, printed) = (printed + num_values) - 1
      BY <3>4 DEF Largest
    <3> QED
      BY <1>3, <3>2, <3>3, <3>4, <3>5
  <2> QED
    BY <1>13, <2>1, <2>2 DEF SummarizeNumbers
<1>14. CASE touched' = [str |-> 0, val |-> 0, out |-> 0] /\ out_buf_alloc' = out_buf_alloc
  <2>1. out_buf_alloc' = Reserved(0) /\ touched'.out = 0 /\ 0 <= out_buf_alloc
    BY <1>2, <1>14 DEF Reserved, Largest
  <2> QED
    BY <1>1, <2>1, ResultFits
<1> QED
  BY <1>5, <1>7, <1>8, <1>9, <1>11, <1>12, <1>13, <1>14 DEF Summarize

LEMMA InitFits == Init => OutRoom
<1> SUFFICES ASSUME Init PROVE OutRoom
  OBVIOUS
<1>1. out_buf_alloc \in Nat /\ (op \in StringResult => out_buf_alloc >= 2)
      /\ touched.out = 0
  BY OpBuffersAssumption DEF Init
<1>2. str_buf = << >> /\ count = 0 /\ num_values = 0
  BY DEF Init
<1>3. Used = 0
  BY <1>2 DEF Used
<1>4. 0 <= Cardinality(Nuls)
  BY <1>2, NulsCounted
<1> QED
  BY <1>1, <1>2, <1>3, <1>4 DEF OutRoom, ResultInBounds

(* field_op_collect writes to out_buf only what it decodes.                *)
LEMMA CollectFits ==
  ASSUME IInv, OutRoom, NEW str \in Inputs, Collect(str)
  PROVE  OutRoom'
<1>1. str \in Seq(Nat) /\ op' = op /\ count' = count + 1
  BY OpBuffersAssumption DEF Collect
<1>2. /\ count \in Nat /\ str_buf \in Seq(Nat) /\ num_values \in Nat
      /\ out_buf_alloc \in Nat /\ (op \in StringResult => out_buf_alloc >= 2)
      /\ Used > 0 => str_buf[Used] = NUL
      /\ op \in Lists => count <= Cardinality(Nuls)
      /\ op = "softmax" => num_values = count
  BY DEF IInv, TypeOK, OutRoom
<1>3. ASSUME NEW kept \in Seq(Nat), Store(kept, str),
             op \in Lists => kept = str_buf, op # "softmax",
             out_buf_alloc' = out_buf_alloc
      PROVE  OutRoom'
  <2>1. str_buf' = Append(kept \o str, NUL) /\ touched'.out = 0
    BY <1>3 DEF Store
  <2>2. /\ str_buf' \in Seq(Nat) /\ str_buf'[Len(str_buf')] = NUL
        /\ Cardinality(NulPositions(kept)) \in Nat
        /\ Cardinality(NulPositions(str_buf')) \in Nat
        /\ Cardinality(NulPositions(kept)) + 1 <= Cardinality(NulPositions(str_buf'))
    BY <1>1, <1>3, <2>1, OneMoreNul
  <2>3. op \in Lists => count' <= Cardinality(NulPositions(str_buf'))
    <3>1. op \in Lists => count <= Cardinality(NulPositions(kept))
      BY <1>2, <1>3 DEF Nuls, NulPositions
    <3> QED
      BY ONLY <1>1, <1>2, <2>2, <3>1
  <2>4. Used' = Len(str_buf') /\ Nuls' = NulPositions(str_buf')
    BY DEF Used, Nuls, NulPositions
  <2>5. ResultInBounds'
    BY <1>2, <1>3, <2>1 DEF ResultInBounds
  <2> QED
    BY <1>1, <1>2, <1>3, <2>1, <2>2, <2>3, <2>4, <2>5 DEF OutRoom
<1>4. ASSUME op \notin Lists, str_buf' = str_buf,
             op = "softmax" => num_values' = count',
             touched'.out \in Nat, out_buf_alloc' \in Nat,
             touched'.out <= out_buf_alloc', out_buf_alloc <= out_buf_alloc'
      PROVE  OutRoom'
  <2>1. Used' = Used /\ str_buf'[Used'] = str_buf[Used]
    BY <1>4 DEF Used
  <2>2. op' \in StringResult => out_buf_alloc' >= 2
    BY <1>1, <1>2, <1>4
  <2> QED
    BY <1>1, <1>2, <1>4, <2>1, <2>2 DEF OutRoom, ResultInBounds
<1>5. CASE /\ AddString(str) \/ ReplaceString(str)
           /\ UNCHANGED <<num_values, alloc_values, out_buf, out_buf_alloc>>
  <2>1. CASE AddString(str)
    BY <1>2, <1>3, <1>5, <2>1 DEF AddString, Lists
  <2>2. CASE ReplaceString(str)
    <3>1. << >> \in Seq(Nat) /\ Store(<< >>, str) /\ op \notin Lists /\ op # "softmax"
      BY <2>2 DEF ReplaceString, Lists, Latest, Paths
    <3> QED
      BY <1>3, <1>5, <3>1
  <2> QED
    BY <1>5, <2>1, <2>2
<1>6. CASE /\ AddValue
           /\ UNCHANGED <<str_buf, str_buf_alloc, out_buf, out_buf_alloc>>
  <2>1. /\ op \notin Lists /\ num_values' = num_values + 1 /\ touched'.out = 0
    BY <1>6 DEF AddValue, Vectors, Lists
  <2> QED
    BY <1>1, <1>2, <1>4, <1>6, <2>1
<1>7. CASE /\ Decode(str)
           /\ UNCHANGED <<str_buf, str_buf_alloc, num_values, alloc_values>>
  <2>1. op = "debase64" /\ out_buf_alloc' = Reserved(Len(str))
    BY <1>7 DEF Decode
  <2>2. PICK n \in 0 .. Len(str) :
          4 * n <= 3 * Len(str) /\ out_buf' = SubSeq(str, 1, n)
    BY <1>7 DEF Decode
  <2>3. Len(str) \in Nat /\ 1 \in Nat \ {0} /\ n \in Nat /\ n <= Len(str)
        /\ \A i \in 1 .. n : str[i] \in Nat
    <3>1. Len(str) \in Nat
      BY <1>1, LenProperties
    <3> QED
      BY <1>1, <3>1
  <2>4. Len(out_buf') = n
    <3>1. Len(SubSeq(str, 1, n)) = IF 1 <= n THEN n - 1 + 1 ELSE 0
      <4>1. 1 \in Int /\ n \in Int
        BY <2>3
      <4> QED
        BY ONLY <2>3, <4>1, SubSeqProperties
    <3> QED
      BY ONLY <2>2, <2>3, <3>1
  <2>5. touched'.out = n + 1
    BY <1>7, <2>4 DEF Decode
  <2>6. out_buf_alloc >= 2
    BY <1>2, <2>1 DEF StringResult, Operation
  <2>7. out_buf_alloc' \in Nat /\ out_buf_alloc <= out_buf_alloc'
        /\ Len(str) <= out_buf_alloc'
    BY ONLY <1>2, <2>1, <2>3 DEF Reserved, Largest
  <2>8. n + 1 \in Nat /\ n + 1 <= out_buf_alloc'
    <3>1. n = 0 \/ n + 1 <= Len(str)
      BY ONLY <2>2, <2>3
    <3> QED
      BY ONLY <1>2, <2>3, <2>6, <2>7, <3>1
  <2> QED
    BY <1>4, <1>7, <2>1, <2>5, <2>7, <2>8 DEF Lists
<1>8. CASE /\ op = "sum"
           /\ touched' = [str |-> 0, val |-> 0, out |-> 0]
           /\ UNCHANGED <<str_buf, str_buf_alloc, num_values, alloc_values,
                          out_buf, out_buf_alloc>>
  <2>1. op \notin Lists /\ touched'.out = 0 /\ op # "softmax"
    BY <1>8 DEF Lists
  <2> QED
    BY <1>2, <1>4, <1>8, <2>1
<1> QED
  BY <1>5, <1>6, <1>7, <1>8 DEF Collect

LEMMA ResetFits ==
  ASSUME IInv, OutRoom, Reset
  PROVE  OutRoom'
<1>1. /\ op' = op /\ count' = 0 /\ str_buf' = << >> /\ num_values' = 0
      /\ out_buf_alloc' = out_buf_alloc /\ touched'.out = 0
  BY DEF Reset
<1>2. out_buf_alloc \in Nat /\ (op \in StringResult => out_buf_alloc >= 2)
  BY DEF OutRoom
<1>3. Used' = 0 /\ Nuls' = NulPositions(<< >>)
  BY <1>1 DEF Used, Nuls, NulPositions
<1>4. Cardinality(NulPositions(<< >>)) = 0
  <2>1. NulPositions(<< >>) = {}
    BY DEF NulPositions
  <2> QED
    BY <2>1, FS_EmptySet
<1> QED
  BY <1>1, <1>2, <1>3, <1>4 DEF OutRoom, ResultInBounds

LEMMA StutterFits ==
  ASSUME OutRoom, UNCHANGED vars
  PROVE  OutRoom'
BY DEF OutRoom, ResultInBounds, Used, Nuls, vars

(* Every result fits into the buffer reserved for it, whatever the strings *)
(* and the groups before (field_op_summarize, field_op_collect).           *)
THEOREM ResultsNeverOverrun == Spec => []ResultInBounds
<1>1. Init => IInv /\ OutRoom
  BY InitInv, InitFits
<1>2. IInv /\ OutRoom /\ [Next]_vars => (IInv /\ OutRoom)'
  <2>1. IInv /\ [Next]_vars => IInv'
    BY CollectKeeps, SummarizeKeeps, ResetKeeps, StutterKeeps DEF Next
  <2>2. IInv /\ OutRoom /\ [Next]_vars => OutRoom'
    BY CollectFits, SummarizeFits, ResetFits, StutterFits DEF Next
  <2> QED
    BY <2>1, <2>2
<1>3. IInv /\ OutRoom => ResultInBounds
  BY DEF OutRoom
<1> QED
  BY <1>1, <1>2, <1>3, PTL DEF Spec

-----------------------------------------------------------------------------
(* The lists come out of the bytes of the buffer as they were collected.   *)

(* What holds for b, and for each number with the one before, holds up     *)
(* to n.                                                                   *)
LEMMA StepsFrom ==
  ASSUME NEW b \in Nat, NEW n \in Nat, NEW S, b \in S,
         \A k \in b + 1 .. n : k - 1 \in S => k \in S
  PROVE  \A k \in b .. n : k \in S
<1> DEFINE Bad == {k \in b .. n : k \notin S}
<1> SUFFICES ASSUME Bad # {}
             PROVE  FALSE
  OBVIOUS
<1>1. Bad \in SUBSET Nat
  OBVIOUS
<1>2. PICK k \in Bad : \A m \in Bad : k <= m
  <2> HIDE DEF Bad
  <2> QED
    BY ONLY <1>1, Bad # {}, LeastNumber
<1>3. k \in b .. n /\ k \notin S
  OBVIOUS
<1>4. k # b
  BY <1>3
<1>5. k \in b + 1 .. n /\ k - 1 \in b .. n /\ ~(k <= k - 1)
  BY ONLY <1>3, <1>4, b \in Nat, n \in Nat
<1>6. k - 1 \notin Bad
  BY ONLY <1>2, <1>5
<1>7. k - 1 \in S
  BY ONLY <1>5, <1>6
<1> QED
  BY <1>3, <1>5, <1>7

(* FlattenSeq is what is concatenated step by step.                        *)
Builds(g, seqs, n) ==
  g[1] = seqs[1] /\ \A i \in 2 .. n : g[i] = g[i-1] \o seqs[i]

LEMMA FlattenedBy ==
  ASSUME NEW seqs, NEW n \in Nat \ {0}, Len(seqs) = n, NEW g,
         Builds(g, seqs, n)
  PROVE  FlattenSeq(seqs) = g[n]
<1>1. PICK f : /\ f[1] = seqs[1]
               /\ \A i \in 2 .. n : f[i] = f[i-1] \o seqs[i]
               /\ FlattenSeq(seqs) = f[n]
  BY FlattenSeqIs
<1>g. g[1] = seqs[1] /\ \A i \in 2 .. n : g[i] = g[i-1] \o seqs[i]
  BY DEF Builds
<1> DEFINE S == {i \in 1 .. n : f[i] = g[i]}
<1>2. 1 \in S
  BY <1>1, <1>g
<1>3. \A k \in 1 + 1 .. n : k - 1 \in S => k \in S
  <2> SUFFICES ASSUME NEW k \in 1 + 1 .. n, k - 1 \in S
               PROVE  k \in S
    OBVIOUS
  <2>1. k \in 2 .. n /\ k \in 1 .. n
    BY ONLY k \in 1 + 1 .. n, n \in Nat \ {0}
  <2>2. f[k-1] = g[k-1]
    OBVIOUS
  <2>3. f[k] = f[k-1] \o seqs[k] /\ g[k] = g[k-1] \o seqs[k]
    BY <1>1, <1>g, <2>1
  <2> QED
    BY <2>1, <2>2, <2>3
<1>4. n \in 1 .. n /\ 1 \in Nat /\ n \in Nat
  OBVIOUS
<1> HIDE DEF S
<1>5. n \in S
  BY ONLY <1>2, <1>3, <1>4, StepsFrom
<1> QED
  BY <1>1, <1>5 DEF S

(* The lengths and members of sequences put one behind the other.          *)
LEMMA ConcatIs ==
  ASSUME NEW S, NEW s \in Seq(S), NEW t \in Seq(S)
  PROVE  /\ s \o t \in Seq(S) /\ Len(s \o t) = Len(s) + Len(t)
         /\ Len(s) \in Nat /\ Len(t) \in Nat
         /\ DOMAIN s = 1 .. Len(s) /\ DOMAIN t = 1 .. Len(t)
         /\ DOMAIN (s \o t) = 1 .. Len(s) + Len(t)
         /\ \A i \in 1 .. Len(s) : (s \o t)[i] = s[i]
         /\ \A i \in 1 .. Len(t) : (s \o t)[Len(s) + i] = t[i]
<1>1. Len(s) \in Nat /\ Len(t) \in Nat
      /\ DOMAIN s = 1 .. Len(s) /\ DOMAIN t = 1 .. Len(t)
  BY LenProperties
<1>2. /\ s \o t \in Seq(S) /\ Len(s \o t) = Len(s) + Len(t)
      /\ \A i \in 1 .. Len(s) + Len(t) : (s \o t)[i] =
                     IF i <= Len(s) THEN s[i] ELSE t[i - Len(s)]
  BY ConcatProperties
<1>3. DOMAIN (s \o t) = 1 .. Len(s) + Len(t)
  BY ONLY <1>2, LenProperties
<1>4. ASSUME NEW i \in 1 .. Len(t)
      PROVE  /\ Len(s) + i \in 1 .. Len(s) + Len(t)
             /\ ~(Len(s) + i <= Len(s)) /\ (Len(s) + i) - Len(s) = i
  BY ONLY <1>1, i \in 1 .. Len(t)
<1>5. ASSUME NEW i \in 1 .. Len(s)
      PROVE  i \in 1 .. Len(s) + Len(t) /\ i <= Len(s)
  BY ONLY <1>1, i \in 1 .. Len(s)
<1>6. \A i \in 1 .. Len(s) : (s \o t)[i] = s[i]
  BY ONLY <1>2, <1>5
<1>7. \A i \in 1 .. Len(t) : (s \o t)[Len(s) + i] = t[i]
  BY ONLY <1>2, <1>4
<1> QED
  BY ONLY <1>1, <1>2, <1>3, <1>6, <1>7

(* Sequences are equal when their lengths and their members are.           *)
LEMMA SameSeq ==
  ASSUME NEW S, NEW T, NEW s \in Seq(S), NEW t \in Seq(T), Len(s) = Len(t),
         \A i \in 1 .. Len(s) : s[i] = t[i]
  PROVE  s = t
<1>1. /\ s \in [1 .. Len(s) -> S] /\ DOMAIN s = 1 .. Len(s)
      /\ t \in [1 .. Len(t) -> T] /\ DOMAIN t = 1 .. Len(t)
  BY LenProperties
<1> QED
  BY ONLY <1>1, Len(s) = Len(t), \A i \in 1 .. Len(s) : s[i] = t[i]

LEMMA FunctionIsSeq ==
  ASSUME NEW n \in Nat, NEW S, NEW f \in [1 .. n -> S]
  PROVE  f \in Seq(S) /\ Len(f) = n /\ DOMAIN f = 1 .. n
<1>1. f \in Seq(S)
  BY ONLY n \in Nat, f \in [1 .. n -> S], SeqDef
<1>2. DOMAIN f = 1 .. n
  OBVIOUS
<1> QED
  BY ONLY <1>1, <1>2, LenProperties, n \in Nat

-----------------------------------------------------------------------------
(* The strings come out as collected.                                      *)

(* Where the strings collected end, each with its NUL.                     *)
Ends(e) ==
  /\ e \in [0 .. count -> Nat] /\ e[0] = 0 /\ e[count] = Used
  /\ \A k \in 1 .. count :
       /\ e[k] = (e[k-1] + Len(strs[k])) + 1
       /\ str_buf[e[k]] = NUL
       /\ \A j \in 1 .. Len(strs[k]) : str_buf[e[k-1] + j] = strs[k][j]

NoNul == \A k \in 1 .. count : \A j \in 1 .. Len(strs[k]) : strs[k][j] # NUL

Collected ==
  /\ strs \in Seq(Seq(Nat)) /\ Len(strs) = count /\ count \in Nat
  /\ str_buf \in Seq(Nat)

(* Between two positions without a NUL the number of NULs stays.           *)
LEMMA NoNulBetween ==
  ASSUME str_buf \in Seq(Nat), NEW a \in 1 .. Used + 1, NEW b \in 1 .. Used + 1,
         a <= b, \A q \in a .. b - 1 : str_buf[q] # NUL
  PROVE  NulsBefore(b) = NulsBefore(a)
<1>1. Used \in Nat
  BY NulsCounted
<1>2. {q \in 1 .. b - 1 : str_buf[q] = NUL} = {q \in 1 .. a - 1 : str_buf[q] = NUL}
  <2>1. ASSUME NEW q \in 1 .. b - 1, str_buf[q] = NUL
        PROVE  q \in 1 .. a - 1
    <3>1. q \notin a .. b - 1
      BY ONLY <2>1, \A r \in a .. b - 1 : str_buf[r] # NUL
    <3> QED
      BY ONLY <1>1, <3>1, q \in 1 .. b - 1, a \in 1 .. Used + 1, b \in 1 .. Used + 1
  <2>2. \A q \in 1 .. a - 1 : q \in 1 .. b - 1
    BY ONLY <1>1, a <= b, a \in 1 .. Used + 1, b \in 1 .. Used + 1
  <2> QED
    BY ONLY <2>1, <2>2
<1> QED
  BY ONLY <1>2 DEF NulsBefore

(* What lies between the ends.                                             *)
LEMMA EndsFacts ==
  ASSUME Collected, NEW e, Ends(e)
  PROVE  /\ Used \in Nat /\ DOMAIN str_buf = 1 .. Used /\ Len(str_buf) = Used
         /\ \A k \in 1 .. count :
              /\ strs[k] \in Seq(Nat) /\ Len(strs[k]) \in Nat
              /\ e[k] \in Nat /\ e[k-1] \in Nat
              /\ e[k] = (e[k-1] + Len(strs[k])) + 1
         /\ \A k \in 0 .. count : e[k] \in Nat /\ e[k] <= Used
<1>1. Used \in Nat /\ DOMAIN str_buf = 1 .. Used /\ Len(str_buf) = Used
  BY NulsCounted DEF Collected, Used
<1>c. count \in Nat /\ strs \in Seq(Seq(Nat)) /\ Len(strs) = count
  BY DEF Collected
<1>2. ASSUME NEW k \in 1 .. count
      PROVE  /\ strs[k] \in Seq(Nat) /\ Len(strs[k]) \in Nat
             /\ e[k] \in Nat /\ e[k-1] \in Nat
             /\ e[k] = (e[k-1] + Len(strs[k])) + 1
  <2>1. k \in 0 .. count /\ k - 1 \in 0 .. count
    BY ONLY <1>c, k \in 1 .. count
  <2>2. e[k] \in Nat /\ e[k-1] \in Nat
    BY <2>1 DEF Ends
  <2>3. strs[k] \in Seq(Nat)
    BY ONLY <1>c, k \in 1 .. count
  <2>4. Len(strs[k]) \in Nat
    BY ONLY <2>3, LenProperties
  <2> QED
    BY <2>2, <2>3, <2>4 DEF Ends
<1> DEFINE S == {m \in 0 .. count : e[count - m] <= Used}
<1>3. 0 \in S
  <2>1. e[count - 0] = Used
    BY <1>c DEF Ends
  <2> QED
    BY <1>c, <1>1, <2>1
<1>4. \A m \in 0 + 1 .. count : m - 1 \in S => m \in S
  <2> SUFFICES ASSUME NEW m \in 0 + 1 .. count, m - 1 \in S
               PROVE  m \in S
    OBVIOUS
  <2>1. /\ m \in 0 .. count /\ count - (m - 1) \in 1 .. count
        /\ (count - (m - 1)) - 1 = count - m
    BY ONLY <1>c, m \in 0 + 1 .. count
  <2>2. e[count - (m - 1)] <= Used
    BY <2>1
  <2>3. /\ e[count - (m - 1)] \in Nat /\ e[count - m] \in Nat
        /\ \E n \in Nat : e[count - (m - 1)] = (e[count - m] + n) + 1
    BY <1>2, <2>1
  <2>4. e[count - m] <= Used
    BY ONLY <1>1, <2>2, <2>3
  <2> QED
    BY <2>1, <2>4
<1> HIDE DEF S
<1>5. \A m \in 0 .. count : m \in S
  BY ONLY <1>3, <1>4, <1>c, 0 \in Nat, StepsFrom
<1>6. ASSUME NEW k \in 0 .. count
      PROVE  e[k] \in Nat /\ e[k] <= Used
  <2>1. count - k \in 0 .. count /\ count - (count - k) = k
    BY ONLY <1>c, k \in 0 .. count
  <2>2. e[count - (count - k)] <= Used
    BY <1>5, <2>1 DEF S
  <2>3. e[k] \in Nat
    BY DEF Ends
  <2> QED
    BY ONLY <2>1, <2>2, <2>3
<1> QED
  BY <1>1, <1>2, <1>6

(* field_op_get_string_ptrs finds the strings again.                       *)
LEMMA PtrsAreStrs ==
  ASSUME Collected, NoNul, NEW e, Ends(e)
  PROVE  StringPtrs = strs
<1>c. count \in Nat /\ strs \in Seq(Seq(Nat)) /\ Len(strs) = count /\ str_buf \in Seq(Nat)
  BY DEF Collected
<1>1. /\ Used \in Nat /\ DOMAIN str_buf = 1 .. Used /\ Len(str_buf) = Used
      /\ \A k \in 1 .. count :
              /\ strs[k] \in Seq(Nat) /\ Len(strs[k]) \in Nat
              /\ e[k] \in Nat /\ e[k-1] \in Nat
              /\ e[k] = (e[k-1] + Len(strs[k])) + 1
      /\ \A k \in 0 .. count : e[k] \in Nat /\ e[k] <= Used
  BY EndsFacts
<1>2. e[0] = 0 /\ \A k \in 1 .. count :
               /\ str_buf[e[k]] = NUL
               /\ \A j \in 1 .. Len(strs[k]) : str_buf[e[k-1] + j] = strs[k][j]
  BY DEF Ends
<1>3. ASSUME NEW k \in 1 .. count
      PROVE  /\ e[k-1] + 1 \in 1 .. Used + 1 /\ e[k] \in 1 .. Used + 1
             /\ e[k] + 1 \in 1 .. Used + 1 /\ e[k] \in 1 .. Used
             /\ NulsBefore(e[k]) = NulsBefore(e[k-1] + 1)
             /\ NulsBefore(e[k] + 1) = NulsBefore(e[k]) + 1
  <2>1. k \in 0 .. count /\ k - 1 \in 0 .. count
    BY ONLY <1>c, k \in 1 .. count
  <2> DEFINE a == e[k-1]
             b == e[k]
             n == Len(strs[k])
  <2>2. a \in Nat /\ b \in Nat /\ n \in Nat /\ b = (a + n) + 1 /\ b <= Used
    BY ONLY <1>1, <2>1, k \in 1 .. count
  <2>3. \A j \in 1 .. n : str_buf[a + j] = strs[k][j] /\ strs[k][j] # NUL
    BY <1>2 DEF NoNul
  <2>4. str_buf[b] = NUL
    BY <1>2
  <2> HIDE DEF a, b, n
  <2>5. /\ a + 1 \in 1 .. Used + 1 /\ b \in 1 .. Used + 1
        /\ b + 1 \in 1 .. Used + 1 /\ b \in 1 .. Used /\ a + 1 <= b
    BY ONLY <1>1, <2>2
  <2>6. \A q \in a + 1 .. b - 1 : str_buf[q] # NUL
    <3> SUFFICES ASSUME NEW q \in a + 1 .. b - 1
                 PROVE  str_buf[q] # NUL
      OBVIOUS
    <3>1. q - a \in 1 .. n /\ a + (q - a) = q
      BY ONLY <2>2, q \in a + 1 .. b - 1
    <3> QED
      BY <2>3, <3>1
  <2>7. NulsBefore(b) = NulsBefore(a + 1)
    BY ONLY <1>c, <2>5, <2>6, NoNulBetween
  <2>8. NulsBefore(b + 1) = NulsBefore(b) + 1
    BY ONLY <1>c, <2>4, <2>5, NulsCounted
  <2> QED
    BY <2>5, <2>7, <2>8 DEF a, b
<1> DEFINE S == {k \in 0 .. count : NulsBefore(e[k] + 1) = k}
<1>4. 0 \in S
  <2>1. NulsBefore(0 + 1) = 0
    BY <1>c, NulsCounted
  <2>2. 0 \in 0 .. count
    BY <1>c
  <2> QED
    BY <1>2, <2>1, <2>2
<1>5. \A k \in 0 + 1 .. count : k - 1 \in S => k \in S
  <2> SUFFICES ASSUME NEW k \in 0 + 1 .. count, k - 1 \in S
               PROVE  k \in S
    OBVIOUS
  <2>1. k \in 1 .. count /\ k \in 0 .. count /\ (k - 1) + 1 = k
    BY ONLY <1>c, k \in 0 + 1 .. count
  <2>2. NulsBefore(e[k-1] + 1) = k - 1
    OBVIOUS
  <2>3. NulsBefore(e[k] + 1) = k
    BY ONLY <1>3, <2>1, <2>2
  <2> QED
    BY <2>1, <2>3
<1> HIDE DEF S
<1>6. \A k \in 0 .. count : k \in S
  BY ONLY <1>4, <1>5, <1>c, 0 \in Nat, StepsFrom
<1>7. ASSUME NEW k \in 1 .. count
      PROVE  IsNul(e[k], k)
  <2>1. k - 1 \in 0 .. count
    BY ONLY <1>c, k \in 1 .. count
  <2>2. NulsBefore(e[k-1] + 1) = k - 1
    BY <1>6, <2>1 DEF S
  <2>3. NulsBefore(e[k]) = k - 1 /\ e[k] \in DOMAIN str_buf
    BY ONLY <1>1, <1>3, <2>2, k \in 1 .. count
  <2> QED
    BY <1>2, <2>3 DEF IsNul
<1> DEFINE nul(k) == CHOOSE q \in DOMAIN str_buf :
                       str_buf[q] = NUL /\ NulsBefore(q) = k - 1
<1>8. ASSUME NEW k \in 1 .. count
      PROVE  nul(k) = e[k]
  <2>1. IsNul(e[k], k)
    BY <1>7
  <2>2. \E q \in DOMAIN str_buf : str_buf[q] = NUL /\ NulsBefore(q) = k - 1
    BY <2>1 DEF IsNul
  <2>3. IsNul(nul(k), k)
    BY <2>2 DEF IsNul
  <2> HIDE DEF nul
  <2>4. k \in Nat /\ k <= k
    BY ONLY <1>c, k \in 1 .. count
  <2> QED
    BY ONLY <1>c, <2>1, <2>3, <2>4, NulUnique
<1>9. StringPtrs = [k \in 1 .. count |->
         SubSeq(str_buf, IF k = 1 THEN 1 ELSE nul(k - 1) + 1, nul(k) - 1)]
  BY DEF StringPtrs
<1> HIDE DEF nul
<1>10. ASSUME NEW k \in 1 .. count
       PROVE  SubSeq(str_buf, IF k = 1 THEN 1 ELSE nul(k - 1) + 1, nul(k) - 1) = strs[k]
  <2> DEFINE a == e[k-1]
             b == e[k]
             n == Len(strs[k])
  <2>1. a \in Nat /\ b \in Nat /\ n \in Nat /\ b = (a + n) + 1 /\ b <= Used
        /\ strs[k] \in Seq(Nat)
    <3>1. k \in 0 .. count
      BY ONLY <1>c, k \in 1 .. count
    <3> QED
      BY ONLY <1>1, <3>1, k \in 1 .. count
  <2>2. nul(k) = b /\ (IF k = 1 THEN 1 ELSE nul(k - 1) + 1) = a + 1
    <3>1. CASE k = 1
      BY ONLY <1>2, <1>8, <3>1, k \in 1 .. count
    <3>2. CASE k # 1
      <4>1. k - 1 \in 1 .. count
        BY ONLY <1>c, <3>2, k \in 1 .. count
      <4> QED
        BY ONLY <1>8, <3>2, <4>1, k \in 1 .. count
    <3> QED
      BY <3>1, <3>2
  <2>3. \A j \in 1 .. n : str_buf[a + j] = strs[k][j] /\ strs[k][j] \in Nat
    <3>1. \A j \in 1 .. n : str_buf[a + j] = strs[k][j]
      BY ONLY <1>2, k \in 1 .. count
    <3>2. \A j \in 1 .. n : strs[k][j] \in Nat
      BY ONLY <2>1, SMTT(30)
    <3> QED
      BY ONLY <3>1, <3>2
  <2> HIDE DEF a, b, n
  <2> DEFINE t == SubSeq(str_buf, a + 1, b - 1)
  <2>4. \A i \in a + 1 .. b - 1 : str_buf[i] \in Nat
    <3> SUFFICES ASSUME NEW i \in a + 1 .. b - 1
                 PROVE  str_buf[i] \in Nat
      OBVIOUS
    <3>1. i - a \in 1 .. n /\ a + (i - a) = i
      BY ONLY <2>1, i \in a + 1 .. b - 1
    <3> QED
      BY <2>3, <3>1
  <2>5. /\ t \in Seq(Nat)
        /\ Len(t) = (IF a + 1 <= b - 1 THEN (b - 1) - (a + 1) + 1 ELSE 0)
        /\ \A i \in 1 .. (b - 1) - (a + 1) + 1 : t[i] = str_buf[(a + 1) + i - 1]
    <3>1. a + 1 \in Int /\ b - 1 \in Int
      BY ONLY <2>1
    <3> QED
      BY ONLY <2>4, <3>1, SubSeqProperties
  <2> HIDE DEF t
  <2>6. Len(t) = n
    BY ONLY <2>1, <2>5
  <2>7. ASSUME NEW i \in 1 .. n
        PROVE  t[i] = strs[k][i]
    <3>1. i \in 1 .. (b - 1) - (a + 1) + 1 /\ (a + 1) + i - 1 = a + i
      BY ONLY <2>1, i \in 1 .. n
    <3> QED
      BY <2>3, <2>5, <3>1
  <2>8. t = strs[k]
    <3>1. Len(strs[k]) = n
      BY DEF n
    <3> QED
      BY ONLY <2>1, <2>5, <2>6, <2>7, <3>1, SameSeq
  <2> QED
    BY <2>2, <2>8 DEF t
<1>11. StringPtrs = [k \in 1 .. count |-> strs[k]]
  BY ONLY <1>9, <1>10
<1>12. strs = [k \in 1 .. count |-> strs[k]]
  <2>1. DOMAIN strs = 1 .. count
    BY ONLY <1>c, LenProperties
  <2> QED
    BY ONLY <1>c, <2>1
<1> QED
  BY ONLY <1>11, <1>12

(* The sequence that Joined puts together.                                 *)
Part(s, i) == IF i = 1 THEN s[i] ELSE <<Sep>> \o s[i]

Mixed == Nat \cup {Sep}

LEMMA PartIs ==
  ASSUME NEW s, NEW i, s[i] \in Seq(Nat)
  PROVE  /\ Part(s, i) \in Seq(Mixed) /\ Len(s[i]) \in Nat
         /\ i = 1 => Part(s, i) = s[i]
         /\ i # 1 => /\ Len(Part(s, i)) = Len(s[i]) + 1
                     /\ Part(s, i)[1] = Sep
                     /\ \A j \in 1 .. Len(s[i]) : Part(s, i)[1 + j] = s[i][j]
<1>1. Nat \subseteq Mixed /\ Sep \in Mixed
  BY DEF Mixed
<1>2. s[i] \in Seq(Mixed) /\ Len(s[i]) \in Nat
  BY ONLY <1>1, s[i] \in Seq(Nat), SeqMonotonic, LenProperties
<1>3. <<Sep>> \in Seq(Mixed) /\ Len(<<Sep>>) = 1 /\ <<Sep>>[1] = Sep
  BY ONLY <1>1
<1>4. /\ <<Sep>> \o s[i] \in Seq(Mixed) /\ Len(<<Sep>> \o s[i]) = 1 + Len(s[i])
      /\ (<<Sep>> \o s[i])[1] = Sep
      /\ \A j \in 1 .. Len(s[i]) : (<<Sep>> \o s[i])[1 + j] = s[i][j]
  <2> DEFINE o == <<Sep>>
             u == o \o s[i]
  <2>1. o \in Seq(Mixed) /\ Len(o) = 1 /\ o[1] = Sep
    BY <1>3
  <2> HIDE DEF o
  <2>2. /\ u \in Seq(Mixed) /\ Len(u) = Len(o) + Len(s[i])
        /\ \A j \in 1 .. Len(o) : u[j] = o[j]
        /\ \A j \in 1 .. Len(s[i]) : u[Len(o) + j] = s[i][j]
    BY ONLY <1>2, <2>1, ConcatIs, SMTT(30)
  <2>3. 1 \in 1 .. Len(o)
    BY ONLY <2>1
  <2>4. /\ u \in Seq(Mixed) /\ Len(u) = 1 + Len(s[i]) /\ u[1] = Sep
        /\ \A j \in 1 .. Len(s[i]) : u[1 + j] = s[i][j]
    BY ONLY <2>1, <2>2, <2>3
  <2> QED
    BY <2>4 DEF o
<1> QED
  BY <1>2, <1>4 DEF Part

LEMMA CollapseIs ==
  ASSUME Collected, NoNul, count # 0, NEW e, Ends(e)
  PROVE  CollapsedValues = Joined(strs)
<1>c. /\ count \in Nat \ {0} /\ strs \in Seq(Seq(Nat)) /\ Len(strs) = count
      /\ str_buf \in Seq(Nat) /\ DOMAIN strs = 1 .. count
  BY LenProperties DEF Collected
<1>1. /\ Used \in Nat /\ DOMAIN str_buf = 1 .. Used /\ Len(str_buf) = Used
      /\ \A k \in 1 .. count :
              /\ strs[k] \in Seq(Nat) /\ Len(strs[k]) \in Nat
              /\ e[k] \in Nat /\ e[k-1] \in Nat
              /\ e[k] = (e[k-1] + Len(strs[k])) + 1
      /\ \A k \in 0 .. count : e[k] \in Nat /\ e[k] <= Used
  BY EndsFacts
<1>2. /\ e[0] = 0 /\ e[count] = Used
      /\ \A k \in 1 .. count :
           /\ str_buf[e[k]] = NUL
           /\ \A j \in 1 .. Len(strs[k]) : str_buf[e[k-1] + j] = strs[k][j]
  BY DEF Ends
<1> DEFINE V == CollapsedValues
           t == [i \in DOMAIN strs |-> IF i = 1 THEN strs[i] ELSE <<Sep>> \o strs[i]]
           g == [k \in 1 .. count |-> [i \in 1 .. e[k] - 1 |-> V[i]]]
<1>3. /\ V \in [1 .. Used - 1 -> Mixed]
      /\ \A i \in 1 .. Used - 1 : V[i] = IF str_buf[i] = NUL THEN Sep ELSE str_buf[i]
  <2>1. V = [i \in 1 .. Used - 1 |-> IF str_buf[i] = NUL THEN Sep ELSE str_buf[i]]
    BY <1>1 DEF CollapsedValues
  <2>2. \A i \in 1 .. Used - 1 : str_buf[i] \in Nat
    BY <1>1, <1>c
  <2> HIDE DEF V
  <2> QED
    BY ONLY <2>1, <2>2 DEF Mixed
<1>4. Joined(strs) = FlattenSeq(t)
  BY DEF Joined
<1>5. \A k \in 1 .. count : t[k] = Part(strs, k)
  BY <1>c DEF Part
<1> HIDE DEF V
<1>6. ASSUME NEW k \in 1 .. count
      PROVE  /\ g[k] = [i \in 1 .. e[k] - 1 |-> V[i]]
             /\ g[k] \in Seq(Mixed) /\ Len(g[k]) = e[k] - 1
             /\ \A i \in 1 .. e[k] - 1 : g[k][i] = V[i]
             /\ e[k] - 1 \in Nat
  <2>1. g[k] = [i \in 1 .. e[k] - 1 |-> V[i]]
    OBVIOUS
  <2> HIDE DEF g
  <2>2. e[k] - 1 \in Nat /\ e[k] <= Used
    <3>1. k \in 0 .. count
      BY ONLY <1>c, k \in 1 .. count
    <3> QED
      BY ONLY <1>1, <3>1, k \in 1 .. count, SMTT(30)
  <2>3. \A i \in 1 .. e[k] - 1 : i \in 1 .. Used - 1
    BY ONLY <1>1, <2>2
  <2>4. g[k] \in [1 .. e[k] - 1 -> Mixed]
    BY ONLY <1>3, <2>1, <2>3
  <2>5. g[k] \in Seq(Mixed) /\ Len(g[k]) = e[k] - 1
    BY ONLY <2>2, <2>4, FunctionIsSeq
  <2> QED
    BY ONLY <2>1, <2>2, <2>5
<1> HIDE DEF g, t
<1>7. ASSUME NEW k \in 1 .. count
      PROVE  \A j \in 1 .. Len(strs[k]) :
               V[e[k-1] + j] = strs[k][j] /\ e[k-1] + j \in 1 .. e[k] - 1
  <2> SUFFICES ASSUME NEW j \in 1 .. Len(strs[k])
               PROVE  V[e[k-1] + j] = strs[k][j] /\ e[k-1] + j \in 1 .. e[k] - 1
    OBVIOUS
  <2>1. k \in 0 .. count
    BY ONLY <1>c, k \in 1 .. count
  <2>2. e[k-1] + j \in 1 .. Used - 1 /\ e[k-1] + j \in 1 .. e[k] - 1
    <3> DEFINE a == e[k-1]
               b == e[k]
               n == Len(strs[k])
    <3>1. a \in Nat /\ b \in Nat /\ n \in Nat /\ b = (a + n) + 1 /\ b <= Used
          /\ j \in 1 .. n /\ Used \in Nat
      BY ONLY <1>1, <2>1, k \in 1 .. count, j \in 1 .. Len(strs[k])
    <3> HIDE DEF a, b, n
    <3>2. a + j \in 1 .. Used - 1 /\ a + j \in 1 .. b - 1
      BY ONLY <3>1
    <3> QED
      BY <3>2 DEF a, b
  <2>3. str_buf[e[k-1] + j] = strs[k][j] /\ strs[k][j] # NUL
    BY <1>2 DEF NoNul
  <2> QED
    BY ONLY <1>3, <2>2, <2>3
<1>8. g[1] = t[1]
  <2>1. 1 \in 1 .. count /\ 1 - 1 = 0
    BY ONLY <1>c
  <2>2. t[1] = strs[1] /\ strs[1] \in Seq(Nat)
    <3>1. Part(strs, 1) = strs[1]
      BY DEF Part
    <3> QED
      BY ONLY <1>1, <1>5, <2>1, <3>1
  <2>3. /\ g[1] \in Seq(Mixed) /\ Len(g[1]) = Len(strs[1])
        /\ \A i \in 1 .. Len(strs[1]) : g[1][i] = V[i]
    <3>1. e[1] - 1 = Len(strs[1])
      BY ONLY <1>1, <1>2, <2>1
    <3> QED
      BY ONLY <1>6, <2>1, <3>1
  <2>4. \A i \in 1 .. Len(strs[1]) : V[i] = strs[1][i]
    <3> SUFFICES ASSUME NEW i \in 1 .. Len(strs[1])
                 PROVE  V[i] = strs[1][i]
      OBVIOUS
    <3>1. e[1-1] + i = i
      BY ONLY <1>1, <1>2, <2>1, i \in 1 .. Len(strs[1])
    <3> QED
      BY <1>7, <2>1, <3>1
  <2>5. g[1] = strs[1]
    BY ONLY <2>2, <2>3, <2>4, SameSeq
  <2> QED
    BY <2>2, <2>5
<1>9. ASSUME NEW k \in 2 .. count
      PROVE  g[k] = g[k-1] \o t[k]
  <2>1. k \in 1 .. count /\ k - 1 \in 1 .. count /\ k # 1
    BY ONLY <1>c, k \in 2 .. count
  <2> DEFINE a == e[k-1]
             b == e[k]
             n == Len(strs[k])
             u == Part(strs, k)
  <2>2. a \in Nat /\ b \in Nat /\ n \in Nat /\ b = (a + n) + 1 /\ b <= Used /\ a - 1 \in Nat
    <3>1. k \in 0 .. count
      BY ONLY <1>c, k \in 2 .. count
    <3>2. a \in Nat /\ b \in Nat /\ n \in Nat /\ b = (a + n) + 1 /\ b <= Used
      BY ONLY <1>1, <2>1, <3>1
    <3>3. a - 1 \in Nat
      BY ONLY <1>6, <2>1
    <3> QED
      BY <3>2, <3>3
  <2>3. /\ u \in Seq(Mixed) /\ Len(u) = n + 1 /\ u[1] = Sep
        /\ \A j \in 1 .. n : u[1 + j] = strs[k][j]
    BY ONLY <1>1, <2>1, PartIs
  <2>4. V[a] = Sep
    <3>1. str_buf[a] = NUL
      BY ONLY <1>2, <2>1
    <3>2. a \in 1 .. Used - 1
      BY ONLY <1>1, <2>2
    <3> QED
      BY ONLY <1>3, <3>1, <3>2
  <2>5. \A j \in 1 .. n : V[a + j] = strs[k][j]
    BY ONLY <1>7, <2>1
  <2>6. /\ g[k-1] \in Seq(Mixed) /\ Len(g[k-1]) = a - 1
        /\ \A i \in 1 .. a - 1 : g[k-1][i] = V[i]
    BY ONLY <1>6, <2>1
  <2>7. /\ g[k] \in Seq(Mixed) /\ Len(g[k]) = b - 1
        /\ \A i \in 1 .. b - 1 : g[k][i] = V[i]
    BY ONLY <1>6, <2>1
  <2> HIDE DEF a, b, n, u
  <2> DEFINE w == g[k-1] \o u
  <2>8. /\ w \in Seq(Mixed) /\ Len(w) = (a - 1) + (n + 1)
        /\ \A i \in 1 .. a - 1 : w[i] = g[k-1][i]
        /\ \A i \in 1 .. n + 1 : w[(a - 1) + i] = u[i]
    <3> HIDE DEF w
    <3>1. /\ w \in Seq(Mixed) /\ Len(w) = Len(g[k-1]) + Len(u)
          /\ \A i \in 1 .. Len(g[k-1]) : w[i] = g[k-1][i]
          /\ \A i \in 1 .. Len(u) : w[Len(g[k-1]) + i] = u[i]
      <4>1. g[k-1] \in Seq(Mixed) /\ u \in Seq(Mixed)
        BY ONLY <2>3, <2>6
      <4> QED
        BY ONLY <4>1, ConcatIs DEF w
    <3>2. Len(g[k-1]) = a - 1 /\ Len(u) = n + 1
      BY ONLY <2>3, <2>6
    <3> QED
      BY ONLY <3>1, <3>2
  <2> HIDE DEF w
  <2>9. ASSUME NEW i \in 1 .. b - 1
        PROVE  g[k][i] = w[i]
    <3>1. CASE i < a
      <4>1. i \in 1 .. a - 1
        BY ONLY <2>2, <3>1, i \in 1 .. b - 1
      <4> QED
        BY ONLY <2>6, <2>7, <2>8, <4>1, i \in 1 .. b - 1
    <3>2. CASE i = a
      <4>1. 1 \in 1 .. n + 1 /\ (a - 1) + 1 = i
        BY ONLY <2>2, <3>2
      <4> QED
        BY ONLY <2>3, <2>4, <2>7, <2>8, <3>2, <4>1, i \in 1 .. b - 1
    <3>3. CASE a < i
      <4>1. /\ i - a \in 1 .. n /\ a + (i - a) = i
            /\ 1 + (i - a) \in 1 .. n + 1 /\ (a - 1) + (1 + (i - a)) = i
        BY ONLY <2>2, <3>3, i \in 1 .. b - 1
      <4>2. V[i] = strs[k][i - a]
        BY ONLY <2>5, <4>1
      <4>3. w[i] = u[1 + (i - a)]
        BY ONLY <2>8, <4>1
      <4>4. u[1 + (i - a)] = strs[k][i - a]
        BY ONLY <2>3, <4>1
      <4> QED
        BY ONLY <2>7, <4>2, <4>3, <4>4, i \in 1 .. b - 1
    <3> QED
      BY ONLY <2>2, <3>1, <3>2, <3>3, i \in 1 .. b - 1
  <2>10. Len(w) = b - 1
    BY ONLY <2>2, <2>8
  <2>11. g[k] = w
    BY ONLY <2>7, <2>8, <2>9, <2>10, SameSeq
  <2> QED
    BY <1>5, <2>1, <2>11 DEF w, u
<1>10. Len(t) = count
  <2>1. DOMAIN t = 1 .. count
    BY <1>c DEF t
  <2>2. \A k \in 1 .. count : t[k] \in Seq(Mixed)
    BY <1>1, <1>5, PartIs
  <2>3. t \in [1 .. count -> Seq(Mixed)]
    <3>1. t = [k \in 1 .. count |-> t[k]]
      BY <2>1 DEF t
    <3> QED
      BY ONLY <2>2, <3>1
  <2> QED
    BY ONLY <1>c, <2>3, FunctionIsSeq
<1>11. FlattenSeq(t) = g[count]
  <2>1. \A i \in 2 .. count : g[i] = g[i-1] \o t[i]
    BY ONLY <1>9
  <2>2. Builds(g, t, count)
    BY <1>8, <2>1 DEF Builds
  <2> QED
    BY ONLY <1>c, <1>10, <2>2, FlattenedBy
<1>12. g[count] = V
  <2>1. count \in 1 .. count
    BY ONLY <1>c
  <2>2. g[count] = [i \in 1 .. Used - 1 |-> V[i]]
    BY ONLY <1>2, <1>6, <2>1
  <2> QED
    BY ONLY <1>3, <2>2
<1> QED
  BY <1>4, <1>11, <1>12 DEF V

-----------------------------------------------------------------------------
(* The order of strcmp and strcasecmp.                                     *)

Lex(a, b) ==
  \/ Len(a) <= Len(b) /\ \A i \in 1 .. Len(a) : a[i] = b[i]
  \/ \E i \in 1 .. Len(a) :
       i <= Len(b) /\ a[i] < b[i] /\ \A j \in 1 .. i - 1 : a[j] = b[j]

LEMMA LexIsTransitive ==
  ASSUME NEW a \in Seq(Nat), NEW b \in Seq(Nat), NEW c \in Seq(Nat),
         Lex(a, b), Lex(b, c)
  PROVE  Lex(a, c)
<1> DEFINE l == Len(a)
           m == Len(b)
           n == Len(c)
<1>1. /\ l \in Nat /\ m \in Nat /\ n \in Nat
      /\ \A i \in 1 .. l : a[i] \in Nat
      /\ \A i \in 1 .. m : b[i] \in Nat
      /\ \A i \in 1 .. n : c[i] \in Nat
  BY LenProperties
<1>2. \/ l <= m /\ \A i \in 1 .. l : a[i] = b[i]
      \/ \E i \in 1 .. l : i <= m /\ a[i] < b[i] /\ \A j \in 1 .. i - 1 : a[j] = b[j]
  BY DEF Lex
<1>3. \/ m <= n /\ \A i \in 1 .. m : b[i] = c[i]
      \/ \E i \in 1 .. m : i <= n /\ b[i] < c[i] /\ \A j \in 1 .. i - 1 : b[j] = c[j]
  BY DEF Lex
<1> HIDE DEF l, m, n
<1>4. SUFFICES
      \/ l <= n /\ \A i \in 1 .. l : a[i] = c[i]
      \/ \E i \in 1 .. l : i <= n /\ a[i] < c[i] /\ \A j \in 1 .. i - 1 : a[j] = c[j]
  BY DEF Lex, l, m, n
<1>5. CASE l <= m /\ \A i \in 1 .. l : a[i] = b[i]
  <2>1. CASE m <= n /\ \A i \in 1 .. m : b[i] = c[i]
    BY ONLY <1>1, <1>5, <2>1
  <2>2. CASE \E i \in 1 .. m : i <= n /\ b[i] < c[i] /\ \A j \in 1 .. i - 1 : b[j] = c[j]
    <3>1. PICK i \in 1 .. m : i <= n /\ b[i] < c[i] /\ \A j \in 1 .. i - 1 : b[j] = c[j]
      BY <2>2
    <3>2. CASE i <= l
      <4>1. i \in 1 .. l /\ a[i] < c[i]
        BY ONLY <1>1, <1>5, <3>1, <3>2
      <4>2. \A j \in 1 .. i - 1 : a[j] = c[j]
        BY ONLY <1>1, <1>5, <3>1, <3>2
      <4> QED
        BY <3>1, <4>1, <4>2
    <3>3. CASE l < i
      <4>1. l <= n /\ \A j \in 1 .. l : a[j] = c[j]
        BY ONLY <1>1, <1>5, <3>1, <3>3
      <4> QED
        BY <4>1
    <3> QED
      BY ONLY <1>1, <3>1, <3>2, <3>3
  <2> QED
    BY <1>3, <2>1, <2>2
<1>6. CASE \E i \in 1 .. l : i <= m /\ a[i] < b[i] /\ \A j \in 1 .. i - 1 : a[j] = b[j]
  <2>0. PICK i \in 1 .. l : i <= m /\ a[i] < b[i] /\ \A j \in 1 .. i - 1 : a[j] = b[j]
    BY <1>6
  <2>1. CASE m <= n /\ \A k \in 1 .. m : b[k] = c[k]
    <3>1. i <= n /\ a[i] < c[i] /\ \A j \in 1 .. i - 1 : a[j] = c[j]
      BY ONLY <1>1, <2>0, <2>1
    <3> QED
      BY <3>1
  <2>2. CASE \E k \in 1 .. m : k <= n /\ b[k] < c[k] /\ \A j \in 1 .. k - 1 : b[j] = c[j]
    <3>1. PICK k \in 1 .. m : k <= n /\ b[k] < c[k] /\ \A j \in 1 .. k - 1 : b[j] = c[j]
      BY <2>2
    <3>2. CASE i < k
      <4>1. i <= n /\ a[i] < c[i] /\ \A j \in 1 .. i - 1 : a[j] = c[j]
        BY ONLY <1>1, <2>0, <3>1, <3>2
      <4> QED
        BY <4>1
    <3>3. CASE ~(i < k)
      <4>0. /\ k \in 1 .. l /\ k \in 1 .. m /\ k <= n /\ k \in 1 .. n
            /\ k = i \/ k \in 1 .. i - 1
        BY ONLY <1>1, <2>0, <3>1, <3>3, SMTT(30)
      <4>3. a[k] <= b[k] /\ a[k] \in Nat /\ b[k] \in Nat /\ c[k] \in Nat /\ b[k] < c[k]
        BY ONLY <1>1, <2>0, <3>1, <4>0
      <4>1. k \in 1 .. l /\ k <= n /\ a[k] < c[k]
        BY ONLY <4>0, <4>3, SMTT(30)
      <4>2. \A j \in 1 .. k - 1 : a[j] = c[j]
        BY ONLY <1>1, <2>0, <3>1, <3>3
      <4> QED
        BY <4>1, <4>2
    <3> QED
      BY <3>2, <3>3
  <2> QED
    BY <1>3, <2>1, <2>2
<1> QED
  BY <1>2, <1>5, <1>6

LEMMA LexIsAntisymmetric ==
  ASSUME NEW a \in Seq(Nat), NEW b \in Seq(Nat), Lex(a, b), Lex(b, a)
  PROVE  a = b
<1> DEFINE l == Len(a)
           m == Len(b)
<1>1. /\ l \in Nat /\ m \in Nat
      /\ \A i \in 1 .. l : a[i] \in Nat
      /\ \A i \in 1 .. m : b[i] \in Nat
  BY LenProperties
<1>2. \/ l <= m /\ \A i \in 1 .. l : a[i] = b[i]
      \/ \E i \in 1 .. l : i <= m /\ a[i] < b[i] /\ \A j \in 1 .. i - 1 : a[j] = b[j]
  BY DEF Lex
<1>3. \/ m <= l /\ \A i \in 1 .. m : b[i] = a[i]
      \/ \E i \in 1 .. m : i <= l /\ b[i] < a[i] /\ \A j \in 1 .. i - 1 : b[j] = a[j]
  BY DEF Lex
<1> HIDE DEF l, m
<1>4. l = m /\ \A i \in 1 .. l : a[i] = b[i]
  <2>1. CASE l <= m /\ \A i \in 1 .. l : a[i] = b[i]
    BY ONLY <1>1, <1>3, <2>1
  <2>2. CASE \E i \in 1 .. l : i <= m /\ a[i] < b[i] /\ \A j \in 1 .. i - 1 : a[j] = b[j]
    <3>1. PICK i \in 1 .. l : i <= m /\ a[i] < b[i] /\ \A j \in 1 .. i - 1 : a[j] = b[j]
      BY <2>2
    <3>2. i \in 1 .. m /\ a[i] \in Nat /\ b[i] \in Nat
      BY ONLY <1>1, <3>1
    <3>3. CASE m <= l /\ \A k \in 1 .. m : b[k] = a[k]
      BY ONLY <3>1, <3>2, <3>3
    <3>4. CASE \E k \in 1 .. m : k <= l /\ b[k] < a[k] /\ \A j \in 1 .. k - 1 : b[j] = a[j]
      <4>1. PICK k \in 1 .. m : k <= l /\ b[k] < a[k] /\ \A j \in 1 .. k - 1 : b[j] = a[j]
        BY <3>4
      <4>2. k \in 1 .. l /\ a[k] \in Nat /\ b[k] \in Nat
        BY ONLY <1>1, <4>1
      <4>3. CASE i < k
        <5>1. i \in 1 .. k - 1
          BY ONLY <1>1, <4>1, <4>3
        <5> QED
          BY ONLY <3>1, <3>2, <4>1, <5>1
      <4>4. CASE k < i
        <5>1. k \in 1 .. i - 1
          BY ONLY <1>1, <4>1, <4>4
        <5> QED
          BY ONLY <3>1, <4>1, <4>2, <5>1
      <4>5. CASE k = i
        BY ONLY <3>1, <3>2, <4>1, <4>5
      <4> QED
        BY ONLY <1>1, <3>1, <4>1, <4>3, <4>4, <4>5
    <3> QED
      BY <1>3, <3>3, <3>4
  <2> QED
    BY <1>2, <2>1, <2>2
<1> QED
  BY <1>4, SameSeq DEF l, m

(* What is compared of a string.                                           *)
LEMMA ShownIs ==
  ASSUME NEW s \in Inputs
  PROVE  /\ s \in Seq(Nat) /\ Shown(s) \in Seq(Nat) /\ Len(Shown(s)) = Len(s)
         /\ DOMAIN s = 1 .. Len(s) /\ Len(s) \in Nat
<1>1. s \in Seq(Nat) /\ \A i \in DOMAIN s : Fold[s[i]] \in Nat
  BY OpBuffersAssumption
<1>2. DOMAIN s = 1 .. Len(s) /\ Len(s) \in Nat
  BY ONLY <1>1, LenProperties
<1> DEFINE f == [i \in DOMAIN s |-> Fold[s[i]]]
<1>3. f \in [1 .. Len(s) -> Nat]
  BY ONLY <1>1, <1>2
<1> HIDE DEF f
<1>4. f \in Seq(Nat) /\ Len(f) = Len(s)
  BY ONLY <1>2, <1>3, FunctionIsSeq
<1>5. Shown(s) = IF case_sensitive THEN s ELSE f
  BY DEF Shown, f
<1> QED
  BY ONLY <1>1, <1>2, <1>4, <1>5

LEMMA PrefixIs ==
  ASSUME NEW a \in Seq(Nat), NEW b \in Seq(Nat)
  PROVE  IsPrefix(a, b) <=> Len(a) <= Len(b) /\ \A i \in 1 .. Len(a) : a[i] = b[i]
<1> DEFINE n == Len(a)
           u == SubSeq(a, 1, n)
           v == SubSeq(b, 1, n)
<1>1. n \in Nat /\ Len(b) \in Nat
      /\ (\A i \in 1 .. n : a[i] \in Nat) /\ \A i \in 1 .. Len(b) : b[i] \in Nat
  BY LenProperties
<1>2. IsPrefix(a, b) <=> n <= Len(b) /\ u = v
  BY DEF IsPrefix
<1>3. ASSUME n <= Len(b)
      PROVE  u = v <=> \A i \in 1 .. n : a[i] = b[i]
  <2>1. \A i \in 1 .. n : b[i] \in Nat
    BY <1>1, <1>3
  <2>2. 1 \in Int /\ n \in Int /\ \A i \in 1 .. n : i \in 1 .. n - 1 + 1 /\ 1 + i - 1 = i
    BY <1>1
  <2> HIDE DEF n
  <2>3. /\ u \in Seq(Nat) /\ Len(u) = (IF 1 <= n THEN n - 1 + 1 ELSE 0)
        /\ \A i \in 1 .. n - 1 + 1 : u[i] = a[1 + i - 1]
    BY ONLY <1>1, <2>2, SubSeqProperties
  <2>4. /\ v \in Seq(Nat) /\ Len(v) = (IF 1 <= n THEN n - 1 + 1 ELSE 0)
        /\ \A i \in 1 .. n - 1 + 1 : v[i] = b[1 + i - 1]
    BY ONLY <2>1, <2>2, SubSeqProperties
  <2> HIDE DEF u, v
  <2>5. /\ Len(u) = n /\ Len(v) = n
        /\ \A i \in 1 .. n : u[i] = a[i] /\ v[i] = b[i]
    BY ONLY <1>1, <2>2, <2>3, <2>4
  <2>6. ASSUME \A i \in 1 .. n : a[i] = b[i]
        PROVE  u = v
    BY ONLY <2>3, <2>4, <2>5, <2>6, SameSeq
  <2>7. ASSUME u = v
        PROVE  \A i \in 1 .. n : a[i] = b[i]
    BY ONLY <2>5, <2>7
  <2> QED
    BY <2>6, <2>7
<1> HIDE DEF u, v
<1> QED
  BY <1>2, <1>3

LEMMA AtMostIs ==
  ASSUME NEW s \in Inputs, NEW t \in Inputs
  PROVE  AtMost(s, t) <=> Lex(Shown(s), Shown(t))
<1>1. /\ Shown(s) \in Seq(Nat) /\ Len(Shown(s)) = Len(s) /\ DOMAIN s = 1 .. Len(s)
      /\ Shown(t) \in Seq(Nat) /\ Len(Shown(t)) = Len(t) /\ DOMAIN t = 1 .. Len(t)
      /\ Len(s) \in Nat /\ Len(t) \in Nat
  BY ShownIs
<1>2. IsPrefix(Shown(s), Shown(t)) <=>
        Len(Shown(s)) <= Len(Shown(t))
          /\ \A i \in 1 .. Len(Shown(s)) : Shown(s)[i] = Shown(t)[i]
  BY ONLY <1>1, PrefixIs
<1>3. \A i : i \in DOMAIN s \cap DOMAIN t <=> i \in 1 .. Len(s) /\ i <= Len(t)
  BY ONLY <1>1
<1> QED
  BY <1>1, <1>2, <1>3 DEF AtMost, Lex

-----------------------------------------------------------------------------
(* The lists of the different strings.                                     *)

(* Joined, with one string more.                                           *)
LEMMA JoinedOne ==
  ASSUME NEW x, NEW r, r = [i \in 1 .. 1 |-> x]
  PROVE  Joined(r) = x
<1> DEFINE t == [i \in DOMAIN r |-> IF i = 1 THEN r[i] ELSE <<Sep>> \o r[i]]
<1>1. DOMAIN r = 1 .. 1 /\ r[1] = x /\ 1 \in 1 .. 1
  OBVIOUS
<1>2. t \in [1 .. 1 -> {x}] /\ t[1] = x
  BY <1>1
<1>3. Joined(r) = FlattenSeq(t)
  BY DEF Joined
<1> HIDE DEF t
<1>4. Len(t) = 1
  BY ONLY <1>2, 1 \in Nat, FunctionIsSeq
<1>5. Builds(t, t, 1)
  BY DEF Builds
<1>6. FlattenSeq(t) = t[1]
  BY ONLY <1>4, <1>5, 1 \in Nat \ {0}, FlattenedBy
<1> QED
  BY <1>2, <1>3, <1>6

OneMore(q, r, n, x) ==
  /\ DOMAIN r = 1 .. n /\ DOMAIN q = 1 .. n + 1
  /\ \A i \in 1 .. n : q[i] = r[i]
  /\ q[n + 1] = x

LEMMA JoinedMore ==
  ASSUME NEW n \in Nat \ {0}, NEW r, NEW x, NEW q, OneMore(q, r, n, x)
  PROVE  Joined(q) = Joined(r) \o (<<Sep>> \o x)
<1> DEFINE t == [i \in DOMAIN r |-> IF i = 1 THEN r[i] ELSE <<Sep>> \o r[i]]
           u == [i \in DOMAIN q |-> IF i = 1 THEN q[i] ELSE <<Sep>> \o q[i]]
<1>1. /\ DOMAIN r = 1 .. n /\ DOMAIN q = 1 .. n + 1
      /\ (\A i \in 1 .. n : q[i] = r[i]) /\ q[n + 1] = x
  BY DEF OneMore
<1>2. Joined(r) = FlattenSeq(t) /\ Joined(q) = FlattenSeq(u)
  BY DEF Joined
<1>3. DOMAIN t = 1 .. n /\ DOMAIN u = 1 .. n + 1
  BY <1>1
<1>4. (\A i \in 1 .. n : u[i] = t[i]) /\ u[n + 1] = <<Sep>> \o x
  <2>1. \A i \in 1 .. n : i \in 1 .. n + 1
    OBVIOUS
  <2>2. n + 1 \in 1 .. n + 1 /\ n + 1 # 1
    OBVIOUS
  <2> QED
    BY <1>1, <2>1, <2>2
<1>5. t \in [1 .. n -> {t[i] : i \in 1 .. n}] /\ u \in [1 .. n + 1 -> {u[i] : i \in 1 .. n + 1}]
  BY <1>1
<1> HIDE DEF t, u
<1>6. Len(t) = n /\ Len(u) = n + 1
  <2>1. n \in Nat /\ n + 1 \in Nat
    OBVIOUS
  <2> QED
    BY ONLY <1>5, <2>1, FunctionIsSeq
<1>7. PICK f : /\ f[1] = t[1]
               /\ \A i \in 2 .. n : f[i] = f[i-1] \o t[i]
               /\ FlattenSeq(t) = f[n]
  BY <1>6, FlattenSeqIs
<1> DEFINE g == [i \in 1 .. n + 1 |-> IF i <= n THEN f[i] ELSE f[n] \o (<<Sep>> \o x)]
<1>8. (\A i \in 1 .. n : g[i] = f[i]) /\ g[n + 1] = f[n] \o (<<Sep>> \o x)
  <2>1. n + 1 \in 1 .. n + 1 /\ ~(n + 1 <= n) /\ \A i \in 1 .. n : i \in 1 .. n + 1 /\ i <= n
    OBVIOUS
  <2> QED
    BY <2>1
<1> HIDE DEF g
<1>9. Builds(g, u, n + 1)
  <2>1. 1 \in 1 .. n /\ n \in 1 .. n
    OBVIOUS
  <2>2. g[1] = u[1]
    BY <1>4, <1>7, <1>8, <2>1
  <2>3. ASSUME NEW i \in 2 .. n + 1
        PROVE  g[i] = g[i-1] \o u[i]
    <3>1. CASE i <= n
      <4>1. i \in 1 .. n /\ i - 1 \in 1 .. n /\ i \in 2 .. n
        BY ONLY <3>1, n \in Nat \ {0}, i \in 2 .. n + 1
      <4> QED
        BY <1>4, <1>7, <1>8, <4>1
    <3>2. CASE ~(i <= n)
      <4>1. i = n + 1 /\ i - 1 = n
        BY ONLY <3>2, n \in Nat \ {0}, i \in 2 .. n + 1
      <4> QED
        BY <1>4, <1>8, <2>1, <4>1
    <3> QED
      BY <3>1, <3>2
  <2> QED
    BY ONLY <2>2, <2>3 DEF Builds
<1>10. FlattenSeq(u) = g[n + 1]
  <2>1. n + 1 \in Nat \ {0}
    OBVIOUS
  <2> QED
    BY ONLY <1>6, <1>9, <2>1, FlattenedBy
<1> QED
  BY <1>2, <1>7, <1>8, <1>10

(* What qsort leaves: the strings collected, each with all that come after *)
(* it at least as large.                                                   *)
Sorted(s, n) ==
  /\ s \in [1 .. n -> Inputs]
  /\ \A i, k \in 1 .. n : i <= k => Lex(Shown(s[i]), Shown(s[k]))

LEMMA SortedIs ==
  ASSUME Collected, count # 0, \A k \in 1 .. count : strs[k] \in Inputs,
         NEW s \in SortedFrom(strs)
  PROVE  Sorted(s, count) /\ {s[i] : i \in 1 .. count} = Range(strs)
<1>c. count \in Nat \ {0} /\ strs \in Seq(Seq(Nat)) /\ Len(strs) = count
      /\ DOMAIN strs = 1 .. count
  BY LenProperties DEF Collected
<1>1. PICK p \in [1 .. count -> 1 .. count] :
        IsInjective(p) /\ s = [i \in 1 .. count |-> strs[p[i]]]
  BY <1>c DEF SortedFrom
<1>2. \A k \in 1 .. count : \E i \in 1 .. count : p[i] = k
  <2> DEFINE S == 1 .. count
  <2>1. p \in Injection(S, S)
    BY <1>1 DEF Injection
  <2>2. IsFiniteSet(S)
    BY <1>c, FS_Interval
  <2>3. p \in Surjection(S, S)
    BY ONLY <2>1, <2>2, FS_Injection
  <2> QED
    BY <2>3 DEF Surjection
<1>3. {s[i] : i \in 1 .. count} = Range(strs)
  <2>1. Range(strs) = {strs[k] : k \in 1 .. count}
    BY <1>c DEF Range
  <2>2. \A i \in 1 .. count : s[i] = strs[p[i]] /\ p[i] \in 1 .. count
    BY <1>1
  <2>3. \A k \in 1 .. count : \E i \in 1 .. count : s[i] = strs[k]
    <3> SUFFICES ASSUME NEW k \in 1 .. count
                 PROVE  \E i \in 1 .. count : s[i] = strs[k]
      OBVIOUS
    <3>1. PICK i \in 1 .. count : p[i] = k
      BY ONLY <1>2, k \in 1 .. count
    <3>2. s[i] = strs[k]
      BY ONLY <2>2, <3>1
    <3> QED
      BY <3>2
  <2>4. \A i \in 1 .. count : \E k \in 1 .. count : s[i] = strs[k]
    BY ONLY <2>2
  <2>5. {s[i] : i \in 1 .. count} = {strs[k] : k \in 1 .. count}
    <3>1. ASSUME NEW x \in {s[i] : i \in 1 .. count}
          PROVE  x \in {strs[k] : k \in 1 .. count}
      BY ONLY <2>4, x \in {s[i] : i \in 1 .. count}
    <3>2. ASSUME NEW x \in {strs[k] : k \in 1 .. count}
          PROVE  x \in {s[i] : i \in 1 .. count}
      <4>1. PICK k \in 1 .. count : x = strs[k]
        OBVIOUS
      <4>2. PICK i \in 1 .. count : s[i] = strs[k]
        BY ONLY <2>3, k \in 1 .. count
      <4> QED
        BY ONLY <4>1, <4>2
    <3> QED
      BY <3>1, <3>2
  <2> QED
    BY ONLY <2>1, <2>5
<1>4. s \in [1 .. count -> Inputs]
  BY <1>1
<1>5. \A i \in 1 .. count - 1 : AtMost(s[i], s[i + 1])
  <2>1. Len(s) = count
    BY <1>4, <1>c, FunctionIsSeq
  <2> QED
    BY <2>1 DEF SortedFrom
<1>6. \A i \in 1 .. count : Shown(s[i]) \in Seq(Nat)
  BY <1>4, ShownIs
<1>7. \A i \in 1 .. count - 1 : Lex(Shown(s[i]), Shown(s[i + 1]))
  <2>1. \A i \in 1 .. count - 1 : i \in 1 .. count /\ i + 1 \in 1 .. count
    BY <1>c
  <2> QED
    BY <1>4, <1>5, <2>1, AtMostIs
<1>8. ASSUME NEW i \in 1 .. count
      PROVE  \A k \in i .. count : Lex(Shown(s[i]), Shown(s[k]))
  <2> DEFINE S == {k \in i .. count : Lex(Shown(s[i]), Shown(s[k]))}
  <2>1. i \in S
    BY <1>c DEF Lex
  <2>2. \A k \in i + 1 .. count : k - 1 \in S => k \in S
    <3> SUFFICES ASSUME NEW k \in i + 1 .. count, k - 1 \in S
                 PROVE  k \in S
      OBVIOUS
    <3>1. k - 1 \in 1 .. count - 1 /\ (k - 1) + 1 = k /\ k \in i .. count
          /\ k - 1 \in 1 .. count /\ k \in 1 .. count
      BY ONLY <1>c, i \in 1 .. count, k \in i + 1 .. count
    <3>2. Lex(Shown(s[i]), Shown(s[k-1])) /\ Lex(Shown(s[k-1]), Shown(s[k]))
      BY <1>7, <3>1
    <3>3. Lex(Shown(s[i]), Shown(s[k]))
      BY ONLY <1>6, <3>1, <3>2, LexIsTransitive, i \in 1 .. count
    <3> QED
      BY <3>1, <3>3
  <2> HIDE DEF S
  <2>3. i \in Nat /\ count \in Nat
    BY <1>c
  <2>4. \A k \in i .. count : k \in S
    BY ONLY <2>1, <2>2, <2>3, StepsFrom
  <2> QED
    BY <2>4 DEF S
<1>9. \A i, k \in 1 .. count : i <= k => Lex(Shown(s[i]), Shown(s[k]))
  <2> SUFFICES ASSUME NEW i \in 1 .. count, NEW k \in 1 .. count, i <= k
               PROVE  Lex(Shown(s[i]), Shown(s[k]))
    OBVIOUS
  <2>1. k \in i .. count
    BY ONLY <1>c, i \in 1 .. count, k \in 1 .. count, i <= k
  <2> QED
    BY <1>8, <2>1
<1> QED
  BY <1>3, <1>4, <1>9 DEF Sorted

ShownTo(s, m) == {Shown(s[i]) : i \in 1 .. m}

NewTo(s, m) == {i \in 1 .. m : IsNew(s, i)}

(* r is the different strings among the first m of s, l what is written of *)
(* them.                                                                   *)
Listed(s, m, r, l) ==
  LET N == Cardinality(ShownTo(s, m))
  IN  /\ IsFiniteSet(ShownTo(s, m)) /\ N \in Nat \ {0}
      /\ IsFiniteSet(NewTo(s, m)) /\ Cardinality(NewTo(s, m)) = N
      /\ r \in [1 .. N -> {s[i] : i \in 1 .. m}]
      /\ {Shown(r[i]) : i \in 1 .. N} = ShownTo(s, m)
      /\ \A i \in 1 .. N - 1 : Lex(Shown(r[i]), Shown(r[i + 1]))
      /\ Shown(r[N]) = Shown(s[m])
      /\ l \in Seq(Mixed) /\ l = Joined(r)

LEMMA ListedOne ==
  ASSUME NEW n \in Nat \ {0}, NEW s, Sorted(s, n), NEW r, r = [i \in 1 .. 1 |-> s[1]]
  PROVE  Listed(s, 1, r, s[1])
<1>0. 1 .. 1 = {1}
  OBVIOUS
<1>1. ShownTo(s, 1) = {Shown(s[1])}
  BY ONLY <1>0 DEF ShownTo
<1>2. IsFiniteSet(ShownTo(s, 1)) /\ Cardinality(ShownTo(s, 1)) = 1
  <2>1. \A x : IsFiniteSet({x}) /\ Cardinality({x}) = 1
    BY FS_Singleton
  <2>2. IsFiniteSet({Shown(s[1])}) /\ Cardinality({Shown(s[1])}) = 1
    BY <2>1
  <2> QED
    BY ONLY <1>1, <2>2
<1>3. NewTo(s, 1) = {1}
  <2>1. IsNew(s, 1)
    BY DEF IsNew
  <2>2. \A i : i \in NewTo(s, 1) <=> i \in {1} /\ IsNew(s, i)
    BY ONLY <1>0 DEF NewTo
  <2> QED
    BY ONLY <2>1, <2>2
<1>4. IsFiniteSet(NewTo(s, 1)) /\ Cardinality(NewTo(s, 1)) = 1
  <2>1. \A x : IsFiniteSet({x}) /\ Cardinality({x}) = 1
    BY FS_Singleton
  <2>2. IsFiniteSet({1}) /\ Cardinality({1}) = 1
    BY <2>1
  <2> QED
    BY ONLY <1>3, <2>2
<1>5. r[1] = s[1] /\ r \in [1 .. 1 -> {s[i] : i \in 1 .. 1}]
  <2>1. r = [i \in {1} |-> s[1]] /\ s[1] \in {s[i] : i \in {1}}
    BY <1>0
  <2>2. r[1] = s[1] /\ r \in [{1} -> {s[i] : i \in {1}}]
    BY ONLY <2>1
  <2> QED
    BY ONLY <1>0, <2>2
<1>6. {Shown(r[i]) : i \in 1 .. 1} = {Shown(s[1])}
  BY ONLY <1>0, <1>5
<1>7. Joined(r) = s[1]
  BY JoinedOne
<1>8. s[1] \in Seq(Mixed)
  <2>1. s[1] \in Inputs
    BY DEF Sorted
  <2>2. s[1] \in Seq(Nat) /\ Nat \subseteq Mixed
    BY <2>1, ShownIs DEF Mixed
  <2> QED
    BY <2>2, SeqMonotonic
<1>9. ~ \E i : i \in 1 .. 1 - 1
  OBVIOUS
<1> DEFINE N == Cardinality(ShownTo(s, 1))
<1>10. N = 1
  BY <1>2
<1>11. /\ IsFiniteSet(ShownTo(s, 1)) /\ N \in Nat \ {0}
       /\ IsFiniteSet(NewTo(s, 1)) /\ Cardinality(NewTo(s, 1)) = N
  BY ONLY <1>2, <1>4, <1>10
<1> HIDE DEF N
<1>12. /\ r \in [1 .. N -> {s[i] : i \in 1 .. 1}]
       /\ {Shown(r[i]) : i \in 1 .. N} = ShownTo(s, 1)
       /\ Shown(r[N]) = Shown(s[1])
  BY ONLY <1>1, <1>5, <1>6, <1>10
<1>13. \A i \in 1 .. N - 1 : Lex(Shown(r[i]), Shown(r[i + 1]))
  BY ONLY <1>9, <1>10
<1> QED
  BY <1>7, <1>8, <1>11, <1>12, <1>13 DEF Listed, N

(* One more string.                                                        *)
LEMMA ShownMore ==
  ASSUME NEW n \in Nat \ {0}, NEW s, Sorted(s, n), NEW k \in 2 .. n
  PROVE  /\ ShownTo(s, k) = ShownTo(s, k - 1) \cup {Shown(s[k])}
         /\ Shown(s[k-1]) \in ShownTo(s, k - 1)
         /\ NewTo(s, k) = IF IsNew(s, k) THEN NewTo(s, k - 1) \cup {k} ELSE NewTo(s, k - 1)
         /\ k \notin NewTo(s, k - 1)
         /\ Shown(s[k]) \in ShownTo(s, k - 1) <=> ~IsNew(s, k)
<1>1. 1 .. k = (1 .. (k - 1)) \cup {k} /\ k \notin 1 .. (k - 1) /\ k - 1 \in 1 .. (k - 1)
      /\ k # 1
  OBVIOUS
<1>2. ShownTo(s, k) = ShownTo(s, k - 1) \cup {Shown(s[k])}
      /\ Shown(s[k-1]) \in ShownTo(s, k - 1)
  BY <1>1 DEF ShownTo
<1>3. NewTo(s, k) = (IF IsNew(s, k) THEN NewTo(s, k - 1) \cup {k} ELSE NewTo(s, k - 1))
      /\ k \notin NewTo(s, k - 1)
  BY <1>1 DEF NewTo
<1>4. IsNew(s, k) <=> Shown(s[k]) # Shown(s[k-1])
  BY <1>1 DEF IsNew
<1>5. ASSUME Shown(s[k]) \in ShownTo(s, k - 1)
      PROVE  Shown(s[k]) = Shown(s[k-1])
  <2>1. PICK i \in 1 .. (k - 1) : Shown(s[k]) = Shown(s[i])
    BY <1>5 DEF ShownTo
  <2>2. /\ i \in 1 .. n /\ k - 1 \in 1 .. n /\ k \in 1 .. n
        /\ i <= k - 1 /\ k - 1 <= k
    BY ONLY n \in Nat \ {0}, k \in 2 .. n, i \in 1 .. (k - 1)
  <2>3. Lex(Shown(s[i]), Shown(s[k-1])) /\ Lex(Shown(s[k-1]), Shown(s[k]))
    BY <2>2 DEF Sorted
  <2>4. s[k] \in Inputs /\ s[k-1] \in Inputs
    BY <2>2 DEF Sorted
  <2>5. Shown(s[k]) \in Seq(Nat) /\ Shown(s[k-1]) \in Seq(Nat)
    BY ONLY <2>4, ShownIs
  <2> QED
    BY ONLY <2>1, <2>3, <2>5, LexIsAntisymmetric
<1> QED
  BY <1>2, <1>3, <1>4, <1>5

LEMMA ListedSame ==
  ASSUME NEW n \in Nat \ {0}, NEW s, Sorted(s, n), NEW k \in 2 .. n, ~IsNew(s, k),
         NEW r, NEW l, Listed(s, k - 1, r, l)
  PROVE  Listed(s, k, r, l)
<1>1. /\ ShownTo(s, k) = ShownTo(s, k - 1) \cup {Shown(s[k])}
      /\ Shown(s[k]) \in ShownTo(s, k - 1)
      /\ NewTo(s, k) = NewTo(s, k - 1)
  BY ShownMore
<1>2. ShownTo(s, k) = ShownTo(s, k - 1) /\ NewTo(s, k) = NewTo(s, k - 1)
  BY ONLY <1>1
<1>3. Shown(s[k]) = Shown(s[k-1])
  BY DEF IsNew
<1>4. {s[i] : i \in 1 .. k - 1} \subseteq {s[i] : i \in 1 .. k}
  OBVIOUS
<1> DEFINE N == Cardinality(ShownTo(s, k - 1))
<1>5. r \in [1 .. N -> {s[i] : i \in 1 .. k}]
  <2>1. r \in [1 .. N -> {s[i] : i \in 1 .. k - 1}]
    BY DEF Listed
  <2> HIDE DEF N
  <2> QED
    BY ONLY <1>4, <2>1
<1> QED
  BY <1>2, <1>3, <1>5 DEF Listed

LEMMA ListedNew ==
  ASSUME NEW n \in Nat \ {0}, NEW s, Sorted(s, n), NEW k \in 2 .. n, IsNew(s, k),
         NEW r, NEW l, Listed(s, k - 1, r, l)
  PROVE  \E q : Listed(s, k, q, l \o (<<Sep>> \o s[k]))
<1> DEFINE N == Cardinality(ShownTo(s, k - 1))
           q == [i \in 1 .. N + 1 |-> IF i <= N THEN r[i] ELSE s[k]]
           S == {s[i] : i \in 1 .. k - 1}
           T == {s[i] : i \in 1 .. k}
<1>1. /\ IsFiniteSet(ShownTo(s, k - 1)) /\ N \in Nat \ {0}
      /\ IsFiniteSet(NewTo(s, k - 1)) /\ Cardinality(NewTo(s, k - 1)) = N
      /\ r \in [1 .. N -> S]
      /\ {Shown(r[i]) : i \in 1 .. N} = ShownTo(s, k - 1)
      /\ \A i \in 1 .. N - 1 : Lex(Shown(r[i]), Shown(r[i + 1]))
      /\ Shown(r[N]) = Shown(s[k-1])
      /\ l \in Seq(Mixed) /\ l = Joined(r)
  BY DEF Listed
<1>2. /\ ShownTo(s, k) = ShownTo(s, k - 1) \cup {Shown(s[k])}
      /\ NewTo(s, k) = NewTo(s, k - 1) \cup {k}
      /\ k \notin NewTo(s, k - 1) /\ Shown(s[k]) \notin ShownTo(s, k - 1)
  BY ShownMore
<1>3. S \subseteq T /\ s[k] \in T
  <2>1. k \in 1 .. k /\ \A i \in 1 .. k - 1 : i \in 1 .. k
    OBVIOUS
  <2> QED
    BY <2>1
<1> HIDE DEF N, S, T
<1>4. IsFiniteSet(ShownTo(s, k)) /\ Cardinality(ShownTo(s, k)) = N + 1
  BY <1>1, <1>2, FS_AddElement DEF N
<1>5. IsFiniteSet(NewTo(s, k)) /\ Cardinality(NewTo(s, k)) = N + 1
  <2>1. PICK old : old = NewTo(s, k - 1)
    OBVIOUS
  <2>2. /\ IsFiniteSet(old) /\ Cardinality(old) = N
        /\ k \notin old /\ NewTo(s, k) = old \cup {k}
    BY <1>1, <1>2, <2>1
  <2>3. IsFiniteSet(old \cup {k}) /\ Cardinality(old \cup {k}) = Cardinality(old) + 1
    BY ONLY <2>2, FS_AddElement
  <2> QED
    BY <2>2, <2>3
<1>6. /\ q \in [1 .. N + 1 -> T] /\ DOMAIN q = 1 .. N + 1
      /\ \A i \in 1 .. N : q[i] = r[i] /\ i \in 1 .. N + 1
      /\ q[N + 1] = s[k] /\ N + 1 \in 1 .. N + 1
  <2>1. \A i \in 1 .. N : i \in 1 .. N + 1 /\ i <= N
    BY <1>1
  <2>2. N + 1 \in 1 .. N + 1 /\ ~(N + 1 <= N)
    BY <1>1
  <2>3. \A i \in 1 .. N + 1 : i <= N => i \in 1 .. N
    BY <1>1
  <2>4. \A i \in 1 .. N : r[i] \in T
    BY <1>1, <1>3
  <2> QED
    BY <1>3, <2>1, <2>2, <2>3, <2>4
<1>7. Joined(q) = Joined(r) \o (<<Sep>> \o s[k])
  <2>1. DOMAIN r = 1 .. N
    BY <1>1
  <2> HIDE DEF q
  <2>2. N \in Nat \ {0} /\ OneMore(q, r, N, s[k])
    BY <1>1, <1>6, <2>1 DEF OneMore
  <2> QED
    <3>1. \A m \in Nat \ {0} : \A x, v, w :
            OneMore(w, v, m, x) => Joined(w) = Joined(v) \o (<<Sep>> \o x)
      BY JoinedMore
    <3> QED
    BY ONLY <2>2, <3>1, SMTT(30)
<1> HIDE DEF q
<1>8. {Shown(q[i]) : i \in 1 .. N + 1} = ShownTo(s, k)
  <2>1. 1 .. N + 1 = (1 .. N) \cup {N + 1}
    BY <1>1
  <2>2. {Shown(q[i]) : i \in 1 .. N + 1} = {Shown(q[i]) : i \in 1 .. N} \cup {Shown(q[N + 1])}
    BY <2>1
  <2>3. {Shown(q[i]) : i \in 1 .. N} = {Shown(r[i]) : i \in 1 .. N}
    BY <1>6
  <2> QED
    BY <1>1, <1>2, <1>6, <2>2, <2>3
<1>9. ASSUME NEW i \in 1 .. (N + 1) - 1
      PROVE  Lex(Shown(q[i]), Shown(q[i + 1]))
  <2>1. i \in 1 .. N
    BY <1>1
  <2>2. CASE i < N
    <3>1. i \in 1 .. N - 1 /\ i + 1 \in 1 .. N
      BY <1>1, <2>1, <2>2
    <3>2. q[i] = r[i] /\ q[i + 1] = r[i + 1]
      BY <1>6, <2>1, <3>1
    <3> QED
      BY <1>1, <3>1, <3>2
  <2>3. CASE ~(i < N)
    <3>1. i = N
      BY <1>1, <2>1, <2>3
    <3>2. q[i] = r[N] /\ q[i + 1] = s[k]
      BY <1>6, <2>1, <3>1
    <3>3. k - 1 \in 1 .. n /\ k \in 1 .. n /\ k - 1 <= k
      OBVIOUS
    <3>4. Lex(Shown(s[k-1]), Shown(s[k]))
      BY <3>3 DEF Sorted
    <3> QED
      BY <1>1, <3>2, <3>4
  <2> QED
    BY <2>2, <2>3
<1>10. l \o (<<Sep>> \o s[k]) \in Seq(Mixed)
  <2>1. k \in 1 .. n /\ k # 1
    OBVIOUS
  <2>2. s[k] \in Seq(Nat)
    BY <2>1, ShownIs DEF Sorted
  <2>3. <<Sep>> \o s[k] \in Seq(Mixed)
    BY <2>1, <2>2, PartIs DEF Part
  <2> QED
    BY ONLY <1>1, <2>3, ConcatIs
<1>11. N + 1 \in Nat \ {0}
  BY <1>1
<1>12. Listed(s, k, q, l \o (<<Sep>> \o s[k]))
  BY <1>1, <1>4, <1>5, <1>6, <1>7, <1>8, <1>9, <1>10, <1>11 DEF Listed, T
<1> QED
  BY <1>12

(* unique_value and countunique: every string that differs from the one    *)
(* before it, once.                                                        *)
LEMMA UniqueIs ==
  ASSUME NEW n \in Nat \ {0}, NEW s, Sorted(s, n)
  PROVE  \E r : Listed(s, n, r, UniqueValues(s))
<1>1. DOMAIN s = 1 .. n /\ \A i \in 1 .. n : s[i] \in Seq(Nat)
  BY ShownIs DEF Sorted
<1> DEFINE t == [i \in DOMAIN s |-> IF ~IsNew(s, i) THEN << >>
                                    ELSE IF i = 1 THEN s[i] ELSE <<Sep>> \o s[i]]
<1>2. UniqueValues(s) = FlattenSeq(t)
  BY DEF UniqueValues
<1>3. t \in [1 .. n -> {t[i] : i \in 1 .. n}]
      /\ \A i \in 1 .. n : t[i] = IF ~IsNew(s, i) THEN << >>
                                  ELSE IF i = 1 THEN s[i] ELSE <<Sep>> \o s[i]
  BY <1>1
<1> HIDE DEF t
<1>4. Len(t) = n
  BY ONLY <1>3, n \in Nat \ {0}, FunctionIsSeq
<1>5. PICK f : /\ f[1] = t[1]
               /\ \A i \in 2 .. n : f[i] = f[i-1] \o t[i]
               /\ FlattenSeq(t) = f[n]
  BY <1>4, FlattenSeqIs
<1> DEFINE S == {k \in 1 .. n : \E r : Listed(s, k, r, f[k])}
<1>6. 1 \in S
  <2>1. 1 \in 1 .. n /\ IsNew(s, 1)
    BY DEF IsNew
  <2>2. f[1] = s[1]
    BY <1>3, <1>5, <2>1
  <2>3. Listed(s, 1, [i \in 1 .. 1 |-> s[1]], s[1])
    BY ListedOne
  <2> QED
    BY <2>1, <2>2, <2>3
<1>7. \A k \in 1 + 1 .. n : k - 1 \in S => k \in S
  <2> SUFFICES ASSUME NEW k \in 1 + 1 .. n, k - 1 \in S
               PROVE  k \in S
    OBVIOUS
  <2>1. k \in 2 .. n /\ k \in 1 .. n /\ k # 1
    BY ONLY k \in 1 + 1 .. n, n \in Nat \ {0}
  <2>2. PICK r : Listed(s, k - 1, r, f[k-1])
    OBVIOUS
  <2>3. f[k] = f[k-1] \o t[k]
    BY <1>5, <2>1
  <2>4. CASE IsNew(s, k)
    <3>1. t[k] = <<Sep>> \o s[k]
      BY <1>3, <2>1, <2>4
    <3>2. \E q : Listed(s, k, q, f[k-1] \o (<<Sep>> \o s[k]))
      BY <2>1, <2>2, <2>4, ListedNew
    <3> QED
      BY <2>1, <2>3, <3>1, <3>2
  <2>5. CASE ~IsNew(s, k)
    <3>1. t[k] = << >>
      BY <1>3, <2>1, <2>5
    <3>2. f[k-1] \in Seq(Mixed)
      BY <2>2 DEF Listed
    <3>3. f[k] = f[k-1]
      BY <2>3, <3>1, <3>2, ConcatEmptySeq
    <3>4. Listed(s, k, r, f[k-1])
      BY <2>1, <2>2, <2>5, ListedSame
    <3> QED
      BY <2>1, <3>3, <3>4
  <2> QED
    BY <2>4, <2>5
<1>8. n \in 1 .. n /\ 1 \in Nat /\ n \in Nat
  OBVIOUS
<1> HIDE DEF S
<1>9. n \in S
  BY ONLY <1>6, <1>7, <1>8, StepsFrom
<1> QED
  BY <1>2, <1>5, <1>9 DEF S

-----------------------------------------------------------------------------
(* The strings of a list operation lie in str_buf one after the other, as  *)
(* they were collected.                                                    *)
Stored ==
  /\ Collected
  /\ \A k \in 1 .. count : strs[k] \in Inputs
  /\ op \in Lists => \E e : Ends(e)

LEMMA InitStores == Init => Stored
<1> SUFFICES ASSUME Init PROVE Stored
  OBVIOUS
<1>1. count = 0 /\ strs = << >> /\ str_buf = << >>
  BY DEF Init
<1>2. Used = 0
  BY <1>1 DEF Used
<1>3. Collected /\ \A k \in 1 .. count : strs[k] \in Inputs
  BY <1>1 DEF Collected
<1> DEFINE e == [k \in 0 .. 0 |-> 0]
<1>4. e \in [0 .. 0 -> Nat] /\ e[0] = 0
  <2>1. 0 \in 0 .. 0 /\ 0 \in Nat
    OBVIOUS
  <2> QED
    BY <2>1
<1> HIDE DEF e
<1>5. ~ \E k : k \in 1 .. count
  BY <1>1
<1>6. Ends(e)
  BY ONLY <1>1, <1>2, <1>4, <1>5 DEF Ends
<1> QED
  BY <1>3, <1>6 DEF Stored

(* What Store leaves in the buffer.                                        *)
LEMMA AppendIs ==
  ASSUME NEW kept \in Seq(Nat), NEW str \in Seq(Nat), NEW buf,
         buf = Append(kept \o str, NUL)
  PROVE  /\ buf \in Seq(Nat) /\ Len(buf) = (Len(kept) + Len(str)) + 1
         /\ \A i \in 1 .. Len(kept) : buf[i] = kept[i]
         /\ \A j \in 1 .. Len(str) : buf[Len(kept) + j] = str[j]
         /\ buf[(Len(kept) + Len(str)) + 1] = NUL
<1> DEFINE both == kept \o str
           m == Len(kept)
           n == Len(str)
<1>1. m \in Nat /\ n \in Nat /\ NUL \in Nat
  BY LenProperties DEF NUL
<1>2. /\ both \in Seq(Nat) /\ Len(both) = m + n
      /\ \A i \in 1 .. m + n : both[i] = IF i <= m THEN kept[i] ELSE str[i - m]
  BY ConcatProperties
<1>3. buf = Append(both, NUL)
  OBVIOUS
<1> HIDE DEF both
<1>4. /\ buf \in Seq(Nat) /\ Len(buf) = (m + n) + 1
      /\ \A i \in 1 .. m + n : buf[i] = both[i]
      /\ buf[(m + n) + 1] = NUL
  <2>1. /\ buf \in Seq(Nat) /\ Len(buf) = Len(both) + 1
        /\ \A i \in 1 .. Len(both) : buf[i] = both[i]
        /\ buf[Len(both) + 1] = NUL
    BY ONLY <1>1, <1>2, <1>3, AppendProperties
  <2> HIDE DEF m, n
  <2> QED
    BY ONLY <1>2, <2>1
<1> HIDE DEF m, n
<1>5. \A i \in 1 .. m : i \in 1 .. m + n /\ i <= m
  BY ONLY <1>1
<1>6. \A j \in 1 .. n : m + j \in 1 .. m + n /\ ~(m + j <= m) /\ (m + j) - m = j
  BY ONLY <1>1
<1>7. (\A i \in 1 .. m : buf[i] = kept[i]) /\ \A j \in 1 .. n : buf[m + j] = str[j]
  BY ONLY <1>2, <1>4, <1>5, <1>6
<1> QED
  BY <1>4, <1>7 DEF m, n

(* The next string ends where the buffer ends.                             *)
LEMMA CollectStores ==
  ASSUME Stored, NEW str \in Inputs, Collect(str), TypeOK'
  PROVE  Stored'
<1>1. str \in Seq(Nat)
  BY OpBuffersAssumption
<1>2. /\ count \in Nat /\ strs \in Seq(Seq(Nat)) /\ Len(strs) = count
      /\ str_buf \in Seq(Nat)
      /\ \A k \in 1 .. count : strs[k] \in Inputs
  BY DEF Stored, Collected
<1>3. op' = op /\ count' = count + 1 /\ strs' = Append(strs, str)
  BY DEF Collect
<1>4. /\ strs' \in Seq(Seq(Nat)) /\ Len(strs') = count + 1
      /\ \A k \in 1 .. count : strs'[k] = strs[k]
      /\ strs'[count + 1] = str
  BY <1>1, <1>2, <1>3, AppendProperties
<1>5. \A k \in 1 .. count + 1 : k \in 1 .. count \/ k = count + 1
  BY <1>2
<1>6. Collected' /\ \A k \in 1 .. count' : strs'[k] \in Inputs
  <2>1. str_buf' \in Seq(Nat) /\ count + 1 \in Nat
    BY <1>2 DEF TypeOK
  <2> QED
    BY <1>2, <1>3, <1>4, <1>5, <2>1 DEF Collected
<1>7. ASSUME op \in Lists, NEW e, Ends(e)
      PROVE  \E f : Ends(f)'
  <2> DEFINE U == Len(str_buf)
             L == Len(str)
  <2>1. str_buf' = Append(str_buf \o str, NUL)
    BY <1>7 DEF Collect, AddString, ReplaceString, AddValue, Decode, Store,
                Lists, Latest, Paths, Vectors
  <2>2. /\ Len(str_buf') = (U + L) + 1
        /\ \A i \in 1 .. U : str_buf'[i] = str_buf[i]
        /\ \A j \in 1 .. L : str_buf'[U + j] = str[j]
        /\ str_buf'[(U + L) + 1] = NUL
    BY ONLY <1>1, <1>2, <2>1, AppendIs
  <2>3. U \in Nat /\ L \in Nat
    BY <1>1, <1>2, LenProperties
  <2>4. Used' = (U + L) + 1 /\ Used = U
    BY <2>2 DEF Used
  <2> HIDE DEF U, L
  <2>5. /\ e \in [0 .. count -> Nat] /\ e[0] = 0 /\ e[count] = U
        /\ \A k \in 1 .. count :
             /\ e[k] = (e[k-1] + Len(strs[k])) + 1
             /\ str_buf[e[k]] = NUL
             /\ \A j \in 1 .. Len(strs[k]) : str_buf[e[k-1] + j] = strs[k][j]
    BY <1>7, <2>4 DEF Ends
  <2>6. /\ \A k \in 1 .. count :
             Len(strs[k]) \in Nat /\ e[k] \in Nat /\ e[k-1] \in Nat
        /\ \A k \in 0 .. count : e[k] \in Nat /\ e[k] <= U
    BY <1>7, <2>4, EndsFacts DEF Stored
  <2>7. PICK f \in [0 .. count + 1 -> Nat] :
          /\ \A k \in 0 .. count : f[k] = e[k]
          /\ f[count + 1] = (U + L) + 1
    <3> DEFINE g == [k \in 0 .. count + 1 |-> IF k <= count THEN e[k] ELSE (U + L) + 1]
    <3>1. \A k \in 0 .. count : k \in 0 .. count + 1 /\ k <= count
      BY ONLY <1>2
    <3>2. count + 1 \in 0 .. count + 1 /\ ~(count + 1 <= count) /\ (U + L) + 1 \in Nat
      BY ONLY <1>2, <2>3
    <3>3. \A k \in 0 .. count + 1 : k <= count => k \in 0 .. count
      BY ONLY <1>2
    <3>4. /\ g \in [0 .. count + 1 -> Nat]
          /\ \A k \in 0 .. count : g[k] = e[k]
          /\ g[count + 1] = (U + L) + 1
      BY <2>6, <3>1, <3>2, <3>3
    <3> HIDE DEF g
    <3> QED
      BY ONLY <3>4
  <2>8. 0 \in 0 .. count /\ count \in 0 .. count
    BY ONLY <1>2
  <2>9. ASSUME NEW k \in 1 .. count
        PROVE  /\ f[k] = (f[k-1] + Len(strs'[k])) + 1
               /\ str_buf'[f[k]] = NUL
               /\ \A j \in 1 .. Len(strs'[k]) : str_buf'[f[k-1] + j] = strs'[k][j]
    <3>1. k \in 0 .. count /\ k - 1 \in 0 .. count
      BY ONLY <1>2, k \in 1 .. count
    <3>2. f[k] = e[k] /\ f[k-1] = e[k-1] /\ strs'[k] = strs[k]
      BY <1>4, <2>7, <3>1
    <3>3. e[k] \in Nat /\ e[k-1] \in Nat /\ Len(strs[k]) \in Nat /\ e[k] <= U
          /\ e[k] = (e[k-1] + Len(strs[k])) + 1
      BY <2>5, <2>6, <3>1
    <3>4. e[k] \in 1 .. U /\ \A j \in 1 .. Len(strs[k]) : e[k-1] + j \in 1 .. U
      BY ONLY <2>3, <3>3, SMTT(30)
    <3>5. str_buf'[e[k]] = NUL
      BY ONLY <2>2, <2>5, <3>4, k \in 1 .. count
    <3>6. \A j \in 1 .. Len(strs[k]) : str_buf'[e[k-1] + j] = strs[k][j]
      BY ONLY <2>2, <2>5, <3>4, k \in 1 .. count
    <3> QED
      BY ONLY <3>2, <3>3, <3>5, <3>6
  <2>10. ASSUME NEW k, k = count + 1
         PROVE  /\ f[k] = (f[k-1] + Len(strs'[k])) + 1
                /\ str_buf'[f[k]] = NUL
                /\ \A j \in 1 .. Len(strs'[k]) : str_buf'[f[k-1] + j] = strs'[k][j]
    <3>1. k - 1 = count
      BY ONLY <1>2, <2>10
    <3>2. f[k] = (U + L) + 1 /\ f[k-1] = U /\ strs'[k] = str /\ Len(str) = L
      BY <1>4, <2>5, <2>7, <2>8, <2>10, <3>1 DEF L
    <3> QED
      BY ONLY <2>2, <3>2
  <2>11. \A k \in 1 .. count + 1 :
           /\ f[k] = (f[k-1] + Len(strs'[k])) + 1
           /\ str_buf'[f[k]] = NUL
           /\ \A j \in 1 .. Len(strs'[k]) : str_buf'[f[k-1] + j] = strs'[k][j]
    BY ONLY <1>5, <2>9, <2>10
  <2>12. f[0] = 0
    BY <2>5, <2>7, <2>8
  <2>13. Ends(f)'
    BY ONLY <1>3, <2>4, <2>7, <2>11, <2>12 DEF Ends
  <2> QED
    BY <2>13
<1>8. op' \in Lists => (\E e : Ends(e))'
  BY <1>3, <1>7 DEF Stored
<1> QED
  BY <1>6, <1>8 DEF Stored

LEMMA SameStores ==
  ASSUME Stored, op' = op, count' = count, strs' = strs, str_buf' = str_buf
  PROVE  Stored'
<1>1. Used' = Used
  BY DEF Used
<1>2. \A e : Ends(e) => Ends(e)'
  BY <1>1 DEF Ends
<1>3. Collected' /\ \A k \in 1 .. count' : strs'[k] \in Inputs
  BY DEF Stored, Collected
<1>4. op' \in Lists => \E e : Ends(e)'
  BY <1>2 DEF Stored
<1> QED
  BY <1>3, <1>4 DEF Stored

LEMMA ResetStores ==
  ASSUME Reset
  PROVE  Stored'
<1>1. count' = 0 /\ strs' = << >> /\ str_buf' = << >>
  BY DEF Reset
<1>2. Used' = 0
  BY <1>1 DEF Used
<1>3. Collected' /\ \A k \in 1 .. count' : strs'[k] \in Inputs
  BY <1>1 DEF Collected
<1> DEFINE e == [k \in 0 .. 0 |-> 0]
<1>4. e \in [0 .. 0 -> Nat] /\ e[0] = 0
  <2>1. 0 \in 0 .. 0 /\ 0 \in Nat
    OBVIOUS
  <2> QED
    BY <2>1
<1> HIDE DEF e
<1>5. ~ \E k : k \in 1 .. count'
  BY <1>1
<1>6. Ends(e)'
  BY ONLY <1>1, <1>2, <1>4, <1>5 DEF Ends
<1> QED
  BY <1>3, <1>6 DEF Stored

-----------------------------------------------------------------------------
(* What ListsAreRight asks of what is printed.                             *)
RightList(printed) ==
  LET different == {Shown(s) : s \in Range(strs)}
      n == Cardinality(different)
  IN  /\ op = "collapse" => printed = Joined(strs)
      /\ op = "countunique" => printed = <<n>>
      /\ op = "unique" =>
           \E s \in [1 .. n -> Range(strs)] :
             /\ {Shown(s[i]) : i \in 1 .. n} = different
             /\ \A i \in 1 .. n - 1 : AtMost(s[i], s[i + 1])
             /\ printed = Joined(s)

NulFree == \A s \in Range(strs) : NUL \notin Range(s)

LEMMA SameRight ==
  ASSUME op' = op, case_sensitive' = case_sensitive, count' = count, strs' = strs,
         phase' = "print" /\ count > 0 /\ NulFree => RightList(out_buf')
  PROVE  ListsAreRight'
<1>1. \A s : Shown(s)' = Shown(s)
  BY DEF Shown
<1>2. \A s, t : AtMost(s, t)' <=> AtMost(s, t)
  BY <1>1 DEF AtMost
<1>3. {Shown(s) : s \in Range(strs)}' = {Shown(s) : s \in Range(strs)}
  BY <1>1
<1>4. SUFFICES ASSUME phase' = "print", count > 0, NulFree
               PROVE  RightList(out_buf)'
  BY DEF ListsAreRight, RightList, NulFree
<1>5. RightList(out_buf')
  BY <1>4
<1> QED
  BY <1>1, <1>2, <1>3, <1>5 DEF RightList

(* No string collected holds a NUL.                                        *)
LEMMA NulFreeIs ==
  ASSUME Collected, NulFree
  PROVE  NoNul
<1>1. ASSUME NEW k \in 1 .. count, NEW j \in 1 .. Len(strs[k])
      PROVE  strs[k][j] # NUL
  <2>1. DOMAIN strs = 1 .. count /\ strs[k] \in Seq(Nat)
    BY LenProperties DEF Collected
  <2>2. strs[k] \in Range(strs) /\ DOMAIN strs[k] = 1 .. Len(strs[k])
    BY <2>1, LenProperties DEF Range
  <2>3. strs[k][j] \in Range(strs[k])
    BY <2>2 DEF Range
  <2> QED
    BY <2>2, <2>3 DEF NulFree
<1> QED
  BY <1>1 DEF NoNul

(* The different strings in ascending order.                               *)
LEMMA UniqueIsRight ==
  ASSUME Stored, count # 0, op = "unique", NEW s \in SortedFrom(strs)
  PROVE  RightList(UniqueValues(s))
<1> DEFINE different == {Shown(t) : t \in Range(strs)}
           n == Cardinality(different)
           printed == UniqueValues(s)
<1>1. count \in Nat \ {0} /\ Collected /\ \A k \in 1 .. count : strs[k] \in Inputs
  BY DEF Stored, Collected
<1>2. Sorted(s, count) /\ {s[i] : i \in 1 .. count} = Range(strs)
  BY <1>1, SortedIs
<1>3. PICK r : Listed(s, count, r, printed)
  BY <1>1, <1>2, UniqueIs
<1>4. ShownTo(s, count) = different
  BY <1>2 DEF ShownTo
<1>5. /\ n \in Nat \ {0}
      /\ r \in [1 .. n -> Range(strs)]
      /\ {Shown(r[i]) : i \in 1 .. n} = different
      /\ \A i \in 1 .. n - 1 : Lex(Shown(r[i]), Shown(r[i + 1]))
      /\ printed = Joined(r)
  <2> HIDE DEF different, printed
  <2> QED
    BY <1>2, <1>3, <1>4 DEF Listed
<1> HIDE DEF n, printed
<1>6. Range(strs) \subseteq Inputs
  <2>1. \A i \in 1 .. count : s[i] \in Inputs
    BY <1>2 DEF Sorted
  <2> QED
    BY ONLY <1>2, <2>1
<1>7. \A i \in 1 .. n - 1 : AtMost(r[i], r[i + 1])
  <2> SUFFICES ASSUME NEW i \in 1 .. n - 1
               PROVE  AtMost(r[i], r[i + 1])
    OBVIOUS
  <2>1. i \in 1 .. n /\ i + 1 \in 1 .. n
    BY ONLY <1>5, i \in 1 .. n - 1
  <2>2. r[i] \in Inputs /\ r[i + 1] \in Inputs
    BY ONLY <1>5, <1>6, <2>1
  <2> QED
    BY <1>5, <2>2, AtMostIs
<1> QED
  BY <1>5, <1>7 DEF RightList, n, printed

(* Their number.                                                           *)
LEMMA CountIsRight ==
  ASSUME Stored, count # 0, op = "countunique", NEW s \in SortedFrom(strs)
  PROVE  RightList(<<Cardinality({i \in DOMAIN s : IsNew(s, i)})>>)
<1> DEFINE different == {Shown(t) : t \in Range(strs)}
<1>1. count \in Nat \ {0} /\ Collected /\ \A k \in 1 .. count : strs[k] \in Inputs
  BY DEF Stored, Collected
<1>2. Sorted(s, count) /\ {s[i] : i \in 1 .. count} = Range(strs)
  BY <1>1, SortedIs
<1>3. PICK r : Listed(s, count, r, UniqueValues(s))
  BY <1>1, <1>2, UniqueIs
<1>4. ShownTo(s, count) = different
  BY <1>2 DEF ShownTo
<1>5. DOMAIN s = 1 .. count
  BY <1>2 DEF Sorted
<1>6. NewTo(s, count) = {i \in DOMAIN s : IsNew(s, i)}
  BY ONLY <1>5 DEF NewTo
<1>7. Cardinality(NewTo(s, count)) = Cardinality(ShownTo(s, count))
  BY <1>3 DEF Listed
<1>8. Cardinality({i \in DOMAIN s : IsNew(s, i)}) = Cardinality(different)
  <2> HIDE DEF different
  <2> QED
    BY ONLY <1>4, <1>6, <1>7
<1> QED
  BY <1>8 DEF RightList

(* field_op_summarize prints what was collected.                           *)
LEMMA SummarizeIsRight ==
  ASSUME Stored, Summarize, count > 0, NulFree
  PROVE  RightList(out_buf')
<1>1. Collected /\ NoNul /\ count # 0
  BY NulFreeIs DEF Stored, Collected
<1>2. CASE op \notin Lists
  BY <1>2 DEF RightList, Lists
<1>3. CASE op \in Lists
  <2>1. PICK e : Ends(e)
    BY <1>3 DEF Stored
  <2>2. StringPtrs = strs /\ CollapsedValues = Joined(strs)
    BY <1>1, <2>1, PtrsAreStrs, CollapseIs
  <2>3. SummarizeLists
    BY <1>1, <1>3 DEF Summarize, Lists, SummarizeLast, SummarizeEncoded,
                      SummarizeDirname, SummarizeBasename, SummarizeNumbers
  <2>4. CASE op = "collapse"
    <3>1. out_buf' = CollapsedValues
      BY <2>3, <2>4 DEF SummarizeLists, Result
    <3> QED
      BY <2>2, <2>4, <3>1 DEF RightList
  <2>5. CASE op = "unique"
    <3>1. PICK s \in SortedFrom(StringPtrs) :
            Result(UniqueValues(s), Used, Used, Len(UniqueValues(s)) + 1)
      BY <2>3, <2>5 DEF SummarizeLists
    <3>2. s \in SortedFrom(strs) /\ out_buf' = UniqueValues(s)
      BY <2>2, <3>1 DEF Result
    <3>3. RightList(UniqueValues(s))
      BY <1>1, <2>5, <3>2, UniqueIsRight
    <3> QED
      BY ONLY <3>2, <3>3
  <2>6. CASE op = "countunique"
    <3>1. PICK s \in SortedFrom(StringPtrs) :
            PrintNumber(Cardinality({i \in DOMAIN s : IsNew(s, i)}))
      BY <2>3, <2>6 DEF SummarizeLists
    <3>2. s \in SortedFrom(strs)
          /\ out_buf' = <<Cardinality({i \in DOMAIN s : IsNew(s, i)})>>
      BY <2>2, <3>1 DEF PrintNumber, Result
    <3>3. RightList(<<Cardinality({i \in DOMAIN s : IsNew(s, i)})>>)
      BY <1>1, <2>6, <3>2, CountIsRight
    <3> QED
      BY ONLY <3>2, <3>3
  <2> QED
    BY <1>3, <2>4, <2>5, <2>6 DEF Lists
<1> QED
  BY <1>2, <1>3

(* From the bytes of the buffer collapse gives all strings of the group in *)
(* their order, unique the different ones in ascending order and           *)
(* countunique their number, with case or without, whatever was collected  *)
(* before, if no string holds a NUL (field_op_add_string,                  *)
(* field_op_get_string_ptrs, unique_value, count_unique, collapse_value).  *)
THEOREM ListsComeOutRight == Spec => []ListsAreRight
<1>1. Init => Stored /\ ListsAreRight
  <2>1. Init => ListsAreRight
    BY DEF Init, ListsAreRight
  <2> QED
    BY <2>1, InitStores
<1>2. ASSUME Stored, ListsAreRight, TypeOK, TypeOK', [Next]_vars
      PROVE  Stored' /\ ListsAreRight'
  <2>1. CASE \E str \in Inputs : Collect(str)
    <3>1. PICK str \in Inputs : Collect(str)
      BY <2>1
    <3>2. phase' = "collect"
      BY <3>1 DEF Collect
    <3> QED
      BY <1>2, <3>1, <3>2, CollectStores DEF ListsAreRight
  <2>2. CASE Summarize
    <3>1. op' = op /\ case_sensitive' = case_sensitive /\ count' = count
          /\ strs' = strs /\ str_buf' = str_buf
      BY <2>2 DEF Summarize
    <3>2. count > 0 /\ NulFree => RightList(out_buf')
      BY <1>2, <2>2, SummarizeIsRight
    <3> QED
      BY <1>2, <3>1, <3>2, SameStores, SameRight
  <2>3. CASE Reset
    <3>1. phase' = "collect"
      BY <2>3 DEF Reset
    <3> QED
      BY <2>3, <3>1, ResetStores DEF ListsAreRight
  <2>4. CASE UNCHANGED vars
    <3>1. op' = op /\ case_sensitive' = case_sensitive /\ count' = count
          /\ strs' = strs /\ str_buf' = str_buf /\ out_buf' = out_buf /\ phase' = phase
      BY <2>4 DEF vars
    <3>2. phase = "print" /\ count > 0 /\ NulFree => RightList(out_buf)
      BY <1>2 DEF ListsAreRight, RightList, NulFree
    <3>3. phase' = "print" /\ count > 0 /\ NulFree => RightList(out_buf')
      BY <3>1, <3>2
    <3> QED
      BY <1>2, <3>1, <3>3, SameStores, SameRight
  <2> QED
    BY <1>2, <2>1, <2>2, <2>3, <2>4 DEF Next
<1>3. Spec => []TypeOK
  BY TypeCorrect
<1>4. Stored /\ ListsAreRight /\ TypeOK /\ TypeOK' /\ [Next]_vars
        => Stored' /\ ListsAreRight'
  BY <1>2
<1> QED
  BY <1>1, <1>3, <1>4, PTL DEF Spec

-----------------------------------------------------------------------------
(* rmdup: memory.                                                          *)

(* A copy can be read back.                                                *)
LEMMA WriteHolds ==
  ASSUME NEW m, NEW p \in Cell, NEW k \in Keys
  PROVE  Holds(Write(m, p, k), p, k)
  <1>1. p[1] \in Nat /\ p[2] \in Nat /\ KeyLen[k] \in Nat
    BY RmdupAssumption DEF Cell
  <1>2. ASSUME NEW i \in 0 .. KeyLen[k]
        PROVE  /\ <<p[1], p[2] + i>> \in Cells(p, k)
               /\ <<p[1], p[2] + i>>[2] - p[2] = i
    BY <1>1 DEF Cells
  <1> QED BY <1>2 DEF Holds, Write

(* A copy leaves the strings alone that share no cell with it.             *)
LEMMA WriteKeeps ==
  ASSUME NEW m, NEW p, NEW k, NEW q, NEW j, Holds(m, q, j),
         \A i \in 0 .. KeyLen[j] : <<q[1], q[2] + i>> \notin Cells(p, k)
  PROVE  Holds(Write(m, p, k), q, j)
  BY DEF Holds, Write

(* There is one string at a pointer.                                       *)
LEMMA HoldsUnique ==
  ASSUME NEW m, NEW p, NEW k \in Keys, NEW j \in Keys,
         Holds(m, p, k), Holds(m, p, j)
  PROVE  k = j
  <1>1. 0 \in 0 .. KeyLen[k] /\ 0 \in 0 .. KeyLen[j]
    BY RmdupAssumption
  <1>2. m[<<p[1], p[2] + 0>>] = <<k, 0>> /\ m[<<p[1], p[2] + 0>>] = <<j, 0>>
    BY <1>1 DEF Holds
  <1> QED BY <1>2

(* The hash table finds a key just when it was seen, provided that no      *)
(* entry was damaged.                                                      *)
LEMMA FoundIsSeen ==
  ASSUME RmdupTypeOK, NEW m, NEW key \in Keys,
         \A p \in DOMAIN ht : Holds(m, p, ht[p])
  PROVE  Found(m, key) <=> CKey[key] \in Seen
  <1>1. ASSUME Found(m, key) PROVE CKey[key] \in Seen
    <2>1. PICK p \in DOMAIN ht, k \in Keys :
                 Holds(m, p, k) /\ CKey[k] = CKey[key]
      BY <1>1 DEF Found
    <2>2. k = ht[p]
      BY <2>1, HoldsUnique DEF RmdupTypeOK
    <2> QED BY <2>1, <2>2 DEF Seen
  <1>2. ASSUME CKey[key] \in Seen PROVE Found(m, key)
    <2>1. PICK p \in DOMAIN ht : CKey[key] = CKey[ht[p]]
      BY <1>2 DEF Seen
    <2> QED BY <2>1 DEF Found, RmdupTypeOK
  <1> QED BY <1>1, <1>2

-----------------------------------------------------------------------------
(* The inductive invariant: next_key_pos is beyond every string that the   *)
(* hash table points to in the last buffer.                                *)

Below ==
  \A p \in DOMAIN ht :
    /\ p[1] \in DOMAIN buffer_list
    /\ p[1] = Len(buffer_list) => p[2] + KeyLen[ht[p]] + 1 <= next_key_pos

KeysInv == RmdupTypeOK /\ CopiesInBounds /\ KeysIntact /\ Below

LEMMA KeysInvInit == RmdupInit => KeysInv
  <1> SUFFICES ASSUME RmdupInit PROVE KeysInv
    OBVIOUS
  <1>1. Len(input) \in Nat /\ rmdup_initial_size \in Nat
    BY RmdupAssumption DEF RmdupInit
  <1>2. DOMAIN mem = {} /\ DOMAIN ht = {}
    BY DEF RmdupInit
  <1>3. RmdupTypeOK
    BY <1>1, <1>2 DEF RmdupInit, RmdupTypeOK
  <1> QED BY <1>2, <1>3 DEF KeysInv, CopiesInBounds, KeysIntact, Below

LEMMA RmdupFacts ==
  ASSUME RmdupTypeOK
  PROVE  /\ input \in Seq(Keys \cup {Missing})
         /\ Len(input) \in Nat /\ pos \in Nat /\ pos <= Len(input)
         /\ Len(buffer_list) \in Nat \ {0}
         /\ DOMAIN buffer_list = 1 .. Len(buffer_list)
  <1>1. input \in Seq(Keys \cup {Missing})
    BY RmdupAssumption DEF RmdupTypeOK
  <1>2. Len(input) \in Nat
    BY <1>1
  <1>3. pos \in Nat /\ pos <= Len(input)
    <2>1. pos \in 0 .. Len(input)
      BY DEF RmdupTypeOK
    <2> QED BY <1>2, <2>1
  <1>4. buffer_list \in Seq(Nat) /\ buffer_list # << >>
    BY DEF RmdupTypeOK
  <1>5. Len(buffer_list) \in Nat \ {0} /\ DOMAIN buffer_list = 1 .. Len(buffer_list)
    BY <1>4
  <1> QED BY <1>1, <1>2, <1>3, <1>5

(* Where a key is copied to, in the buffers as they are then.              *)
LEMMA TargetFacts ==
  ASSUME KeysInv, NEW key \in Keys, MakeRoom(key)
  PROVE  LET p == Target(key)
         IN  /\ p \in Cell /\ p[1] = Len(buffer_list')
             /\ buffer_list' \in Seq(Nat) /\ buffer_list' # << >>
             /\ keys_buffer_alloc' \in Nat
             /\ keys_buffer_alloc' = buffer_list'[Len(buffer_list')]
             /\ p[2] + KeyLen[key] + 1 <= keys_buffer_alloc'
             /\ \A b \in DOMAIN buffer_list :
                  b \in DOMAIN buffer_list' /\ buffer_list'[b] = buffer_list[b]
             /\ \A q \in DOMAIN ht :
                  q[1] = p[1] => q[2] + KeyLen[ht[q]] + 1 <= p[2]
  <1> DEFINE p == Target(key)
  <1>0. /\ KeyLen[key] \in Nat /\ keys_buffer_alloc \in Nat
        /\ next_key_pos \in 0 .. keys_buffer_alloc
        /\ buffer_list \in Seq(Nat) /\ Len(buffer_list) \in Nat \ {0}
        /\ keys_buffer_alloc = buffer_list[Len(buffer_list)]
        /\ DOMAIN buffer_list = 1 .. Len(buffer_list)
    <2>1. KeyLen[key] \in Nat
      BY RmdupAssumption
    <2> QED BY <2>1, RmdupFacts DEF KeysInv, RmdupTypeOK
  <1>1. CASE Full(key)
    <2>1. /\ p = <<Len(buffer_list) + 1, 0>>
          /\ keys_buffer_alloc' = NewAlloc(key)
          /\ buffer_list' = Append(buffer_list, NewAlloc(key))
      BY <1>1 DEF Target, MakeRoom
    <2>2. NewAlloc(key) \in Nat /\ KeyLen[key] + 1 <= NewAlloc(key)
      BY <1>0 DEF NewAlloc
    <2>3. \A q \in DOMAIN ht : q[1] # Len(buffer_list) + 1
      BY <1>0 DEF KeysInv, Below
    <2> QED BY <1>0, <2>1, <2>2, <2>3 DEF Cell
  <1>2. CASE ~Full(key)
    <2>1. /\ p = <<Len(buffer_list), next_key_pos>>
          /\ keys_buffer_alloc' = keys_buffer_alloc
          /\ buffer_list' = buffer_list
      BY <1>2 DEF Target, MakeRoom
    <2>2. next_key_pos + KeyLen[key] + 1 <= keys_buffer_alloc
      BY <1>0, <1>2 DEF Full
    <2> QED BY <1>0, <2>1, <2>2 DEF Cell, KeysInv, Below
  <1> QED BY <1>1, <1>2

(* A copy disturbs nothing that the hash table points to.                  *)
LEMMA CopyKeeps ==
  ASSUME KeysInv, NEW key \in Keys, MakeRoom(key)
  PROVE  \A q \in DOMAIN ht : Holds(Write(mem, Target(key), key), q, ht[q])
  <1> DEFINE p == Target(key)
  <1> SUFFICES ASSUME NEW q \in DOMAIN ht
               PROVE  Holds(Write(mem, p, key), q, ht[q])
    OBVIOUS
  <1>1. Holds(mem, q, ht[q]) /\ ht[q] \in Keys /\ q \in Cell
    BY DEF KeysInv, KeysIntact, RmdupTypeOK
  <1>2. p \in Cell /\ (q[1] = p[1] => q[2] + KeyLen[ht[q]] + 1 <= p[2])
    BY TargetFacts
  <1> HIDE DEF p
  <1>3. p[2] \in Nat /\ q[2] \in Nat /\ KeyLen[ht[q]] \in Nat /\ KeyLen[key] \in Nat
    BY <1>1, <1>2, RmdupAssumption DEF Cell
  <1>4. ASSUME NEW i \in 0 .. KeyLen[ht[q]], NEW n \in 0 .. KeyLen[key],
               <<q[1], q[2] + i>> = <<p[1], p[2] + n>>
        PROVE  FALSE
    <2>1. q[1] = p[1] /\ q[2] + i = p[2] + n
      BY <1>4
    <2> QED BY <1>2, <1>3, <2>1
  <1>5. \A i \in 0 .. KeyLen[ht[q]] : <<q[1], q[2] + i>> \notin Cells(p, key)
    BY <1>4 DEF Cells
  <1> QED BY <1>1, <1>5, WriteKeeps

-----------------------------------------------------------------------------
(* One step.                                                               *)

LEMMA ReadLineInv ==
  ASSUME KeysInv, ReadLine
  PROVE  KeysInv'
  <1> DEFINE key == input[pos + 1]
             p == Target(key)
             m == Write(mem, p, key)
  <1>0. /\ pos \in Nat /\ Len(input) \in Nat /\ pos < Len(input)
        /\ pos' = pos + 1 /\ input' = input /\ headers' = headers
        /\ status' = status /\ MakeRoom(key) /\ AddKey(key)
    BY RmdupAssumption DEF KeysInv, RmdupTypeOK, ReadLine
  <1>1. key \in Keys
    <2>1. input \in Seq(Keys \cup {Missing})
      BY RmdupAssumption DEF KeysInv, RmdupTypeOK
    <2>2. pos + 1 \in 1 .. Len(input)
      BY <1>0
    <2> QED BY <2>1, <2>2 DEF ReadLine
  <1>2. /\ p \in Cell /\ p[1] = Len(buffer_list')
        /\ buffer_list' \in Seq(Nat) /\ buffer_list' # << >>
        /\ keys_buffer_alloc' \in Nat
        /\ keys_buffer_alloc' = buffer_list'[Len(buffer_list')]
        /\ p[2] + KeyLen[key] + 1 <= keys_buffer_alloc'
        /\ \A b \in DOMAIN buffer_list :
             b \in DOMAIN buffer_list' /\ buffer_list'[b] = buffer_list[b]
        /\ \A q \in DOMAIN ht : q[1] = p[1] => q[2] + KeyLen[ht[q]] + 1 <= p[2]
    BY <1>0, <1>1, TargetFacts
  <1>3. /\ \A q \in DOMAIN ht : Holds(m, q, ht[q])
        /\ Holds(m, p, key)
    BY <1>0, <1>1, <1>2, CopyKeeps, WriteHolds
  <1>4. /\ mem' = m
        /\ \/ next_key_pos' = p[2] /\ ht' = ht
           \/ /\ next_key_pos' = p[2] + KeyLen[key] + 1
              /\ ht' = [q \in DOMAIN ht \cup {p} |-> IF q = p THEN key ELSE ht[q]]
    BY <1>0 DEF AddKey
  <1>5. KeyLen[key] \in Nat /\ p[2] \in Nat /\ p[1] \in Nat \ {0}
    BY <1>1, <1>2, RmdupAssumption DEF Cell
  <1>6. DOMAIN m = DOMAIN mem \cup Cells(p, key)
    BY DEF Write
  <1>7. \A c \in Cells(p, key) : /\ c \in Cell /\ c[1] = p[1]
                                 /\ c[2] < p[2] + KeyLen[key] + 1
    BY <1>5 DEF Cells, Cell
  <1>8. /\ DOMAIN ht' \subseteq DOMAIN ht \cup {p}
        /\ \A q \in DOMAIN ht' : \/ q = p /\ ht'[q] = key
                                 \/ q \in DOMAIN ht /\ ht'[q] = ht[q]
    BY <1>4
  <1> HIDE DEF key, p, m
  <1>9. RmdupTypeOK'
    <2>1. next_key_pos' \in 0 .. keys_buffer_alloc'
      BY <1>2, <1>4, <1>5
    <2>2. DOMAIN mem' \subseteq Cell
      BY <1>4, <1>6, <1>7 DEF KeysInv, RmdupTypeOK
    <2>3. DOMAIN ht' \subseteq Cell /\ \A q \in DOMAIN ht' : ht'[q] \in Keys
      BY <1>1, <1>2, <1>8 DEF KeysInv, RmdupTypeOK
    <2>4. pos' \in 0 .. Len(input')
      BY <1>0
    <2> QED BY <1>0, <1>2, <2>1, <2>2, <2>3, <2>4 DEF KeysInv, RmdupTypeOK
  <1>10. CopiesInBounds'
    <2>1. \A c \in DOMAIN mem :
            c[1] \in DOMAIN buffer_list' /\ c[2] < buffer_list'[c[1]]
      BY <1>2 DEF KeysInv, CopiesInBounds
    <2>2. p[1] \in DOMAIN buffer_list'
      BY <1>2, <1>5
    <2>3. \A c \in Cells(p, key) : c[2] < buffer_list'[c[1]]
      <3>1. \A c \in Cells(p, key) : c[2] \in Nat
        BY <1>7 DEF Cell
      <3> QED BY <1>2, <1>5, <1>7, <3>1, SMTT(30)
    <2> QED BY <1>4, <1>6, <1>7, <2>1, <2>2, <2>3 DEF CopiesInBounds
  <1>11. KeysIntact'
    <2>1. \A q \in DOMAIN ht' : Holds(m, q, ht'[q])
      BY <1>3, <1>8
    <2> QED BY <1>4, <2>1 DEF KeysIntact
  <1>12. Below'
    <2>1. ASSUME NEW q \in DOMAIN ht'
          PROVE  /\ q[1] \in DOMAIN buffer_list'
                 /\ q[1] = Len(buffer_list')
                      => q[2] + KeyLen[ht'[q]] + 1 <= next_key_pos'
      <3>1. CASE q = p /\ ht'[q] = key /\ p \notin DOMAIN ht
        <4>1. next_key_pos' = p[2] + KeyLen[key] + 1
          BY <1>4, <2>1, <3>1
        <4> QED BY <1>2, <1>5, <3>1, <4>1
      <3>2. CASE q \in DOMAIN ht /\ ht'[q] = ht[q]
        <4>1. q[1] \in DOMAIN buffer_list'
          BY <1>2, <3>2 DEF KeysInv, Below
        <4>2. q[2] \in Nat /\ KeyLen[ht[q]] \in Nat
          BY <3>2, RmdupAssumption DEF KeysInv, RmdupTypeOK, Cell
        <4>3. p[2] <= next_key_pos'
          BY <1>4, <1>5
        <4>4. next_key_pos' \in Nat
          BY <1>4, <1>5
        <4> QED BY <1>2, <1>5, <3>2, <4>1, <4>2, <4>3, <4>4, SMTT(30)
      <3>3. p \notin DOMAIN ht
        <4>1. ASSUME p \in DOMAIN ht PROVE FALSE
          <5>1. p[2] + KeyLen[ht[p]] + 1 <= p[2]
            BY <1>2, <4>1
          <5>2. KeyLen[ht[p]] \in Nat
            BY <4>1, RmdupAssumption DEF KeysInv, RmdupTypeOK
          <5> QED BY <1>5, <5>1, <5>2
        <4> QED BY <4>1
      <3> QED BY <1>8, <3>1, <3>2, <3>3
    <2> QED BY <2>1 DEF Below
  <1> QED BY <1>9, <1>10, <1>11, <1>12 DEF KeysInv

LEMMA KeysInvNext == KeysInv /\ [RmdupNext]_rmdup_vars => KeysInv'
  <1> SUFFICES ASSUME KeysInv, [RmdupNext]_rmdup_vars PROVE KeysInv'
    OBVIOUS
  <1>0. pos \in Nat /\ Len(input) \in Nat /\ pos <= Len(input)
    BY RmdupFacts DEF KeysInv
  <1>1. CASE ReadLine
    BY <1>1, ReadLineInv
  <1>2. CASE ReadHeader \/ Die \/ Finish \/ UNCHANGED rmdup_vars
    <2>1. /\ input' = input /\ headers' = headers /\ ht' = ht /\ mem' = mem
          /\ keys_buffer_alloc' = keys_buffer_alloc
          /\ next_key_pos' = next_key_pos /\ buffer_list' = buffer_list
      BY <1>2 DEF ReadHeader, Die, Finish, rmdup_vars
    <2>2. /\ pos' \in 0 .. Len(input)
          /\ status' \in {"start", "reading", "done", "missing field"}
      <3>1. \/ pos' = pos
            \/ pos' = pos + 1 /\ pos < Len(input)
            \/ pos' = 1 /\ input # << >>
        BY <1>2 DEF ReadHeader, Die, Finish, rmdup_vars
      <3>2. input # << >> => 1 <= Len(input)
        BY RmdupFacts DEF KeysInv
      <3>3. status' \in {status, "reading", "done", "missing field"}
        BY <1>2 DEF ReadHeader, Die, Finish, rmdup_vars
      <3>4. status \in {"start", "reading", "done", "missing field"}
        BY DEF KeysInv, RmdupTypeOK
      <3>5. pos' \in 0 .. Len(input)
        BY <1>0, <3>1, <3>2
      <3> QED BY <3>3, <3>4, <3>5
    <2>3. RmdupTypeOK'
      BY <2>1, <2>2 DEF KeysInv, RmdupTypeOK
    <2> QED BY <2>1, <2>3 DEF KeysInv, CopiesInBounds, KeysIntact, Below, Holds
  <1> QED BY <1>1, <1>2 DEF RmdupNext

LEMMA KeysInvHolds == RmdupSpec => []KeysInv
  <1> QED BY KeysInvInit, KeysInvNext, PTL DEF RmdupSpec

-----------------------------------------------------------------------------
(* Every variable keeps its type (the type invariant).                     *)
THEOREM KeysTypeSafety == RmdupSpec => []RmdupTypeOK
  <1>1. KeysInv => RmdupTypeOK
    BY DEF KeysInv
  <1> QED BY <1>1, KeysInvHolds, PTL

(* Whatever the lengths of the keys, no copy of a key leaves its buffer    *)
(* and no string in the hash table is overwritten.                         *)
THEOREM KeyBuffersSafe == RmdupSpec => [](CopiesInBounds /\ KeysIntact)
  <1>1. KeysInv => CopiesInBounds /\ KeysIntact
    BY DEF KeysInv
  <1> QED BY <1>1, KeysInvHolds, PTL

(* The hash table keeps pointers into the buffers; what they point to is   *)
(* the key that was stored, until the program ends.                        *)
THEOREM KeysStay == RmdupSpec => []KeysIntact
  <1>1. CopiesInBounds /\ KeysIntact => KeysIntact
    OBVIOUS
  <1> QED BY <1>1, KeyBuffersSafe, PTL

(* hash_compare_strings never gets the same pointer twice.                 *)
THEOREM PointersDiffer == RmdupSpec => []LookupIsFresh
  <1>1. ASSUME KeysInv PROVE LookupIsFresh
    <2> DEFINE p == <<Len(buffer_list), next_key_pos>>
    <2>1. ASSUME p \in DOMAIN ht PROVE FALSE
      <3>1. next_key_pos + KeyLen[ht[p]] + 1 <= next_key_pos
        BY <1>1, <2>1 DEF KeysInv, Below
      <3>2. KeyLen[ht[p]] \in Nat
        BY <1>1, <2>1, RmdupAssumption DEF KeysInv, RmdupTypeOK
      <3>3. next_key_pos \in 0 .. keys_buffer_alloc /\ keys_buffer_alloc \in Nat
        BY <1>1 DEF KeysInv, RmdupTypeOK
      <3> QED BY <3>1, <3>2, <3>3
    <2> QED BY <2>1 DEF LookupIsFresh
  <1>2. KeysInv => LookupIsFresh
    BY <1>1
  <1> QED BY <1>2, KeysInvHolds, PTL

(* A step of Rmdup is a step of FirstOccurrences, or leaves it alone.      *)
LEMMA StepRefines == KeysInv /\ [RmdupNext]_rmdup_vars => [Abstract!Next]_(Abstract!vars)
  <1> SUFFICES ASSUME KeysInv, [RmdupNext]_rmdup_vars PROVE [Abstract!Next]_(Abstract!vars)
    OBVIOUS
  <1>1. CASE ReadHeader
    <2>1. Seen' = Seen
      BY <1>1 DEF ReadHeader, Seen
    <2> QED BY <1>1, <2>1 DEF ReadHeader, Abstract!Next, Abstract!Header
  <1>2. CASE ReadLine
    <2> DEFINE key == input[pos + 1]
               p == Target(key)
               m == Write(mem, p, key)
    <2>1. key \in Keys /\ key # Missing /\ MakeRoom(key) /\ AddKey(key)
      <3>1. input \in Seq(Keys \cup {Missing}) /\ pos \in Nat
        BY RmdupFacts DEF KeysInv
      <3>2. pos + 1 \in 1 .. Len(input)
        BY <1>2, <3>1 DEF ReadLine
      <3> QED BY <1>2, <3>1, <3>2 DEF ReadLine
    <2>2. Found(m, key) <=> CKey[key] \in Seen
      BY <2>1, CopyKeeps, FoundIsSeen DEF KeysInv
    <2>3. p \notin DOMAIN ht
      <3>1. ASSUME p \in DOMAIN ht PROVE FALSE
        <4>1. p[2] + KeyLen[ht[p]] + 1 <= p[2]
          BY <2>1, <3>1, TargetFacts
        <4>2. p[2] \in Nat /\ KeyLen[ht[p]] \in Nat
          BY <2>1, <3>1, TargetFacts, RmdupAssumption DEF KeysInv, RmdupTypeOK, Cell
        <4> QED BY <4>1, <4>2
      <3> QED BY <3>1
    <2>4. CASE Found(m, key)
      <3>1. ht' = ht /\ out' = out
        BY <2>1, <2>4 DEF AddKey
      <3>2. Seen' = Seen \cup {CKey[key]}
        BY <2>2, <2>4, <3>1 DEF Seen
      <3> QED BY <1>2, <2>1, <2>2, <2>4, <3>1, <3>2
              DEF ReadLine, Abstract!Next, Abstract!Line
    <2>5. CASE ~Found(m, key)
      <3>1. /\ ht' = [q \in DOMAIN ht \cup {p} |-> IF q = p THEN key ELSE ht[q]]
            /\ out' = Append(out, pos + 1)
        BY <2>1, <2>5 DEF AddKey
      <3> HIDE DEF key, p, m
      <3>2. Seen' = Seen \cup {CKey[key]}
        BY <2>3, <3>1 DEF Seen
      <3> USE DEF key, p, m
      <3> QED BY <1>2, <2>1, <2>2, <2>5, <3>1, <3>2
              DEF ReadLine, Abstract!Next, Abstract!Line
    <2> QED BY <2>4, <2>5
  <1>3. CASE Die
    <2>1. Seen' = Seen
      BY <1>3 DEF Die, Seen
    <2> QED BY <1>3, <2>1 DEF Die, Abstract!Next, Abstract!Line
  <1>4. CASE Finish
    <2>1. Seen' = Seen
      BY <1>4 DEF Finish, Seen
    <2> QED BY <1>4, <2>1 DEF Finish, Abstract!Next, Abstract!End
  <1>5. CASE UNCHANGED rmdup_vars
    BY <1>5 DEF rmdup_vars, Abstract!vars, Seen
  <1> QED BY <1>1, <1>2, <1>3, <1>4, <1>5 DEF RmdupNext

(* rmdup prints a line just when its key did not occur before: the copies  *)
(* of the keys, their buffers and the hash table implement the plain set   *)
(* of the keys seen.                                                       *)
THEOREM ImplementsFirstOccurrences == RmdupSpec => PrintsFirstOccurrences
  <1>1. RmdupInit => Abstract!Init
    BY DEF RmdupInit, Abstract!Init, Seen
  <1> QED BY <1>1, StepRefines, KeysInvHolds, PTL
          DEF RmdupSpec, PrintsFirstOccurrences, Abstract!Spec
=============================================================================
