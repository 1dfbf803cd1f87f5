--------------------------- MODULE GroupByProofs ----------------------------
(***************************************************************************)
(* Proofs about GroupBy: for every command line, every input and every     *)
(* set of texts.                                                           *)
(***************************************************************************)
EXTENDS GroupBy, SequenceTheorems, FiniteSetTheorems,
        WellFoundedInduction, TLAPS

-----------------------------------------------------------------------------
(* The accumulators.                                                       *)

(* A reset accumulator is ready for every operation.                       *)
LEMMA ResetReady ==
  ASSUME NEW o \in OpName
  PROVE  ResetOp \in OpState /\ Ready(o, ResetOp)
  BY DEF ResetOp, OpState, Ready, Stored, Strings

(* Collecting a valid text leaves an accumulator in type and ready.        *)
LEMMA CollectReady ==
  ASSUME NEW o \in OpName, NEW s \in OpState, Ready(o, s),
         NEW t \in Text, ~Invalid(o, t), NEW pick \in BOOLEAN
  PROVE  /\ CollectOp(o, s, t, pick) \in OpState
         /\ Ready(o, CollectOp(o, s, t, pick))
PROOF
  <1> DEFINE v == IF o \in Numeric THEN Number[t] ELSE 0
             c == CollectOp(o, s, t, pick)
  <1>1. v \in Int
    BY FieldOpsAssumption DEF Invalid
  <1>2. /\ s.first \in BOOLEAN /\ s.count \in Nat /\ s.value \in Int
        /\ s.values \in Seq(Int) /\ s.strs \in Seq(Text)
    BY DEF OpState
  <1>3. CollectedValue(o, s, v) \in Int
    BY <1>1, <1>2 DEF CollectedValue, Current
  <1>4. /\ CollectedValues(o, s, v) \in Seq(Int)
        /\ o \in Stored => Len(CollectedValues(o, s, v)) = s.count + 1
        /\ o = "range" => Len(CollectedValues(o, s, v)) = 2
    <2>1. CASE o \in Stored
      BY <1>1, <1>2, <2>1 DEF CollectedValues, Stored, Ready
    <2>2. CASE o = "range"
      <3>1. s.first => CollectedValues(o, s, v) = <<v, v>>
        BY <2>2 DEF CollectedValues, Stored
      <3>2. ~s.first => Len(s.values) = 2 /\ s.values[1] \in Int /\ s.values[2] \in Int
        BY <1>2, <2>2 DEF Ready
      <3>3. ~s.first => \E a, b \in Int : CollectedValues(o, s, v) = <<a, b>>
        BY <1>1, <2>2, <3>2 DEF CollectedValues, Stored
      <3>4. o \notin Stored
        BY <2>2 DEF Stored
      <3>5. \E a, b \in Int : CollectedValues(o, s, v) = <<a, b>>
        BY <1>1, <1>2, <3>1, <3>3
      <3> HIDE DEF v
      <3> QED BY <3>4, <3>5
    <2>3. CASE o \notin Stored /\ o # "range"
      BY <1>2, <2>3 DEF CollectedValues
    <2> QED BY <2>1, <2>2, <2>3
  <1>5. /\ CollectedStrs(o, s, t, pick) \in Seq(Text)
        /\ o \in Strings => Len(CollectedStrs(o, s, t, pick)) = s.count + 1
        /\ o \in Latest \cup {"first", "rand", "debase64"} =>
             Len(CollectedStrs(o, s, t, pick)) = 1
    BY <1>2 DEF CollectedStrs, Ready, Strings, Latest
  <1>6. c = [first |-> FALSE, count |-> s.count + 1,
             value |-> CollectedValue(o, s, v),
             values |-> CollectedValues(o, s, v),
             strs |-> CollectedStrs(o, s, t, pick)]
    BY DEF CollectOp
  <1>7. c \in OpState
    BY <1>2, <1>3, <1>4, <1>5, <1>6 DEF OpState
  <1>8. Ready(o, c)
    BY <1>2, <1>4, <1>5, <1>6 DEF Ready
  <1> QED BY <1>7, <1>8

-----------------------------------------------------------------------------
(* What the assumptions say of a job and of an input.                      *)

LEMMA JobFacts ==
  ASSUME NEW j \in Jobs
  PROVE  /\ j.ops \in Seq(OpSpec) /\ j.ops # << >> /\ j.grps \in Seq(Nat \ {0})
         /\ j.narm \in BOOLEAN
         /\ \A i \in DOMAIN j.ops : /\ j.ops[i] \in OpSpec
                                    /\ j.ops[i].op \in OpName
                                    /\ j.ops[i].field \in Nat \ {0}
  <1>1. j \in JobType /\ j.ops # << >>
    BY GroupByAssumption DEF ValidJob
  <1>2. j.ops \in Seq(OpSpec) /\ j.grps \in Seq(Nat \ {0}) /\ j.narm \in BOOLEAN
    BY <1>1 DEF JobType
  <1>3. \A i \in DOMAIN j.ops : j.ops[i] \in OpSpec
    BY <1>2
  <1>4. \A p \in OpSpec : p.op \in OpName /\ p.field \in Nat \ {0}
    BY DEF OpSpec
  <1> QED BY <1>1, <1>2, <1>3, <1>4

LEMMA InputFacts ==
  ASSUME NEW inp \in Inputs
  PROVE  /\ inp \in Seq(Line) /\ Len(inp) \in Nat
         /\ \A n \in 1 .. Len(inp) :
              /\ inp[n] \in Seq(Text)
              /\ \A f \in DOMAIN inp[n] : inp[n][f] \in Text
  <1>1. inp \in Seq(Line)
    BY GroupByAssumption
  <1>2. \A n \in 1 .. Len(inp) : inp[n] \in Seq(Text)
    BY <1>1 DEF Line
  <1> QED BY <1>1, <1>2

-----------------------------------------------------------------------------
(* Type correctness.  The accumulators stay in type only while they are    *)
(* ready, so both facts are proved together.                               *)

(* Nothing has been read when the program starts.                          *)
Fresh == status = "start" =>
           pos = 0 /\ kept = 0 /\ lines_in_group = 0 /\ closed = << >>

TypeInv == TypeOK /\ AccumulatorsReady /\ Fresh

LEMMA ResetOps ==
  ASSUME NEW j \in Jobs
  PROVE  LET r == [i \in DOMAIN j.ops |-> ResetOp]
         IN  /\ r \in [DOMAIN j.ops -> OpState]
             /\ \A i \in DOMAIN r : Ready(j.ops[i].op, r[i])
  BY JobFacts, ResetReady

LEMMA InitTypeInv == Init => TypeInv
  <1> SUFFICES ASSUME Init PROVE TypeInv
    OBVIOUS
  <1>1. Len(input) \in Nat
    BY InputFacts DEF Init
  <1> QED BY <1>1, ResetOps DEF Init, TypeInv, TypeOK, AccumulatorsReady, Fresh

(* The accumulators after a line without a failing operation.              *)
LEMMA CollectLineReady ==
  ASSUME dm \in Jobs, NEW l \in Seq(Text), Failing(l) = {},
         NEW base \in [DOMAIN dm.ops -> OpState],
         \A i \in DOMAIN dm.ops : Ready(dm.ops[i].op, base[i]),
         NEW picks
  PROVE  /\ CollectLine(l, base, picks) \in [DOMAIN dm.ops -> OpState]
         /\ \A i \in DOMAIN dm.ops :
              Ready(dm.ops[i].op, CollectLine(l, base, picks)[i])
PROOF
  <1> DEFINE c(i) == IF Skipped(dm.narm, l[dm.ops[i].field]) THEN base[i]
                     ELSE CollectOp(dm.ops[i].op, base[i],
                                    l[dm.ops[i].field], i \in picks)
  <1>1. ASSUME NEW i \in DOMAIN dm.ops
        PROVE  c(i) \in OpState /\ Ready(dm.ops[i].op, c(i))
    <2>1. CASE Skipped(dm.narm, l[dm.ops[i].field])
      BY <2>1
    <2>2. CASE ~Skipped(dm.narm, l[dm.ops[i].field])
      <3>1. dm.ops[i].field \in DOMAIN l
        BY DEF Failing, Has
      <3>2. ~Invalid(dm.ops[i].op, l[dm.ops[i].field])
        BY <2>2, <3>1 DEF Failing, Has
      <3>3. dm.ops[i].op \in OpName /\ l[dm.ops[i].field] \in Text
        BY <3>1, JobFacts
      <3>4. base[i] \in OpState /\ Ready(dm.ops[i].op, base[i])
        OBVIOUS
      <3>5. (i \in picks) \in BOOLEAN
        OBVIOUS
      <3> QED BY <2>2, <3>2, <3>3, <3>4, <3>5, CollectReady
    <2> QED BY <2>1, <2>2
  <1>2. CollectLine(l, base, picks) = [i \in DOMAIN dm.ops |-> c(i)]
    BY DEF CollectLine
  <1> HIDE DEF c
  <1> QED BY <1>1, <1>2

(* process_group: the history grows by the line where the group ended.     *)
LEMMA EmitType ==
  ASSUME TypeOK, EmitGroup
  PROVE  closed' \in Seq(1 .. pos)
  <1>1. pos \in Nat /\ lines_in_group \in 0 .. pos /\ closed \in Seq(1 .. pos)
    BY InputFacts DEF TypeOK
  <1>2. lines_in_group > 0 => pos \in 1 .. pos
    BY <1>1
  <1>3. CASE lines_in_group = 0
    <2>1. closed' = closed
      BY <1>3 DEF EmitGroup
    <2> QED BY <1>1, <2>1
  <1>4. CASE lines_in_group > 0
    <2>1. closed' = Append(closed, pos)
      BY <1>4 DEF EmitGroup
    <2>2. \A S : \A q \in Seq(S), x \in S : Append(q, x) \in Seq(S)
      OBVIOUS
    <2> QED BY <1>1, <1>2, <1>4, <2>1, <2>2
  <1>5. lines_in_group = 0 \/ lines_in_group > 0
    BY <1>1
  <1> QED BY <1>3, <1>4, <1>5

LEMMA NextTypeInv == TypeInv /\ [Next]_vars => TypeInv'
  <1> SUFFICES ASSUME TypeInv, [Next]_vars PROVE TypeInv'
    OBVIOUS
  <1> USE DEF TypeInv
  <1>0. Len(input) \in Nat /\ pos \in Nat /\ lines_in_group \in Nat /\ kept \in Nat
    BY InputFacts DEF TypeOK
  <1>1. CASE Start
    <2>1. /\ pos' \in 0 .. 1 /\ pos' <= Len(input)
          /\ kept = 0 /\ lines_in_group = 0 /\ closed = << >>
          /\ UNCHANGED <<dm, input, kept, lines_in_group, ops, closed>>
      BY <1>0, <1>1, InputFacts DEF Start, Fresh
    <2>2. status' \in {"reading"} \cup Errors
      BY <1>1 DEF Start, HeaderError, Errors
    <2>3. status' # "start"
      BY <2>2 DEF Errors
    <2>4. TypeOK'
      BY <1>0, <2>1, <2>2 DEF TypeOK
    <2>5. AccumulatorsReady'
      BY <2>1 DEF AccumulatorsReady
    <2> QED BY <2>3, <2>4, <2>5 DEF Fresh
  <1>2. CASE Die
    <2>1. UNCHANGED <<dm, input, pos, kept, lines_in_group, ops, closed>>
      BY <1>2 DEF Die
    <2>2. status' \in Errors
      BY <1>2 DEF Die, HeaderError, GroupFails, GroupError, Errors
    <2> QED BY <1>0, <2>1, <2>2 DEF TypeOK, AccumulatorsReady, Fresh, Errors
  <1>3. CASE ReadLine
    <2> DEFINE base == IF ClosesGroup(NextLine)
                       THEN [i \in DOMAIN dm.ops |-> ResetOp] ELSE ops
    <2>1. /\ pos' = pos + 1 /\ pos + 1 \in 1 .. Len(input)
          /\ lines_in_group' \in 1 .. lines_in_group + 1
          /\ UNCHANGED <<dm, input>>
      BY <1>0, <1>3 DEF ReadLine, Reading
    <2>2. closed' \in Seq(1 .. pos')
      <3>1. closed' \in Seq(1 .. pos)
        BY <1>3, EmitType DEF ReadLine, TypeOK
      <3>2. 1 .. pos \subseteq 1 .. pos'
        BY <1>0, <2>1
      <3> QED BY <3>1, <3>2, SeqMonotonic
    <2>3. NextLine \in Seq(Text)
      BY <2>1, InputFacts DEF NextLine, TypeOK
    <2>4. /\ base \in [DOMAIN dm.ops -> OpState]
          /\ \A i \in DOMAIN dm.ops : Ready(dm.ops[i].op, base[i])
      BY ResetOps DEF TypeOK, AccumulatorsReady
    <2>5. CASE Failing(NextLine) # {}
      <3>1. ops' = base /\ kept' \in {0, kept} /\ status' = LineError(NextLine)
        BY <1>3, <2>5 DEF ReadLine
      <3>2. status' \in Errors /\ status' # "start"
        BY <3>1 DEF LineError, Errors
      <3> HIDE DEF base
      <3>3. TypeOK'
        BY <1>0, <2>1, <2>2, <2>4, <3>1, <3>2 DEF TypeOK
      <3>4. AccumulatorsReady'
        BY <2>1, <2>4, <3>1 DEF AccumulatorsReady
      <3> QED BY <3>2, <3>3, <3>4 DEF Fresh
    <2>6. CASE Failing(NextLine) = {}
      <3>1. PICK picks : /\ ops' = CollectLine(NextLine, base, picks)
                         /\ kept' \in {pos + 1, kept}
        BY <1>3, <2>6 DEF ReadLine
      <3>2. status' = status /\ status = "reading"
        BY <1>3, <2>6 DEF ReadLine, Reading
      <3> HIDE DEF base
      <3>3. /\ ops' \in [DOMAIN dm.ops -> OpState]
            /\ \A i \in DOMAIN dm.ops : Ready(dm.ops[i].op, ops'[i])
        BY <2>3, <2>4, <2>6, <3>1, CollectLineReady DEF TypeOK
      <3>4. TypeOK'
        BY <1>0, <2>1, <2>2, <3>1, <3>2, <3>3 DEF TypeOK
      <3>5. AccumulatorsReady'
        BY <2>1, <3>3 DEF AccumulatorsReady
      <3> QED BY <3>2, <3>4, <3>5 DEF Fresh
    <2> QED BY <2>5, <2>6
  <1>4. CASE Finish
    <2>1. closed' \in Seq(1 .. pos)
      BY <1>4, EmitType DEF Finish, TypeOK
    <2>2. /\ UNCHANGED <<dm, input, pos, kept>>
          /\ lines_in_group' \in {0, lines_in_group}
          /\ ops' \in {[i \in DOMAIN dm.ops |-> ResetOp], ops}
      BY <1>4 DEF Finish
    <2>3. status' \in {"done"} \cup Errors /\ status' # "start"
      BY <1>4 DEF Finish, GroupError, Errors
    <2>4. TypeOK'
      BY <1>0, <2>1, <2>2, <2>3, ResetOps DEF TypeOK
    <2>5. AccumulatorsReady'
      BY <2>2, ResetOps DEF AccumulatorsReady, TypeOK
    <2> QED BY <2>3, <2>4, <2>5 DEF Fresh
  <1>5. CASE UNCHANGED vars
    BY <1>5 DEF vars, TypeOK, AccumulatorsReady, Fresh
  <1> QED BY <1>1, <1>2, <1>3, <1>4, <1>5 DEF Next

(* Every variable keeps its type, and each operation has collected, when   *)
(* its group is summarised, what the summary will read.                    *)
THEOREM TypeCorrect == Spec => []TypeInv
  <1>1. Init => TypeInv
    BY InitTypeInv
  <1>2. TypeInv /\ [Next]_vars => TypeInv'
    BY NextTypeInv
  <1> QED BY <1>1, <1>2, PTL DEF Spec

-----------------------------------------------------------------------------
(* The comparison of lines.                                                *)

(* Lines the comparison lets pass have the same key.                       *)
LEMMA PassedIsSame ==
  ASSUME NEW a, NEW b, ~Different(a, b), ~ComparisonDies(a, b)
  PROVE  \A i \in DOMAIN dm.grps : SameAt(a, b, i)
  BY DEF Different, ComparisonDies, Unlike

(* Having the same text at a key is symmetric and transitive.              *)
LEMMA SameAtEquivalence ==
  ASSUME NEW a, NEW b, NEW c, NEW i
  PROVE  /\ SameAt(a, b, i) => SameAt(b, a, i)
         /\ SameAt(a, b, i) /\ SameAt(b, c, i) => SameAt(a, c, i)
  BY DEF SameAt, BothHave

(* A set of numbers that is not empty has a least member.                  *)
LEMMA LeastNumber ==
  ASSUME NEW S \in SUBSET Nat, S # {}
  PROVE  \E x \in S : \A y \in S : x <= y
  <1> DEFINE LT == {ss \in Nat \X Nat : ss[1] < ss[2]}
  <1>1. IsWellFoundedOn(LT, Nat)
    BY NatLessThanWellFounded DEF OpToRel
  <1>2. PICK x \in S : \A y \in S : ~ (<<y, x>> \in LT)
    <2> HIDE DEF LT
    <2> QED BY <1>1, WFMin
  <1>3. ASSUME NEW y \in S PROVE x <= y
    <2>1. x \in Nat /\ y \in Nat /\ ~ (<<y, x>> \in LT)
      BY <1>2
    <2>2. ~ (y < x)
      BY <2>1
    <2> QED BY <2>1, <2>2
  <1> QED BY <1>3

(* The first of some positions exists, and Min is it.                      *)
LEMMA LeastPosition ==
  ASSUME NEW S \in SUBSET Nat, S # {}
  PROVE  Min(S) \in S
  BY LeastNumber DEF Min

(* A line that differs from one line differs from every line with the same *)
(* key as that one: which line of a group is kept does not matter.         *)
LEMMA DifferentFromAll ==
  ASSUME TypeOK, NEW a, NEW b, NEW c, Different(a, b),
         \A i \in DOMAIN dm.grps : SameAt(b, c, i)
  PROVE  Different(a, c)
  <1>1. \A i \in DOMAIN dm.grps : BothHave(a, b, i) <=> BothHave(a, c, i)
    BY DEF SameAt, BothHave
  <1>2. \A i \in DOMAIN dm.grps : SameAt(a, b, i) <=> SameAt(a, c, i)
    BY SameAtEquivalence
  <1>3. Unlike(a, b) = Unlike(a, c)
    BY <1>2 DEF Unlike
  <1>4. Unlike(a, b) \subseteq DOMAIN dm.grps /\ DOMAIN dm.grps \subseteq Nat
    BY JobFacts DEF Unlike, TypeOK
  <1>5. Unlike(a, b) # {} /\ Min(Unlike(a, b)) \in DOMAIN dm.grps
    BY <1>4, LeastPosition DEF Different
  <1> QED BY <1>1, <1>3, <1>5 DEF Different

-----------------------------------------------------------------------------
(* The inductive invariant.  The properties speak of groups that are       *)
(* closed; what makes them true when a group closes is that the lines of   *)
(* the open group have one key and that the line kept is one of them, the  *)
(* empty line never being kept because every operation needs a field.      *)

CurrentGroup == pos - lines_in_group + 1 .. pos

KeptInGroup ==
  status = "reading" =>
    IF lines_in_group = 0 THEN kept = 0
    ELSE kept \in CurrentGroup /\ input[kept] # << >>

CurrentUniform ==
  status = "reading" =>
    \A n, m \in CurrentGroup : n # m => SameKey(n, m)

SingleLines == LineMode => lines_in_group <= 1

GroupInv ==
  /\ GroupsTile
  /\ GroupsAreUniform
  /\ GroupsAreMaximal
  /\ KeptInGroup
  /\ CurrentUniform
  /\ SingleLines

(* The mark for "no group" is what it should be.                           *)
LEMMA MarkIsSound == TypeInv /\ GroupInv => EmptyMeansNoGroup
  <1>1. TypeInv /\ GroupInv /\ status = "reading"
          => (NoGroupYet <=> lines_in_group = 0)
    BY InputFacts DEF TypeInv, TypeOK, GroupInv, KeptInGroup, CurrentGroup,
                      NoGroupYet
  <1> QED BY <1>1 DEF EmptyMeansNoGroup

LEMMA InitGroupInv == Init => GroupInv
  <1> SUFFICES ASSUME Init PROVE GroupInv
    OBVIOUS
  <1>1. DOMAIN closed = {} /\ pos = 0 /\ lines_in_group = 0 /\ status = "start"
    BY DEF Init
  <1>2. GroupsTile /\ GroupsAreUniform /\ GroupsAreMaximal
    BY <1>1 DEF GroupsTile, GroupsAreUniform, GroupsAreMaximal
  <1>3. KeptInGroup /\ CurrentUniform /\ SingleLines
    BY <1>1 DEF KeptInGroup, CurrentUniform, SingleLines
  <1> QED BY <1>2, <1>3 DEF GroupInv

(* The comparison depends on the job alone.                                *)
LEMMA SameComparison ==
  ASSUME dm' = dm
  PROVE  \A a, b : Different(a, b)' <=> Different(a, b)
  <1>1. \A a, b, i : /\ BothHave(a, b, i)' <=> BothHave(a, b, i)
                     /\ SameAt(a, b, i)' <=> SameAt(a, b, i)
    BY DEF SameAt, BothHave, Has, Key, Folded
  <1>2. \A a, b : Unlike(a, b)' = Unlike(a, b)
    BY <1>1 DEF Unlike
  <1> TAKE a, b
  <1> DEFINE m == Min(Unlike(a, b))
  <1>3. Unlike(a, b)' = Unlike(a, b) /\ m' = m
    BY <1>2
  <1>4. BothHave(a, b, m)' <=> BothHave(a, b, m)
    BY <1>3 DEF BothHave, Has
  <1>5. Different(a, b) <=> Unlike(a, b) # {} /\ BothHave(a, b, m)
    BY DEF Different
  <1>6. Different(a, b)' <=> Unlike(a, b)' # {} /\ BothHave(a, b, m)'
    BY DEF Different
  <1> HIDE DEF m
  <1> QED BY <1>3, <1>4, <1>5, <1>6

(* What a step does to the groups already closed when it closes none.      *)
LEMMA ClosedUnchanged ==
  ASSUME UNCHANGED <<dm, input, closed>>
  PROVE  /\ GroupsAreUniform => GroupsAreUniform'
         /\ GroupsAreMaximal => GroupsAreMaximal'
         /\ \A k : GroupStart(k)' = GroupStart(k)
  <1>1. \A n, m : SameKey(n, m)' <=> SameKey(n, m)
    BY DEF SameKey, SameAt, BothHave, Has, Key, Folded
  <1>2. \A a, b : Different(a, b)' <=> Different(a, b)
    BY SameComparison
  <1>3. \A k : GroupStart(k)' = GroupStart(k)
    BY DEF GroupStart, HeaderLines
  <1>4. GroupsAreUniform => GroupsAreUniform'
    BY <1>1, <1>3 DEF GroupsAreUniform
  <1>5. GroupsAreMaximal => GroupsAreMaximal'
    BY <1>2 DEF GroupsAreMaximal, LineMode
  <1> QED BY <1>3, <1>4, <1>5

(* process_group: the current group, if there is one, becomes the last of  *)
(* the closed ones.                                                        *)
LEMMA EmitGroupInv ==
  ASSUME TypeInv, GroupInv, status = "reading", EmitGroup,
         UNCHANGED <<dm, input>>,
         ~LineMode /\ lines_in_group > 0 /\ pos < Len(input)
           => Different(input[pos + 1], input[pos])
  PROVE  /\ closed' \in Seq(Nat)
         /\ GroupStart(Len(closed) + 1)' = pos + 1
         /\ lines_in_group > 0 => closed' = Append(closed, pos)
         /\ lines_in_group = 0 => closed' = closed
         /\ \A k \in DOMAIN closed' : GroupStart(k)' <= closed'[k]
         /\ GroupsAreUniform'
         /\ GroupsAreMaximal'
PROOF
  <1>0. /\ pos \in Nat /\ lines_in_group \in 0 .. pos
        /\ closed \in Seq(1 .. pos) /\ Len(closed) \in Nat
        /\ Len(input) \in Nat /\ dm' = dm /\ input' = input
    BY InputFacts DEF TypeInv, TypeOK
  <1>t. /\ pos - lines_in_group = GroupStart(Len(closed) + 1) - 1
        /\ \A k \in DOMAIN closed : GroupStart(k) <= closed[k]
    BY DEF GroupInv, GroupsTile
  <1>s. \A k \in Nat : GroupStart(k) \in Int \/ k - 1 \notin DOMAIN closed
    BY <1>0 DEF GroupStart, HeaderLines
  <1>1. CASE lines_in_group = 0
    <2>1. closed' = closed
      BY <1>1 DEF EmitGroup
    <2>2. \A k : GroupStart(k)' = GroupStart(k)
      BY <2>1, ClosedUnchanged
    <2>3. GroupStart(Len(closed) + 1) = pos + 1
      BY <1>0, <1>1, <1>t DEF GroupStart, HeaderLines
    <2>4. GroupsAreUniform' /\ GroupsAreMaximal'
      BY <2>1, ClosedUnchanged DEF GroupInv
    <2>5. closed \in Seq(Nat)
      BY <1>0
    <2>6. GroupStart(Len(closed) + 1)' = pos + 1
      <3>1. (Len(closed) + 1)' = Len(closed) + 1
        BY <2>1
      <3> QED BY <2>2, <2>3, <3>1
    <2>7. \A k \in DOMAIN closed' : GroupStart(k)' <= closed'[k]
      BY <1>t, <2>1, <2>2
    <2> QED BY <1>1, <2>1, <2>4, <2>5, <2>6, <2>7
  <1>2. CASE lines_in_group > 0
    <2> DEFINE last == Len(closed) + 1
    <2>1. closed' = Append(closed, pos)
      BY <1>2 DEF EmitGroup
    <2>2. /\ closed' \in Seq(Nat) /\ DOMAIN closed' = 1 .. last
          /\ Len(closed') = last /\ closed'[last] = pos
          /\ \A k \in 1 .. Len(closed) : closed'[k] = closed[k]
          /\ last \in Nat /\ last > 0 /\ DOMAIN closed = 1 .. Len(closed)
      BY <1>0, <2>1
    <2>9. \A k \in 1 .. last : k = last \/ (k # last /\ k \in DOMAIN closed)
      BY <1>0 DEF last
    <2>10. \A k \in 1 .. last : k # 1 => k - 1 \in 1 .. Len(closed)
      BY <1>0
    <2>3. \A k \in 1 .. last : GroupStart(k)' = GroupStart(k)
      <3>1. HeaderLines' = HeaderLines
        BY <1>0 DEF HeaderLines
      <3>2. ASSUME NEW k \in 1 .. last, k # 1
            PROVE  closed'[k - 1] = closed[k - 1]
        BY <2>2, <2>10, <3>2
      <3> QED BY <3>1, <3>2 DEF GroupStart
    <2>4. GroupStart(last) = pos - lines_in_group + 1
      BY <1>0, <1>t DEF GroupStart, HeaderLines
    <2>11. GroupStart(Len(closed) + 1)' = pos + 1
      <3>1. last + 1 # 1 /\ (last + 1) - 1 = last
        BY <2>2
      <3>2. closed'[(last + 1) - 1] = pos /\ Len(closed') + 1 = last + 1
        BY <2>2, <3>1
      <3>3. GroupStart(Len(closed) + 1)'
              = IF Len(closed') + 1 = 1 THEN HeaderLines' + 1
                ELSE closed'[Len(closed') + 1 - 1] + 1
        BY DEF GroupStart
      <3> HIDE DEF last
      <3> QED BY <2>2, <3>1, <3>2, <3>3
    <2> HIDE DEF last
    <2>5. \A k \in DOMAIN closed' : GroupStart(k)' <= closed'[k]
      <3>1. \A k \in DOMAIN closed : GroupStart(k) <= closed'[k]
        BY <2>2, <1>t
      <3>2. GroupStart(last) <= closed'[last]
        BY <1>0, <1>2, <2>2, <2>4
      <3> QED BY <2>2, <2>3, <2>9, <3>1, <3>2
    <2>6. \A n, m : SameKey(n, m)' <=> SameKey(n, m)
      BY <1>0 DEF SameKey, SameAt, BothHave, Has, Key, Folded
    <2>7. GroupsAreUniform'
      <3>1. \A n \in GroupStart(last) .. pos - 1 : SameKey(n, n + 1)
        BY <1>0, <1>2, <2>4 DEF GroupInv, CurrentUniform, CurrentGroup
      <3>2. ASSUME NEW k \in DOMAIN closed'
            PROVE  \A n \in GroupStart(k) .. closed'[k] - 1 : SameKey(n, n + 1)
        <4>1. CASE k = last
          BY <2>2, <3>1, <4>1
        <4>2. CASE k \in DOMAIN closed
          BY <2>2, <4>2 DEF GroupInv, GroupsAreUniform
        <4> QED BY <2>2, <2>9, <4>1, <4>2
      <3> QED BY <2>2, <2>3, <2>6, <3>2 DEF GroupsAreUniform
    <2>8. GroupsAreMaximal'
      <3>1. \A a, b : Different(a, b)' <=> Different(a, b)
        BY <1>0, SameComparison
      <3>2. LineMode' <=> LineMode
        BY <1>0 DEF LineMode
      <3>3. ASSUME ~LineMode, NEW k \in DOMAIN closed', closed'[k] < Len(input)
            PROVE  Different(input[closed'[k] + 1], input[closed'[k]])
        <4>1. CASE k = last
          <5>1. closed'[k] = pos
            BY <2>2, <4>1
          <5> QED BY <1>2, <3>3, <5>1
        <4>2. CASE k \in DOMAIN closed
          <5>1. closed'[k] = closed[k]
            BY <2>2, <4>2
          <5> QED BY <3>3, <4>2, <5>1 DEF GroupInv, GroupsAreMaximal
        <4> QED BY <2>2, <2>9, <4>1, <4>2
      <3> QED BY <1>0, <3>1, <3>2, <3>3 DEF GroupsAreMaximal
    <2>12. closed' \in Seq(Nat) /\ lines_in_group # 0
      BY <1>0, <1>2, <2>2
    <2> QED BY <1>2, <2>1, <2>12, <2>5, <2>7, <2>8, <2>11
  <1> QED BY <1>0, <1>1, <1>2

(* A line that starts a new group differs from the last line of the group  *)
(* it closes, although it is compared with the line kept.                  *)
LEMMA NewGroupDiffers ==
  ASSUME TypeInv, GroupInv, status = "reading", pos < Len(input), ~LineMode,
         lines_in_group > 0, NewGroup(NextLine)
  PROVE  Different(input[pos + 1], input[pos])
  <1>1. kept \in CurrentGroup /\ pos \in CurrentGroup
    BY InputFacts DEF TypeInv, TypeOK, GroupInv, KeptInGroup, CurrentGroup
  <1>2. ~NoGroupYet
    BY <1>1, MarkIsSound DEF EmptyMeansNoGroup, TypeInv, TypeOK
  <1>3. Different(input[pos + 1], input[kept])
    BY <1>2 DEF NewGroup, NextLine
  <1>4. CASE kept = pos
    BY <1>3, <1>4
  <1>5. CASE kept # pos
    <2>1. \A i \in DOMAIN dm.grps : SameAt(input[kept], input[pos], i)
      BY <1>1, <1>5 DEF GroupInv, CurrentUniform, SameKey
    <2> QED BY <1>3, <2>1, DifferentFromAll DEF TypeInv
  <1> QED BY <1>4, <1>5

(* A line that is collected is not the empty line.                         *)
LEMMA CollectedNotEmpty ==
  ASSUME dm \in Jobs, NEW l, Failing(l) = {}
  PROVE  l # << >>
  <1>1. 1 \in DOMAIN dm.ops
    BY JobFacts
  <1>2. dm.ops[1].field \in DOMAIN l
    BY <1>1 DEF Failing, Has
  <1> QED BY <1>2

(* A line that joins the current group has the key of all its lines.       *)
LEMMA JoinsGroup ==
  ASSUME TypeInv, GroupInv, status = "reading",
         ~ComparisonFails, ~ClosesGroup(NextLine),
         NEW n \in CurrentGroup
  PROVE  SameKey(pos + 1, n) /\ SameKey(n, pos + 1)
  <1>1. CASE dm.grps = << >>
    BY <1>1 DEF SameKey
  <1>2. CASE dm.grps # << >>
    <2>1. ~NoGroupYet /\ ~LineMode /\ ~Different(NextLine, input[kept])
          /\ ~ComparisonDies(NextLine, input[kept])
      BY <1>2 DEF ClosesGroup, NewGroup, Compares, ComparisonFails
    <2>2. \A i \in DOMAIN dm.grps : SameAt(input[pos + 1], input[kept], i)
      BY <2>1, PassedIsSame DEF NextLine
    <2>3. kept \in CurrentGroup
      BY <2>1, MarkIsSound DEF EmptyMeansNoGroup, GroupInv, KeptInGroup
    <2>4. kept = n \/ SameKey(kept, n)
      BY <2>3 DEF GroupInv, CurrentUniform
    <2>5. \A i \in DOMAIN dm.grps : SameAt(input[pos + 1], input[n], i)
      BY <2>2, <2>4, SameAtEquivalence DEF SameKey
    <2> QED BY <2>5, SameAtEquivalence DEF SameKey
  <1> QED BY <1>1, <1>2

LEMMA NextGroupInv == TypeInv /\ GroupInv /\ [Next]_vars => GroupInv'
  <1> SUFFICES ASSUME TypeInv, GroupInv, [Next]_vars PROVE GroupInv'
    OBVIOUS
  <1>0. /\ pos \in Nat /\ lines_in_group \in 0 .. pos /\ kept \in 0 .. pos
        /\ closed \in Seq(1 .. pos) /\ Len(closed) \in Nat
        /\ Len(input) \in Nat /\ dm \in Jobs /\ input \in Inputs
    BY InputFacts DEF TypeInv, TypeOK
  <1>1. CASE Start
    <2>1. /\ pos' = HeaderLines /\ pos = 0 /\ lines_in_group' = 0 /\ kept' = 0
          /\ closed' = << >> /\ closed = << >> /\ dm' = dm /\ input' = input
          /\ status' # "start"
      BY <1>1 DEF Start, TypeInv, Fresh, HeaderLines, HeaderError
    <2>2. HeaderLines' = HeaderLines /\ HeaderLines \in Nat
      BY <2>1 DEF HeaderLines
    <2>3. GroupsTile'
      BY <2>1, <2>2 DEF GroupsTile, GroupStart
    <2>4. GroupsAreUniform' /\ GroupsAreMaximal'
      BY <2>1, ClosedUnchanged DEF GroupInv
    <2>5. KeptInGroup' /\ CurrentUniform' /\ SingleLines'
      <3>1. CurrentGroup' = {}
        BY <2>1, <2>2 DEF CurrentGroup
      <3> QED BY <2>1, <3>1 DEF KeptInGroup, CurrentUniform, SingleLines
    <2> QED BY <2>3, <2>4, <2>5 DEF GroupInv
  <1>2. CASE Die
    <2>1. /\ dm' = dm /\ input' = input /\ pos' = pos /\ closed' = closed
          /\ lines_in_group' = lines_in_group
          /\ status = "reading"
      BY <1>2 DEF Die, Reading
    <2>2. status' # "start" /\ status' # "reading"
      BY <1>2 DEF Die, HeaderError, GroupFails, GroupError
    <2>3. GroupsTile'
      BY <2>1, ClosedUnchanged DEF GroupsTile, GroupInv
    <2>4. GroupsAreUniform' /\ GroupsAreMaximal'
      BY <2>1, ClosedUnchanged DEF GroupInv
    <2>5. KeptInGroup' /\ CurrentUniform' /\ SingleLines'
      BY <2>1, <2>2 DEF KeptInGroup, CurrentUniform, SingleLines, GroupInv, LineMode
    <2> QED BY <2>3, <2>4, <2>5 DEF GroupInv
  <1>3. CASE ReadLine
    <2> DEFINE l == NextLine
    <2>1. /\ status = "reading" /\ pos < Len(input) /\ ~ComparisonFails
          /\ dm' = dm /\ input' = input /\ pos' = pos + 1 /\ l = input[pos + 1]
          /\ ClosesGroup(l) => EmitGroup /\ lines_in_group' = 1
          /\ ~ClosesGroup(l) => closed' = closed
                                /\ lines_in_group' = lines_in_group + 1
      BY <1>0, <1>3 DEF ReadLine, Reading, NextLine
    <2>2. status' # "start"
      BY <1>3, <2>1 DEF ReadLine, LineError
    <2>3. status' = "reading" =>
            /\ l # << >>
            /\ kept' \in {pos + 1, kept}
            /\ NewGroup(l) => kept' = pos + 1
      BY <1>0, <1>3, CollectedNotEmpty DEF ReadLine, LineError
    <2>4. \A n, m : SameKey(n, m)' <=> SameKey(n, m)
      BY <2>1 DEF SameKey, SameAt, BothHave, Has, Key, Folded
    <2>5. LineMode' <=> LineMode
      BY <2>1 DEF LineMode
    <2> HIDE DEF l
    <2>6. CASE ClosesGroup(l)
      <3>1. NewGroup(l)
        BY <2>6 DEF ClosesGroup
      <3>2. ~LineMode /\ lines_in_group > 0 /\ pos < Len(input)
              => Different(input[pos + 1], input[pos])
        BY <2>1, <3>1, NewGroupDiffers DEF l
      <3>3. /\ GroupStart(Len(closed) + 1)' = pos + 1
            /\ \A k \in DOMAIN closed' : GroupStart(k)' <= closed'[k]
            /\ GroupsAreUniform' /\ GroupsAreMaximal'
        BY <2>1, <2>6, <3>2, EmitGroupInv
      <3>4. CurrentGroup' = {pos + 1}
        BY <1>0, <2>1, <2>6 DEF CurrentGroup
      <3>5. GroupsTile'
        <4>1. (pos - lines_in_group)' = pos
          BY <1>0, <2>1, <2>6
        <4>2. (GroupStart(Len(closed) + 1) - 1)' = pos
          BY <1>0, <3>3
        <4> QED BY <3>3, <4>1, <4>2 DEF GroupsTile
      <3>6. KeptInGroup'
        BY <1>0, <2>1, <2>3, <2>6, <3>1, <3>4 DEF KeptInGroup
      <3>7. CurrentUniform' /\ SingleLines'
        BY <2>1, <2>6, <3>4 DEF CurrentUniform, SingleLines
      <3> QED BY <3>3, <3>5, <3>6, <3>7 DEF GroupInv
    <2>7. CASE ~ClosesGroup(l)
      <3>1. CurrentGroup' = CurrentGroup \cup {pos + 1}
        BY <1>0, <2>1, <2>7 DEF CurrentGroup
      <3>2. GroupsAreUniform' /\ GroupsAreMaximal'
            /\ \A k : GroupStart(k)' = GroupStart(k)
        BY <2>1, <2>7, ClosedUnchanged DEF GroupInv
      <3>3. GroupsTile'
        <4>1. (pos - lines_in_group)' = pos - lines_in_group
          BY <1>0, <2>1, <2>7
        <4>2. GroupStart(Len(closed) + 1)' = GroupStart(Len(closed) + 1)
          BY <2>1, <2>7, <3>2
        <4> QED BY <2>1, <2>7, <3>2, <4>1, <4>2 DEF GroupsTile, GroupInv
      <3>4. KeptInGroup'
        <4>1. lines_in_group = 0 => NewGroup(l)
          BY <2>1, MarkIsSound DEF EmptyMeansNoGroup, NewGroup
        <4>2. lines_in_group > 0 => kept \in CurrentGroup /\ input[kept] # << >>
          BY <1>0, <2>1 DEF GroupInv, KeptInGroup
        <4>3. lines_in_group' # 0
          BY <1>0, <2>1, <2>7
        <4>4. lines_in_group = 0 \/ lines_in_group > 0
          BY <1>0
        <4>5. status' = "reading" => kept' \in CurrentGroup' /\ input'[kept'] # << >>
          BY <2>1, <2>3, <3>1, <4>1, <4>2, <4>4
        <4> QED BY <4>3, <4>5 DEF KeptInGroup
      <3>5. CurrentUniform'
        <4>1. ASSUME NEW n \in CurrentGroup', NEW m \in CurrentGroup', n # m
              PROVE  SameKey(n, m)
          <5>1. CASE n = pos + 1
            BY <2>1, <2>7, <3>1, <4>1, <5>1, JoinsGroup DEF l
          <5>2. CASE m = pos + 1
            BY <2>1, <2>7, <3>1, <4>1, <5>2, JoinsGroup DEF l
          <5>3. CASE n \in CurrentGroup /\ m \in CurrentGroup
            BY <2>1, <4>1, <5>3 DEF GroupInv, CurrentUniform
          <5> QED BY <3>1, <5>1, <5>2, <5>3
        <4> QED BY <2>4, <4>1 DEF CurrentUniform
      <3>6. SingleLines'
        BY <2>5, <2>7 DEF SingleLines, ClosesGroup, NewGroup
      <3> QED BY <3>2, <3>3, <3>4, <3>5, <3>6 DEF GroupInv
    <2> QED BY <2>6, <2>7
  <1>4. CASE Finish
    <2>1. /\ dm' = dm /\ input' = input /\ pos' = pos
          /\ status = "reading" /\ pos = Len(input)
      BY <1>4 DEF Finish
    <2>2. status' # "start" /\ status' # "reading"
      BY <1>4 DEF Finish, GroupError
    <2>3. KeptInGroup' /\ CurrentUniform'
      BY <2>2 DEF KeptInGroup, CurrentUniform
    <2>4. CASE GroupError = "ok"
      <3>1. EmitGroup /\ lines_in_group' = 0
        BY <1>4, <2>4 DEF Finish
      <3>2. /\ GroupStart(Len(closed) + 1)' = pos + 1
            /\ \A k \in DOMAIN closed' : GroupStart(k)' <= closed'[k]
            /\ GroupsAreUniform' /\ GroupsAreMaximal'
        BY <1>0, <2>1, <3>1, EmitGroupInv
      <3>3. GroupsTile'
        <4>1. (pos - lines_in_group)' = pos
          BY <1>0, <2>1, <3>1
        <4>2. (GroupStart(Len(closed) + 1) - 1)' = pos
          BY <1>0, <3>2
        <4> QED BY <3>2, <4>1, <4>2 DEF GroupsTile
      <3>4. SingleLines'
        BY <3>1 DEF SingleLines
      <3> QED BY <2>3, <3>2, <3>3, <3>4 DEF GroupInv
    <2>5. CASE GroupError # "ok"
      <3>1. closed' = closed /\ lines_in_group' = lines_in_group
        BY <1>4, <2>5 DEF Finish
      <3>2. GroupsAreUniform' /\ GroupsAreMaximal'
            /\ \A k : GroupStart(k)' = GroupStart(k)
        BY <2>1, <3>1, ClosedUnchanged DEF GroupInv
      <3>3. GroupsTile' /\ SingleLines'
        BY <2>1, <3>1, <3>2 DEF GroupInv, GroupsTile, SingleLines, LineMode
      <3> QED BY <2>3, <3>2, <3>3 DEF GroupInv
    <2> QED BY <2>4, <2>5
  <1>5. CASE UNCHANGED vars
    <2>1. /\ dm' = dm /\ input' = input /\ pos' = pos /\ closed' = closed
          /\ lines_in_group' = lines_in_group /\ kept' = kept /\ status' = status
      BY <1>5 DEF vars
    <2>2. GroupsAreUniform' /\ GroupsAreMaximal'
          /\ \A k : GroupStart(k)' = GroupStart(k)
      BY <2>1, ClosedUnchanged DEF GroupInv
    <2>3. \A n, m : SameKey(n, m)' <=> SameKey(n, m)
      BY <2>1 DEF SameKey, SameAt, BothHave, Has, Key, Folded
    <2> QED BY <2>1, <2>2, <2>3 DEF GroupInv, GroupsTile, KeptInGroup,
                 CurrentUniform, CurrentGroup, SingleLines, LineMode
  <1> QED BY <1>1, <1>2, <1>3, <1>4, <1>5 DEF Next

-----------------------------------------------------------------------------
(* Every variable keeps its type (the type invariant).                     *)
THEOREM TypeSafety == Spec => []TypeOK
  <1>1. TypeInv => TypeOK
    BY DEF TypeInv
  <1> QED BY <1>1, TypeCorrect, PTL

(* field_op_summarize reads only what field_op_collect has stored: when a  *)
(* group is summarised each accumulator holds what its operation reads.    *)
THEOREM SummariesAreReady == Spec => []AccumulatorsReady
  <1>1. TypeInv => AccumulatorsReady
    BY DEF TypeInv
  <1> QED BY <1>1, TypeCorrect, PTL

LEMMA GroupInvHolds == Spec => [](TypeInv /\ GroupInv)
  <1>1. Init => TypeInv /\ GroupInv
    BY InitTypeInv, InitGroupInv
  <1>2. (TypeInv /\ GroupInv) /\ [Next]_vars => (TypeInv /\ GroupInv)'
    BY NextTypeInv, NextGroupInv
  <1> QED BY <1>1, <1>2, PTL DEF Spec

(* process_file splits any input into groups without losing a line or      *)
(* reporting one twice.                                                    *)
THEOREM GroupsTileInput == Spec => []GroupsTile
  <1>1. GroupInv => GroupsTile
    BY DEF GroupInv
  <1> QED BY <1>1, GroupInvHolds, PTL

(* Every reported group has a single key, and in the grouping modes it is  *)
(* as long as it can be, whichever of its lines were kept meanwhile.       *)
THEOREM RunsAreReported == Spec => []GroupsAreRuns
  <1>1. GroupInv => GroupsAreRuns
    BY DEF GroupInv, GroupsAreRuns
  <1> QED BY <1>1, GroupInvHolds, PTL

(* The empty line kept means that no group is open, and nothing else does. *)
THEOREM EmptyMark == Spec => []EmptyMeansNoGroup
  <1> QED BY MarkIsSound, GroupInvHolds, PTL

-----------------------------------------------------------------------------
(* The sequences in which process_file prints: the numbers of the primary  *)
(* operations and of the labels, in order.                                 *)

Ascending(s, S) ==
  /\ s \in SetToSeqs(S)
  /\ \A i, k \in DOMAIN s : i < k => s[i] < s[k]

(* The members of a finite set of numbers can be listed in order.          *)
LEMMA Listable ==
  ASSUME NEW S \in SUBSET Nat, IsFiniteSet(S)
  PROVE  \E s : Ascending(s, S)
PROOF
  <1> DEFINE Bad(n) == \E T \in SUBSET Nat : /\ IsFiniteSet(T) /\ Cardinality(T) = n
                                             /\ \A s : ~Ascending(s, T)
             Sizes == {n \in Nat : Bad(n)}
  <1> SUFFICES ASSUME \A s : ~Ascending(s, S) PROVE FALSE
    OBVIOUS
  <1>1. Cardinality(S) \in Sizes
    BY FS_CardinalityType
  <1>2. PICK n \in Sizes : \A m \in Sizes : n <= m
    <2>1. Sizes \in SUBSET Nat /\ Sizes # {}
      BY <1>1
    <2> HIDE DEF Sizes
    <2> QED BY <2>1, LeastNumber
  <1>3. PICK T \in SUBSET Nat : /\ IsFiniteSet(T) /\ Cardinality(T) = n
                                /\ \A s : ~Ascending(s, T)
    BY <1>2
  <1>4. CASE T = {}
    <2>1. Cardinality(T) = 0
      BY <1>4, FS_EmptySet
    <2>2. << >> \in [1 .. 0 -> T] /\ DOMAIN << >> = {}
      OBVIOUS
    <2>3. Ascending(<< >>, T)
      BY <2>1, <2>2 DEF Ascending, SetToSeqs
    <2> QED BY <1>3, <2>3
  <1>5. CASE T # {}
    <2>1. PICK x \in T : \A y \in T : x <= y
      BY <1>5, LeastNumber
    <2> DEFINE U == T \ {x}
    <2>2. IsFiniteSet(U) /\ Cardinality(U) = n - 1 /\ U \in SUBSET Nat
      BY <1>3, FS_RemoveElement
    <2>3. n \in Nat /\ n - 1 \in Nat /\ n > 0
      BY <1>2, <2>2, FS_CardinalityType
    <2>4. n - 1 \notin Sizes
      BY <1>2, <2>3
    <2>5. PICK s : Ascending(s, U)
      BY <2>2, <2>3, <2>4
    <2>6. /\ s \in [1 .. n - 1 -> U] /\ \A i, k \in 1 .. n - 1 : i # k => s[i] # s[k]
          /\ \A i, k \in 1 .. n - 1 : i < k => s[i] < s[k]
      BY <2>2, <2>5 DEF Ascending, SetToSeqs
    <2> DEFINE t == [i \in 1 .. n |-> IF i = 1 THEN x ELSE s[i - 1]]
    <2>7. \A i \in 1 .. n : i # 1 => i - 1 \in 1 .. n - 1
      BY <2>3
    <2>8. \A i \in 1 .. n : t[i] \in T /\ (i # 1 => t[i] = s[i - 1] /\ x < t[i])
      <3>1. \A y \in U : y \in Nat /\ x \in Nat /\ x < y /\ y \in T
        BY <2>1, <2>2
      <3> QED BY <2>1, <2>6, <2>7, <3>1
    <2>9. t \in [1 .. n -> T] /\ DOMAIN t = 1 .. n
      BY <2>8
    <2>10. ASSUME NEW i \in 1 .. n, NEW k \in 1 .. n, i < k
           PROVE  t[i] < t[k]
      <3>1. k # 1 /\ k - 1 \in 1 .. n - 1 /\ t[k] = s[k - 1] /\ x < t[k]
        BY <2>3, <2>7, <2>8, <2>10
      <3>2. CASE i = 1
        BY <3>1, <3>2
      <3>3. CASE i # 1
        <4>1. i - 1 \in 1 .. n - 1 /\ t[i] = s[i - 1]
          BY <2>7, <2>8, <3>3
        <4>2. i - 1 < k - 1
          BY <2>3, <2>10
        <4> QED BY <2>6, <3>1, <4>1, <4>2
      <3> QED BY <3>2, <3>3
    <2> HIDE DEF t
    <2>11. \A i, k \in 1 .. n : i # k => t[i] # t[k]
      <3>1. ASSUME NEW i \in 1 .. n, NEW k \in 1 .. n, i # k
            PROVE  t[i] # t[k]
        <4>1. t[i] \in Nat /\ t[k] \in Nat
          BY <1>3, <2>9
        <4>2. i < k \/ k < i
          BY <2>3, <3>1
        <4> QED BY <2>10, <4>1, <4>2
      <3> QED BY <3>1
    <2>12. Ascending(t, T)
      BY <1>3, <2>9, <2>10, <2>11 DEF Ascending, SetToSeqs
    <2> QED BY <1>3, <2>12
  <1> QED BY <1>4, <1>5

(* Listed is such a list: it has each member once.                         *)
LEMMA ListedIs ==
  ASSUME NEW S \in SUBSET Nat, IsFiniteSet(S)
  PROVE  /\ Ascending(Listed(S), S)
         /\ Listed(S) \in [1 .. Cardinality(S) -> S]
         /\ Cardinality(S) \in Nat
         /\ Listed(S) \in Seq(S) /\ Len(Listed(S)) = Cardinality(S)
  <1>1. \E s \in SetToSeqs(S) : \A i, k \in DOMAIN s : i < k => s[i] < s[k]
    BY Listable DEF Ascending
  <1>2. Ascending(Listed(S), S)
    BY <1>1 DEF Ascending, Listed
  <1>3. Listed(S) \in [1 .. Cardinality(S) -> S]
    BY <1>2 DEF Ascending, SetToSeqs
  <1>4. Cardinality(S) \in Nat
    BY FS_CardinalityType
  <1>5. Listed(S) \in Seq(S)
    BY ONLY <1>3, <1>4, SeqDef
  <1>6. Len(Listed(S)) = Cardinality(S)
    BY ONLY <1>3, <1>4, <1>5, LenProperties
  <1> QED BY <1>2, <1>3, <1>4, <1>5, <1>6

(* Listed of one number.                                                   *)
LEMMA ListedOne ==
  ASSUME NEW x \in Nat
  PROVE  Listed({x}) = <<x>>
  <1>1. IsFiniteSet({x}) /\ Cardinality({x}) = 1
    BY FS_Singleton
  <1>2. Listed({x}) \in Seq({x}) /\ Len(Listed({x})) = 1
    BY <1>1, ListedIs
  <1> HIDE DEF Listed
  <1> QED BY <1>2, SMTT(30)

(* Fields of a job that its operations are listed by.                      *)
PrimarySet == {i \in DOMAIN dm.ops : ~dm.ops[i].subordinate}
LabelSet   == {i \in DOMAIN dm.ops : i = 1 \/ ~dm.ops[i-1].subordinate}

(* There is a label for each result: the label of a result starts with the *)
(* first operation after the previous primary.                             *)
LEMMA LabelForEachResult ==
  ASSUME dm \in Jobs
  PROVE  /\ Primaries \in Seq(PrimarySet) /\ LabelStarts \in Seq(LabelSet)
         /\ Len(Primaries) = Len(LabelStarts)
         /\ Len(Primaries) \in Nat
         /\ Len(dm.ops) = 1 => Primaries = <<1>>
PROOF
  <1> DEFINE n == Len(dm.ops)
             f == [i \in PrimarySet |-> IF i = n THEN 1 ELSE i + 1]
  <1>1. /\ n \in Nat /\ n >= 1 /\ DOMAIN dm.ops = 1 .. n
        /\ \A i \in 1 .. n : dm.ops[i].subordinate => i + 1 \in 1 .. n
    <2>1. dm.ops \in Seq(OpSpec) /\ dm.ops # << >>
      BY JobFacts
    <2>2. n \in Nat /\ n >= 1 /\ DOMAIN dm.ops = 1 .. n
      BY <2>1
    <2>3. \A i \in DOMAIN dm.ops : dm.ops[i].subordinate => i + 1 \in DOMAIN dm.ops
      BY GroupByAssumption DEF ValidJob
    <2> QED BY <2>2, <2>3
  <1> HIDE DEF n
  <1>2. PrimarySet \subseteq 1 .. n /\ LabelSet \subseteq 1 .. n
    BY <1>1 DEF PrimarySet, LabelSet
  <1>3. IsFiniteSet(PrimarySet) /\ IsFiniteSet(LabelSet)
    <2>1. IsFiniteSet(1 .. n)
      BY <1>1, FS_Interval
    <2> QED BY <1>2, <2>1, FS_Subset
  <1>4. n \in PrimarySet /\ 1 \in LabelSet
    BY <1>1 DEF PrimarySet, LabelSet
  <1>5. \A i \in PrimarySet : f[i] \in LabelSet
    <2>1. ASSUME NEW i \in PrimarySet, i # n
          PROVE  i + 1 \in LabelSet
      <3>1. i \in 1 .. n /\ i + 1 \in 1 .. n /\ (i + 1) - 1 = i
        BY <1>1, <1>2, <2>1
      <3>2. ~dm.ops[i].subordinate
        BY DEF PrimarySet
      <3> QED BY <1>1, <3>1, <3>2 DEF LabelSet
    <2> QED BY <1>4, <2>1
  <1>6. \A i, k \in PrimarySet : i # k => f[i] # f[k]
    BY <1>1, <1>2
  <1>7. ASSUME NEW l \in LabelSet
        PROVE  \E i \in PrimarySet : f[i] = l
    <2>1. CASE l = 1
      BY <1>4, <2>1
    <2>2. CASE l # 1
      <3>1. l \in 1 .. n /\ l - 1 \in 1 .. n /\ l - 1 # n /\ (l - 1) + 1 = l
        BY <1>1, <1>2, <2>2
      <3>2. ~dm.ops[l - 1].subordinate
        BY <2>2 DEF LabelSet
      <3>3. l - 1 \in PrimarySet
        BY <1>1, <3>1, <3>2 DEF PrimarySet
      <3> QED BY <3>1, <3>3
    <2> QED BY <2>1, <2>2
  <1>8. Cardinality(PrimarySet) = Cardinality(LabelSet)
    <2>1. f \in Bijection(PrimarySet, LabelSet)
      <3>1. f \in [PrimarySet -> LabelSet]
        BY <1>5
      <3>2. f \in Surjection(PrimarySet, LabelSet)
        BY <1>7, <3>1 DEF Surjection
      <3>3. f \in Injection(PrimarySet, LabelSet)
        BY <1>6, <3>1 DEF Injection, IsInjective
      <3> QED BY <3>2, <3>3 DEF Bijection
    <2>2. ExistsBijection(PrimarySet, LabelSet)
      BY <2>1 DEF ExistsBijection
    <2> QED BY <1>3, <2>2, FS_Bijection
  <1>9. Primaries = Listed(PrimarySet) /\ LabelStarts = Listed(LabelSet)
    BY DEF Primaries, LabelStarts, PrimarySet, LabelSet
  <1>10. n = 1 => Primaries = <<1>>
    <2>1. n = 1 => PrimarySet = {1}
      <3>1. n = 1 => \A i \in PrimarySet : i = 1
        BY <1>2
      <3> QED BY <1>4, <3>1
    <2> QED BY <1>9, <2>1, ListedOne
  <1>11. PrimarySet \in SUBSET Nat /\ LabelSet \in SUBSET Nat
    BY <1>1, <1>2
  <1>12. /\ Primaries \in Seq(PrimarySet) /\ Len(Primaries) = Cardinality(PrimarySet)
         /\ Cardinality(PrimarySet) \in Nat
    BY <1>3, <1>9, <1>11, ListedIs
  <1>13. LabelStarts \in Seq(LabelSet) /\ Len(LabelStarts) = Cardinality(LabelSet)
    BY <1>3, <1>9, <1>11, ListedIs
  <1> QED BY <1>8, <1>10, <1>12, <1>13 DEF n

-----------------------------------------------------------------------------
(* What is printed.  The line kept for the group is the one whose value    *)
(* the accumulator of a single operation holds: an extremal operation      *)
(* keeps a line exactly when it takes its value, and so do first, last and *)
(* rand; the first line of a group is always kept.                         *)

Shows(o, s, t) ==
  /\ o \in Extremal => t \in DOMAIN Number /\ s.value = Number[t]
  /\ o \in {"first", "last", "rand"} => s.strs[1] = t

KeptShows ==
  status \in {"start", "reading"} /\ ~dm.narm /\ Len(dm.ops) = 1 =>
    IF lines_in_group = 0 THEN ops[1].first
    ELSE /\ ~ops[1].first
         /\ Has(input[kept], dm.ops[1].field)
         /\ Shows(dm.ops[1].op, ops[1], input[kept][dm.ops[1].field])

(* A row printed without --full has a field for each key and a result for  *)
(* each primary operation.                                                 *)
Columns(r) ==
  ~dm.full => Len(r.fields) = Len(dm.grps) /\ Len(r.results) = Len(Primaries)

ShowsKept(r) ==
  dm.full /\ ~dm.narm /\ Len(dm.ops) = 1 =>
    LET t == r.fields[dm.ops[1].field]
    IN  /\ dm.ops[1].op \in Extremal => r.results[1] = <<"number", Number[t]>>
        /\ dm.ops[1].op \in {"first", "last", "rand"} =>
             r.results[1] = <<"string", t>>

RowsRight ==
  /\ out \in Seq(Range(out))
  /\ \A r \in Range(out) : Columns(r) /\ ShowsKept(r)

LabelsRight ==
  head # << >> /\ ~dm.full => Len(head) = Len(dm.grps) + Len(LabelStarts)

PrintInv == KeptShows /\ RowsRight /\ LabelsRight

(* What collecting a text does to an accumulator that shows another.       *)
LEMMA CollectShows ==
  ASSUME NEW o \in OpName, NEW s \in OpState, Ready(o, s),
         NEW t \in Text, ~Invalid(o, t), NEW pick \in BOOLEAN
  PROVE  LET c == CollectOp(o, s, t, pick) IN
         /\ ~c.first
         /\ s.first \/ KeepsLine(o, s, t, pick) => Shows(o, c, t)
         /\ \A u : ~s.first /\ ~KeepsLine(o, s, t, pick) /\ Shows(o, s, u)
                     => Shows(o, c, u)
PROOF
  <1> DEFINE v == IF o \in Numeric THEN Number[t] ELSE 0
             c == CollectOp(o, s, t, pick)
  <1>1. /\ ~c.first /\ c.value = CollectedValue(o, s, v)
        /\ c.strs = CollectedStrs(o, s, t, pick)
    BY DEF CollectOp
  <1>2. CASE o \in Extremal
    <2>1. v = Number[t] /\ t \in DOMAIN Number /\ v \in Int
      BY <1>2, FieldOpsAssumption DEF Numeric, Invalid
    <2>2. o \notin {"first", "last", "rand"}
      BY <1>2 DEF Extremal
    <2>3. c.value = IF Improves(o, v, Current(o, s, v)) THEN v ELSE Current(o, s, v)
      BY <1>1, <1>2 DEF CollectedValue, Extremal
    <2>4. Current(o, s, v) = IF s.first THEN v ELSE s.value
      BY <1>2 DEF Current
    <2>5. KeepsLine(o, s, t, pick) <=> Improves(o, v, Current(o, s, v))
      BY <1>2, <2>1, <2>2 DEF KeepsLine
    <2> HIDE DEF c, v
    <2>6. s.first \/ KeepsLine(o, s, t, pick) => c.value = v
      BY <2>3, <2>4, <2>5
    <2>7. ~s.first /\ ~KeepsLine(o, s, t, pick) => c.value = s.value
      BY <2>3, <2>4, <2>5
    <2> QED BY <1>1, <2>1, <2>2, <2>6, <2>7 DEF Shows, c
  <1>3. CASE o \in {"first", "last", "rand"}
    <2>1. o \notin Extremal \cup {"softmax"} /\ o \notin Strings
      BY <1>3 DEF Extremal, Strings
    <2>2. s.first \/ KeepsLine(o, s, t, pick) => c.strs = <<t>>
      BY <1>1, <1>3, <2>1 DEF CollectedStrs, KeepsLine, Latest
    <2>3. ~s.first /\ ~KeepsLine(o, s, t, pick) => c.strs = s.strs
      BY <1>1, <1>3, <2>1 DEF CollectedStrs, KeepsLine, Latest
    <2> HIDE DEF c
    <2> QED BY <1>1, <2>1, <2>2, <2>3 DEF Shows, c
  <1>4. CASE o \notin Extremal /\ o \notin {"first", "last", "rand"}
    BY <1>1, <1>4 DEF Shows
  <1> QED BY <1>2, <1>3, <1>4

(* The job does not change, nor what is printed by it.                     *)
LEMMA SameJob ==
  ASSUME dm' = dm
  PROVE  /\ \A r : Columns(r)' <=> Columns(r)
         /\ \A r : ShowsKept(r)' <=> ShowsKept(r)
         /\ out' = out /\ RowsRight => RowsRight'
         /\ head' = head /\ LabelsRight => LabelsRight'
  <1>1. Primaries' = Primaries /\ LabelStarts' = LabelStarts
    BY DEF Primaries, LabelStarts
  <1>2. /\ \A r : Columns(r)' <=> Columns(r)
        /\ \A r : ShowsKept(r)' <=> ShowsKept(r)
    BY <1>1 DEF Columns, ShowsKept
  <1> QED BY <1>1, <1>2 DEF RowsRight, LabelsRight

(* The row that process_group prints for the group that ends.              *)
LEMMA PrintedIsRight ==
  ASSUME TypeInv, GroupInv, PrintInv, status = "reading", lines_in_group > 0
  PROVE  LET r == PrintedGroup(input[kept]) IN Columns(r) /\ ShowsKept(r)
PROOF
  <1> DEFINE r == PrintedGroup(input[kept])
             op == dm.ops[1].op
  <1>0. /\ dm \in Jobs /\ dm.grps \in Seq(Nat \ {0})
        /\ Primaries \in Seq(PrimarySet) /\ Len(Primaries) \in Nat
        /\ Len(dm.ops) = 1 => Primaries = <<1>>
        /\ ops \in [DOMAIN dm.ops -> OpState]
        /\ lines_in_group \in Nat
    BY JobFacts, LabelForEachResult, InputFacts DEF TypeInv, TypeOK
  <1>1. /\ r.fields = PrintedFields(input[kept])
        /\ r.results = [k \in DOMAIN Primaries |-> OpResult(Primaries[k])]
    BY DEF PrintedGroup
  <1>2. Columns(r)
    <2>1. DOMAIN Primaries = 1 .. Len(Primaries)
      BY <1>0
    <2>2. Len(r.results) = Len(Primaries)
      BY <1>0, <1>1, <2>1
    <2>3. DOMAIN dm.grps = 1 .. Len(dm.grps) /\ Len(dm.grps) \in Nat
      BY <1>0
    <2>4. ~dm.full => Len(r.fields) = Len(dm.grps)
      BY <1>1, <2>3 DEF PrintedFields
    <2> QED BY <2>2, <2>4 DEF Columns
  <1>3. ShowsKept(r)
    <2> SUFFICES ASSUME dm.full, ~dm.narm, Len(dm.ops) = 1
                 PROVE  ShowsKept(r)
      BY DEF ShowsKept
    <2>1. Primaries = <<1>> /\ 1 \in DOMAIN Primaries /\ Primaries[1] = 1
      BY <1>0
    <2>2. r.fields = input[kept]
      BY <1>1 DEF PrintedFields
    <2>3. r.results[1] = OpResult(1)
      BY <1>1, <2>1
    <2>4. 1 \in DOMAIN ops /\ 1 \in DOMAIN dm.ops /\ op \in OpName
      <3>1. 1 \in DOMAIN dm.ops
        BY <1>0, JobFacts
      <3> QED BY <1>0, <3>1, JobFacts
    <2>5. Ready(op, ops[1]) /\ ops[1] \in OpState
      BY <1>0, <2>4 DEF TypeInv, AccumulatorsReady
    <2>6. ~ops[1].first /\ Shows(op, ops[1], input[kept][dm.ops[1].field])
      BY <1>0 DEF PrintInv, KeptShows
    <2>7. ops[1].count > 0 /\ ops[1].count # 0
      BY <2>5, <2>6 DEF Ready, OpState
    <2>8. OpResult(1) = SummarizeOp(op, ops[1], SubValues(1), dm.case_sensitive)
      BY DEF OpResult
    <2>9. op \in Extremal => OpResult(1) = <<"number", ops[1].value>>
      BY <2>7, <2>8 DEF SummarizeOp, Extremal
    <2>10. op \in {"first", "last", "rand"} =>
             OpResult(1) = <<"string", ops[1].strs[1]>>
      BY <2>7, <2>8 DEF SummarizeOp, Extremal
    <2> HIDE DEF r
    <2> QED BY <2>2, <2>3, <2>6, <2>9, <2>10 DEF ShowsKept, Shows
  <1> QED BY <1>2, <1>3

(* process_group adds that row or none.                                    *)
LEMMA EmitRows ==
  ASSUME TypeInv, GroupInv, PrintInv, status = "reading", EmitGroup, dm' = dm
  PROVE  RowsRight'
PROOF
  <1> DEFINE r == PrintedGroup(input[kept])
  <1>1. CASE out' = out
    BY <1>1, SameJob DEF PrintInv
  <1>2. CASE out' = Append(out, r) /\ lines_in_group > 0
    <2>1. Columns(r) /\ ShowsKept(r)
      BY <1>2, PrintedIsRight
    <2>2. out \in Seq(Range(out)) /\ \A x \in Range(out) : Columns(x) /\ ShowsKept(x)
      BY DEF PrintInv, RowsRight
    <2> HIDE DEF r
    <2> DEFINE S == Range(out) \cup {r}
    <2>3. out' \in Seq(S)
      BY <1>2, <2>2
    <2>4. Range(out') = S
      <3>1. Len(out) \in Nat /\ DOMAIN out = 1 .. Len(out)
            /\ DOMAIN out' = 1 .. Len(out) + 1 /\ out'[Len(out) + 1] = r
            /\ \A i \in 1 .. Len(out) : out'[i] = out[i]
        BY <1>2, <2>2
      <3>2. \A i \in 1 .. Len(out) + 1 : i = Len(out) + 1 \/ i \in 1 .. Len(out)
        BY <3>1
      <3>3. \A x \in S : x \in Range(out')
        BY <3>1 DEF Range
      <3>4. \A x \in Range(out') : x \in S
        BY <3>1, <3>2 DEF Range
      <3> QED BY <3>3, <3>4
    <2>5. \A x \in S : Columns(x) /\ ShowsKept(x)
      BY <2>1, <2>2
    <2> HIDE DEF S
    <2> QED BY <2>3, <2>4, <2>5, SameJob DEF RowsRight
  <1> QED BY <1>1, <1>2 DEF EmitGroup

(* The header line has its labels.                                         *)
LEMMA HeaderLabels ==
  ASSUME dm \in Jobs, NEW n \in Nat, ~dm.full
  PROVE  Len(HeaderLine(n)) = Len(dm.grps) + Len(LabelStarts)
PROOF
  <1> DEFINE keys   == [i \in DOMAIN dm.grps |-> <<"GroupBy", <<dm.grps[i]>> >>]
             labels == [k \in DOMAIN LabelStarts |->
                          <<dm.ops[LabelStarts[k]].op, LabelFields(LabelStarts[k])>>]
             A == {keys[i] : i \in DOMAIN dm.grps}
             B == {labels[k] : k \in DOMAIN LabelStarts}
  <1>1. /\ dm.grps \in Seq(Nat \ {0}) /\ LabelStarts \in Seq(LabelSet)
    BY JobFacts, LabelForEachResult
  <1>2. DOMAIN dm.grps = 1 .. Len(dm.grps) /\ Len(dm.grps) \in Nat
        /\ DOMAIN LabelStarts = 1 .. Len(LabelStarts) /\ Len(LabelStarts) \in Nat
    BY <1>1
  <1>3. keys \in [1 .. Len(dm.grps) -> A] /\ labels \in [1 .. Len(LabelStarts) -> B]
    BY <1>2
  <1>4. HeaderLine(n) = keys \o labels
    BY DEF HeaderLine
  <1> HIDE DEF keys, labels, A, B
  <1>5. keys \in Seq(A) /\ labels \in Seq(B)
    BY ONLY <1>2, <1>3, SeqDef
  <1>6. Len(keys) = Len(dm.grps) /\ Len(labels) = Len(LabelStarts)
    BY ONLY <1>2, <1>3, <1>5, LenProperties
  <1>7. keys \in Seq(A \cup B) /\ labels \in Seq(A \cup B)
    BY <1>5
  <1>8. Len(keys \o labels) = Len(keys) + Len(labels)
    BY ONLY <1>7, ConcatProperties
  <1> QED BY <1>4, <1>6, <1>8

(* A line that is collected becomes the line kept, or the line kept still  *)
(* shows the value.                                                        *)
LEMMA KeptAfterLine ==
  ASSUME TypeInv, GroupInv, PrintInv, ReadLine, status' = "reading"
  PROVE  KeptShows'
PROOF
  <1> DEFINE l    == NextLine
             base == IF ClosesGroup(l) THEN [i \in DOMAIN dm.ops |-> ResetOp] ELSE ops
             op   == dm.ops[1].op
             t    == l[dm.ops[1].field]
  <1> SUFFICES ASSUME ~dm.narm, Len(dm.ops) = 1
               PROVE  KeptShows'
    BY DEF KeptShows, ReadLine
  <1>1. /\ status = "reading" /\ dm' = dm /\ input' = input /\ l = input[pos + 1]
        /\ pos \in Nat /\ lines_in_group \in Nat /\ lines_in_group' # 0
        /\ pos + 1 \in 1 .. Len(input)
    BY InputFacts DEF ReadLine, Reading, NextLine, TypeInv, TypeOK
  <1>2. Failing(l) = {}
    BY <1>1 DEF ReadLine, LineError
  <1>3. PICK picks :
          /\ ops' = CollectLine(l, base, picks)
          /\ kept' = IF NewGroup(l) \/ KeepLine(l, base, picks) THEN pos + 1 ELSE kept
    BY <1>2 DEF ReadLine
  <1>4. DOMAIN dm.ops = {1} /\ op \in OpName
    <2>1. dm \in Jobs /\ dm.ops \in Seq(OpSpec)
      BY JobFacts DEF TypeInv, TypeOK
    <2>2. DOMAIN dm.ops = {1}
      BY <2>1
    <2> QED BY <2>1, <2>2, JobFacts
  <1>5. ~Skipped(dm.narm, t)
    BY DEF Skipped
  <1>6. Has(l, dm.ops[1].field) /\ t \in Text /\ ~Invalid(op, t)
    <2>1. Has(l, dm.ops[1].field) /\ ~Invalid(op, t)
      BY <1>2, <1>4, <1>5 DEF Failing
    <2> QED BY <1>1, <2>1, InputFacts DEF Has, TypeInv, TypeOK
  <1>7. base[1] \in OpState /\ Ready(op, base[1])
    BY <1>4, ResetReady DEF TypeInv, TypeOK, AccumulatorsReady
  <1>8. ops'[1] = CollectOp(op, base[1], t, 1 \in picks)
    BY <1>3, <1>4, <1>5 DEF CollectLine
  <1>9. KeepLine(l, base, picks) <=> KeepsLine(op, base[1], t, 1 \in picks)
    BY <1>4, <1>5 DEF KeepLine
  <1>10. NewGroup(l) => base[1].first
    <2>1. CASE ClosesGroup(l)
      BY <1>4, <2>1 DEF ResetOp
    <2>2. CASE ~ClosesGroup(l)
      <3>1. NewGroup(l) => lines_in_group = 0
        BY <1>1, <2>2, MarkIsSound
           DEF ClosesGroup, NewGroup, Compares, EmptyMeansNoGroup
      <3> QED BY <1>1, <2>2, <3>1 DEF PrintInv, KeptShows
    <2> QED BY <2>1, <2>2
  <1>11. ~NewGroup(l) =>
            /\ base[1] = ops[1] /\ ~ops[1].first
            /\ Has(input[kept], dm.ops[1].field)
            /\ Shows(op, ops[1], input[kept][dm.ops[1].field])
    <2>1. ~NewGroup(l) => ~ClosesGroup(l) /\ lines_in_group # 0
      BY <1>1, MarkIsSound DEF ClosesGroup, NewGroup, EmptyMeansNoGroup
    <2> QED BY <1>1, <2>1 DEF PrintInv, KeptShows
  <1> HIDE DEF l, base, op, t
  <1>12. (1 \in picks) \in BOOLEAN
    OBVIOUS
  <1> DEFINE c == CollectOp(op, base[1], t, 1 \in picks)
  <1>13. /\ ~c.first
         /\ base[1].first \/ KeepsLine(op, base[1], t, 1 \in picks) => Shows(op, c, t)
         /\ \A u : ~base[1].first /\ ~KeepsLine(op, base[1], t, 1 \in picks)
                     /\ Shows(op, base[1], u) => Shows(op, c, u)
    BY <1>4, <1>6, <1>7, <1>12, CollectShows
  <1> HIDE DEF c
  <1>14. CASE NewGroup(l) \/ KeepLine(l, base, picks)
    <2>1. Shows(op, c, t)
      BY <1>9, <1>10, <1>13, <1>14
    <2>2. kept' = pos + 1
      BY <1>3, <1>14
    <2> QED BY <1>1, <1>6, <1>8, <1>13, <2>1, <2>2 DEF KeptShows, Has, Shows, c, t, op
  <1>15. CASE ~(NewGroup(l) \/ KeepLine(l, base, picks))
    <2>1. Shows(op, c, input[kept][dm.ops[1].field])
      BY <1>9, <1>11, <1>13, <1>15
    <2>2. kept' = kept /\ Has(input[kept], dm.ops[1].field)
      BY <1>3, <1>11, <1>15
    <2> QED BY <1>1, <1>8, <1>13, <2>1, <2>2 DEF KeptShows, Has, Shows, c, op
  <1> QED BY <1>14, <1>15

LEMMA InitPrintInv == Init => PrintInv
  <1> SUFFICES ASSUME Init PROVE PrintInv
    OBVIOUS
  <1>1. Len(dm.ops) = 1 => 1 \in DOMAIN dm.ops
    BY JobFacts DEF Init
  <1>2. KeptShows
    BY <1>1 DEF Init, KeptShows, ResetOp
  <1>3. RowsRight
    <2>1. Range(out) = {}
      BY DEF Init, Range
    <2> QED BY <2>1 DEF Init, RowsRight
  <1>4. LabelsRight
    BY DEF Init, LabelsRight
  <1> QED BY <1>2, <1>3, <1>4 DEF PrintInv

LEMMA NextPrintInv ==
  TypeInv /\ GroupInv /\ PrintInv /\ [Next]_vars => PrintInv'
  <1> SUFFICES ASSUME TypeInv, GroupInv, PrintInv, [Next]_vars PROVE PrintInv'
    OBVIOUS
  <1>0. dm \in Jobs /\ KeptShows /\ RowsRight /\ LabelsRight
    BY DEF TypeInv, TypeOK, PrintInv
  <1>1. CASE Start
    <2>1. /\ status = "start" /\ out' = out
          /\ UNCHANGED <<dm, input, kept, lines_in_group, ops>>
          /\ lines_in_group = 0
      BY <1>1 DEF Start, TypeInv, Fresh
    <2>2. KeptShows'
      BY <1>0, <2>1 DEF KeptShows
    <2>3. LabelsRight'
      <3>1. CASE head' = head
        BY <1>0, <2>1, <3>1, SameJob
      <3>2. CASE head' = HeaderLine(Len(input[1])) /\ input # << >>
        <4>1. Len(input[1]) \in Nat
          BY <3>2, InputFacts DEF TypeInv, TypeOK
        <4>2. ~dm.full => Len(head') = Len(dm.grps) + Len(LabelStarts)
          BY <1>0, <3>2, <4>1, HeaderLabels
        <4> QED BY <2>1, <4>2 DEF LabelsRight, LabelStarts
      <3> QED BY <1>1, <3>1, <3>2 DEF Start
    <2> QED BY <1>0, <2>1, <2>2, <2>3, SameJob DEF PrintInv
  <1>2. CASE Die
    <2>1. UNCHANGED <<dm, head, out>> /\ status' \in Errors
      BY <1>2 DEF Die, HeaderError, GroupFails, GroupError, Errors
    <2>2. KeptShows'
      BY <2>1 DEF KeptShows, Errors
    <2> QED BY <1>0, <2>1, <2>2, SameJob DEF PrintInv
  <1>3. CASE ReadLine
    <2>1. status = "reading" /\ dm' = dm /\ NextLine = input[pos + 1]
          /\ pos + 1 \in 1 .. Len(input)
      BY <1>3, InputFacts DEF ReadLine, Reading, NextLine, TypeInv, TypeOK
    <2>2. KeptShows'
      <3>1. CASE status' = "reading"
        BY <1>3, <3>1, KeptAfterLine
      <3>2. CASE status' # "reading"
        <4>1. status' # "start"
          BY <1>3, <2>1 DEF ReadLine, LineError
        <4> QED BY <3>2, <4>1 DEF KeptShows
      <3> QED BY <3>1, <3>2
    <2>3. RowsRight'
      <3>1. CASE ClosesGroup(NextLine)
        BY <1>3, <2>1, <3>1, EmitRows DEF ReadLine
      <3>2. CASE ~ClosesGroup(NextLine)
        BY <1>0, <1>3, <2>1, <3>2, SameJob DEF ReadLine
      <3> QED BY <3>1, <3>2
    <2>4. LabelsRight'
      <3>1. CASE head' = head
        BY <1>0, <2>1, <3>1, SameJob
      <3>2. CASE head' = HeaderLine(Len(NextLine))
        <4>1. Len(NextLine) \in Nat
          BY <2>1, InputFacts DEF TypeInv, TypeOK
        <4>2. ~dm.full => Len(head') = Len(dm.grps) + Len(LabelStarts)
          BY <1>0, <3>2, <4>1, HeaderLabels
        <4> QED BY <2>1, <4>2 DEF LabelsRight, LabelStarts
      <3> QED BY <1>3, <3>1, <3>2 DEF ReadLine
    <2> QED BY <2>2, <2>3, <2>4 DEF PrintInv
  <1>4. CASE Finish
    <2>1. UNCHANGED <<dm, head>> /\ status = "reading"
      BY <1>4 DEF Finish
    <2>2. status' \notin {"start", "reading"}
      BY <1>4 DEF Finish, GroupError
    <2>3. KeptShows'
      BY <2>2 DEF KeptShows
    <2>4. RowsRight'
      <3>1. CASE GroupError = "ok"
        BY <1>4, <2>1, <3>1, EmitRows DEF Finish
      <3>2. CASE GroupError # "ok"
        BY <1>0, <1>4, <2>1, <3>2, SameJob DEF Finish
      <3> QED BY <3>1, <3>2
    <2> QED BY <1>0, <2>1, <2>3, <2>4, SameJob DEF PrintInv
  <1>5. CASE UNCHANGED vars
    <2>1. KeptShows'
      BY <1>0, <1>5 DEF vars, KeptShows
    <2> QED BY <1>0, <1>5, <2>1, SameJob DEF vars, PrintInv
  <1> QED BY <1>1, <1>2, <1>3, <1>4, <1>5 DEF Next

LEMMA PrintInvHolds == Spec => []PrintInv
  <1>1. Init => PrintInv
    BY InitPrintInv
  <1>2. TypeInv /\ GroupInv /\ PrintInv /\ [Next]_vars => PrintInv'
    BY NextPrintInv
  <1> QED BY <1>1, <1>2, GroupInvHolds, PTL DEF Spec

(* Without --full, the header line has a label for each column of every    *)
(* line that is printed, pairs of fields included.                         *)
THEOREM HeaderFitsTheTable == Spec => []HeaderMatchesColumns
  <1>1. TypeInv /\ PrintInv => HeaderMatchesColumns
    <2> SUFFICES ASSUME TypeInv, PrintInv, head # << >>, ~dm.full, NEW k \in DOMAIN out
                 PROVE  Len(head) = Len(out[k].fields) + Len(out[k].results)
      BY DEF HeaderMatchesColumns
    <2>1. Columns(out[k])
      BY DEF PrintInv, RowsRight, Range
    <2>2. Len(Primaries) = Len(LabelStarts)
      BY LabelForEachResult DEF TypeInv, TypeOK
    <2> QED BY <2>1, <2>2 DEF PrintInv, LabelsRight, Columns
  <1> QED BY <1>1, PrintInvHolds, TypeCorrect, PTL

(* The line that --full prints is the one whose value is reported.         *)
THEOREM FullLineIsRight == Spec => []FullLineShowsResult
  <1>1. PrintInv => FullLineShowsResult
    <2> SUFFICES ASSUME PrintInv, NEW k \in DOMAIN out
                 PROVE  ShowsKept(out[k])
      BY DEF FullLineShowsResult, ShowsKept
    <2> QED BY DEF PrintInv, RowsRight, Range
  <1> QED BY <1>1, PrintInvHolds, PTL

-----------------------------------------------------------------------------
(* The operators that GroupBy and GroupSummary share.                      *)

LEMMA SharedSets ==
  ASSUME NEW S
  PROVE  /\ Summary!Cardinality(S) = Cardinality(S)
         /\ Summary!Min(S) = Min(S) /\ Summary!Max(S) = Max(S)
         /\ Summary!Range(S) = Range(S) /\ Summary!Last(S) = Last(S)
  <1>1. Summary!Cardinality(S) = Cardinality(S)
    BY DEF Summary!Cardinality, Cardinality
  <1>2. Summary!Min(S) = Min(S) /\ Summary!Max(S) = Max(S)
    BY DEF Summary!Min, Min, Summary!Max, Max
  <1>3. Summary!Range(S) = Range(S) /\ Summary!Last(S) = Last(S)
    BY DEF Summary!Range, Range, Summary!Last, Last
  <1> QED BY <1>1, <1>2, <1>3

LEMMA SharedValues ==
  ASSUME NEW o, NEW t, NEW b
  PROVE  /\ Summary!Skipped(b, t) <=> Skipped(b, t)
         /\ Summary!Invalid(o, t) <=> Invalid(o, t)
         /\ Summary!EmptyResult(o) = EmptyResult(o)
         /\ Summary!Folded(b, t) = Folded(b, t)
         /\ Summary!Distinct(b, t) = Distinct(b, t)
         /\ Summary!Abs(t) = Abs(t)
  <1>1. Summary!EmptyResult(o) = EmptyResult(o)
    BY DEF Summary!EmptyResult, EmptyResult
  <1>2. Summary!Invalid(o, t) <=> Invalid(o, t)
    BY DEF Summary!Invalid, Invalid, Summary!Numeric, Numeric,
           Summary!Extremal, Extremal, Summary!Stored, Stored
  <1>3. /\ Summary!Skipped(b, t) <=> Skipped(b, t)
        /\ Summary!Folded(b, t) = Folded(b, t)
        /\ Summary!Abs(t) = Abs(t)
    BY DEF Summary!Skipped, Skipped, Summary!Folded, Folded, Summary!Abs, Abs
  <1>4. Summary!Distinct(b, t) = Distinct(b, t)
    BY DEF Summary!Distinct, Distinct, Summary!Folded, Folded
  <1> QED BY <1>1, <1>2, <1>3, <1>4

-----------------------------------------------------------------------------
(* The numbers of a set, by their place in it.                             *)

UpTo(S, n) == {m \in S : m <= n}

LEMMA NthIs ==
  ASSUME NEW S \in SUBSET Nat, IsFiniteSet(S), NEW n \in S
  PROVE  Summary!Nth(S, Cardinality(UpTo(S, n))) = n
PROOF
  <1>1. ASSUME NEW i \in S, NEW k \in S, i < k
        PROVE  Cardinality(UpTo(S, i)) # Cardinality(UpTo(S, k))
    <2>0. \A m \in S : m \in Int
      OBVIOUS
    <2>1. /\ \A m \in UpTo(S, i) : m \in UpTo(S, k)
          /\ k \in UpTo(S, k) /\ k \notin UpTo(S, i)
      BY <1>1, <2>0 DEF UpTo
    <2>2. IsFiniteSet(UpTo(S, k))
      BY FS_Subset DEF UpTo
    <2> QED BY <2>1, <2>2, FS_Subset
  <1>2. \A k \in S : Cardinality(UpTo(S, k)) = Cardinality(UpTo(S, n)) => k = n
    <2> TAKE k \in S
    <2>1. k \in Int /\ n \in Int
      OBVIOUS
    <2>2. k < n \/ n < k \/ k = n
      BY <2>1
    <2> QED BY <1>1, <2>2
  <1>3. Summary!Nth(S, Cardinality(UpTo(S, n)))
          = CHOOSE k \in S : Cardinality(UpTo(S, k)) = Cardinality(UpTo(S, n))
    BY SharedSets DEF Summary!Nth, UpTo
  <1> QED BY <1>2, <1>3

(* A number greater than those of a set comes after them.                  *)
LEMMA NthOfMore ==
  ASSUME NEW S \in SUBSET Nat, IsFiniteSet(S), NEW x \in Nat, \A n \in S : n < x
  PROVE  /\ IsFiniteSet(S \cup {x})
         /\ Cardinality(S \cup {x}) = Cardinality(S) + 1
         /\ Cardinality(S) \in Nat
         /\ Summary!Nth(S \cup {x}, Cardinality(S) + 1) = x
         /\ \A k \in 1 .. Cardinality(S) :
              Summary!Nth(S \cup {x}, k) = Summary!Nth(S, k)
PROOF
  <1> DEFINE T == S \cup {x}
             c == Cardinality(S)
  <1>1. x \notin S /\ T \in SUBSET Nat /\ x \in T /\ \A n \in S : n \in Int
    OBVIOUS
  <1>2. IsFiniteSet(T) /\ Cardinality(T) = c + 1 /\ c \in Nat
    BY <1>1, FS_AddElement, FS_CardinalityType
  <1>3. UpTo(T, x) = T
    <2>1. \A m \in T : m <= x
      BY <1>1
    <2> QED BY <2>1 DEF UpTo
  <1>4. \A n \in S : UpTo(T, n) = UpTo(S, n)
    <2> TAKE n \in S
    <2>1. \A m : m \in UpTo(T, n) <=> m \in UpTo(S, n)
      BY <1>1 DEF UpTo
    <2> QED BY <2>1
  <1> HIDE DEF T
  <1>5. Summary!Nth(T, c + 1) = x
    BY <1>1, <1>2, <1>3, NthIs
  <1>6. ASSUME NEW k \in 1 .. c
        PROVE  Summary!Nth(T, k) = Summary!Nth(S, k)
    <2> DEFINE A == {n \in T : Cardinality(UpTo(T, n)) = k}
               B == {n \in S : Cardinality(UpTo(S, n)) = k}
    <2>1. Cardinality(UpTo(T, x)) # k
      BY <1>2, <1>3
    <2>2. \A n : n \in T <=> n \in S \/ n = x
      BY DEF T
    <2>3. \A n : n \in A <=> n \in B
      BY <1>1, <1>4, <2>1, <2>2
    <2>4. A = B
      <3> HIDE DEF A, B
      <3> QED BY <2>3
    <2>5. /\ Summary!Nth(T, k) = CHOOSE n \in T : Cardinality(UpTo(T, n)) = k
          /\ Summary!Nth(S, k) = CHOOSE n \in S : Cardinality(UpTo(S, n)) = k
      BY SharedSets DEF Summary!Nth, UpTo
    <2>6. /\ (CHOOSE n \in T : Cardinality(UpTo(T, n)) = k) = CHOOSE n : n \in A
          /\ (CHOOSE n \in S : Cardinality(UpTo(S, n)) = k) = CHOOSE n : n \in B
      BY Zenon
    <2> HIDE DEF A, B
    <2> QED BY <2>4, <2>5, <2>6
  <1> QED BY <1>2, <1>5, <1>6 DEF T

-----------------------------------------------------------------------------
(* The texts of a field over a run of lines.                               *)

Usable(f, run) == {n \in run : ~Skipped(dm.narm, input[n][f])}

LEMMA TextsAre ==
  ASSUME NEW f, NEW run
  PROVE  Summary!Texts(f, run)
           = [k \in 1 .. Cardinality(Usable(f, run)) |->
                input[Summary!Nth(Usable(f, run), k)][f]]
  <1>1. {n \in run : ~Summary!Skipped(dm.narm, input[n][f])} = Usable(f, run)
    BY SharedValues DEF Usable
  <1> QED BY <1>1, SharedSets DEF Summary!Texts

LEMMA NoTexts ==
  ASSUME NEW f, NEW a \in Nat, NEW b \in Nat, b < a
  PROVE  Summary!Texts(f, a .. b) = << >>
  <1> DEFINE u == Summary!Texts(f, a .. b)
  <1>1. Usable(f, a .. b) = {}
    BY DEF Usable
  <1>2. Cardinality({}) = 0 /\ 1 .. 0 = {}
    BY FS_EmptySet
  <1>3. DOMAIN u = {} /\ u = [k \in {} |-> u[k]]
    BY <1>1, <1>2, TextsAre
  <1>4. << >> = [k \in {} |-> u[k]]
    OBVIOUS
  <1> HIDE DEF u
  <1> QED BY <1>3, <1>4 DEF u

LEMMA MoreTexts ==
  ASSUME NEW f, NEW a \in Nat, NEW b \in Nat, a <= b + 1,
         Summary!Texts(f, a .. b) \in Seq(Text), input[b + 1][f] \in Text
  PROVE  Summary!Texts(f, a .. b + 1)
           = IF Skipped(dm.narm, input[b + 1][f]) THEN Summary!Texts(f, a .. b)
             ELSE Append(Summary!Texts(f, a .. b), input[b + 1][f])
PROOF
  <1> DEFINE S == Usable(f, a .. b)
             x == b + 1
             t == input[x][f]
             c == Cardinality(S)
             u == Summary!Texts(f, a .. b)
             w == Summary!Texts(f, a .. x)
  <1>1. S \in SUBSET Nat /\ IsFiniteSet(S) /\ x \in Nat /\ \A n \in S : n < x
    <2>1. IsFiniteSet(a .. b)
      BY FS_Interval
    <2>2. S \in SUBSET (a .. b)
      BY DEF Usable
    <2> QED BY <2>1, <2>2, FS_Subset
  <1>2. u = [k \in 1 .. c |-> input[Summary!Nth(S, k)][f]]
    BY TextsAre
  <1>3. CASE Skipped(dm.narm, t)
    <2>1. Usable(f, a .. x) = S
      BY <1>3 DEF Usable
    <2>2. w = u
      BY <1>2, <2>1, TextsAre
    <2> QED BY <1>3, <2>2
  <1>4. CASE ~Skipped(dm.narm, t)
    <2>1. Usable(f, a .. x) = S \cup {x}
      BY <1>4 DEF Usable
    <2>2. w = [k \in 1 .. Cardinality(S \cup {x}) |->
                 input[Summary!Nth(S \cup {x}, k)][f]]
      BY <2>1, TextsAre
    <2> HIDE DEF S, x, w, c
    <2>3. /\ Cardinality(S \cup {x}) = c + 1 /\ c \in Nat
          /\ Summary!Nth(S \cup {x}, c + 1) = x
          /\ \A k \in 1 .. c : Summary!Nth(S \cup {x}, k) = Summary!Nth(S, k)
      BY <1>1, NthOfMore DEF c
    <2>4. u \in Seq(Text) /\ Len(u) = c
      <3>1. u \in Seq(Text) /\ DOMAIN u = 1 .. c
        BY <1>2
      <3> HIDE DEF u
      <3> QED BY <2>3, <3>1
    <2>5. /\ w = [k \in 1 .. c + 1 |-> w[k]]
          /\ \A k \in 1 .. c + 1 : w[k] = input[Summary!Nth(S \cup {x}, k)][f]
      BY <2>2, <2>3
    <2>6. \A k \in 1 .. c : u[k] = input[Summary!Nth(S, k)][f]
      BY <1>2
    <2> HIDE DEF u, t
    <2>7. \A k \in 1 .. c + 1 : w[k] = IF k = c + 1 THEN t ELSE u[k]
      <3>1. \A k \in 1 .. c + 1 : k = c + 1 \/ k \in 1 .. c
        BY <2>3
      <3> QED BY <2>3, <2>5, <2>6, <3>1 DEF t
    <2>8. t \in Text
      BY DEF t, x
    <2>9. /\ Append(u, t) = [k \in 1 .. c + 1 |-> Append(u, t)[k]]
          /\ \A k \in 1 .. c + 1 : Append(u, t)[k] = IF k = c + 1 THEN t ELSE u[k]
      <3> DEFINE v == Append(u, t)
      <3>1. /\ v \in Seq(Text) /\ Len(v) = c + 1 /\ v[c + 1] = t
            /\ \A k \in 1 .. c : v[k] = u[k]
        BY <2>4, <2>8, AppendProperties
      <3> HIDE DEF v
      <3>2. DOMAIN v = 1 .. c + 1 /\ v = [k \in DOMAIN v |-> v[k]]
        BY <3>1
      <3>3. \A k \in 1 .. c + 1 : k = c + 1 \/ k \in 1 .. c
        BY <2>3
      <3> QED BY <3>1, <3>2, <3>3 DEF v
    <2>10. w = Append(u, t)
      BY <2>5, <2>7, <2>9
    <2> QED BY <1>4, <2>10 DEF u, w, x, t
  <1> QED BY <1>3, <1>4

-----------------------------------------------------------------------------
(* Sequences of numbers.                                                   *)

LEMMA NumbersOf ==
  ASSUME NEW ts \in Seq(DOMAIN Number)
  PROVE  /\ Summary!Numbers(ts) \in Seq(Int)
         /\ Len(Summary!Numbers(ts)) = Len(ts)
         /\ DOMAIN Summary!Numbers(ts) = DOMAIN ts
         /\ \A k \in DOMAIN ts : Summary!Numbers(ts)[k] = Number[ts[k]]
  <1> DEFINE n == Summary!Numbers(ts)
  <1>1. n = [k \in 1 .. Len(ts) |-> Number[ts[k]]] /\ Len(ts) \in Nat
        /\ DOMAIN ts = 1 .. Len(ts)
    BY DEF Summary!Numbers
  <1>2. \A k \in 1 .. Len(ts) : Number[ts[k]] \in Int
    BY FieldOpsAssumption
  <1>3. n \in Seq(Int)
    BY <1>1, <1>2
  <1>4. DOMAIN n = 1 .. Len(ts)
    BY <1>1
  <1>5. \A k \in 1 .. Len(ts) : n[k] = Number[ts[k]]
    BY <1>1
  <1> HIDE DEF n
  <1>6. Len(n) = Len(ts)
    BY <1>1, <1>3, <1>4
  <1> QED BY <1>1, <1>3, <1>4, <1>5, <1>6 DEF n

(* Two sequences with the same members are one.                            *)
LEMMA SameSeq ==
  ASSUME NEW S, NEW s \in Seq(S), NEW t \in Seq(S), Len(s) = Len(t),
         \A k \in 1 .. Len(s) : s[k] = t[k]
  PROVE  s = t
  <1>1. s = [k \in 1 .. Len(s) |-> s[k]] /\ t = [k \in 1 .. Len(s) |-> t[k]]
    OBVIOUS
  <1> QED BY <1>1

LEMMA NumbersOfMore ==
  ASSUME NEW ts \in Seq(DOMAIN Number), NEW t \in DOMAIN Number
  PROVE  Summary!Numbers(Append(ts, t)) = Append(Summary!Numbers(ts), Number[t])
  <1> DEFINE us == Append(ts, t)
             a  == Summary!Numbers(us)
             n  == Summary!Numbers(ts)
             b  == Append(n, Number[t])
  <1>1. /\ us \in Seq(DOMAIN Number) /\ Len(us) = Len(ts) + 1
        /\ \A k \in 1 .. Len(ts) : us[k] = ts[k]
        /\ us[Len(ts) + 1] = t /\ Len(ts) \in Nat
        /\ DOMAIN us = 1 .. Len(ts) + 1 /\ DOMAIN ts = 1 .. Len(ts)
    OBVIOUS
  <1>2. Number[t] \in Int
    BY FieldOpsAssumption
  <1> HIDE DEF us
  <1>3. /\ a \in Seq(Int) /\ Len(a) = Len(ts) + 1
        /\ \A k \in 1 .. Len(ts) + 1 : a[k] = Number[us[k]]
    BY <1>1, NumbersOf
  <1>4. /\ n \in Seq(Int) /\ Len(n) = Len(ts)
        /\ \A k \in 1 .. Len(ts) : n[k] = Number[ts[k]]
    BY <1>1, NumbersOf
  <1> HIDE DEF a, n
  <1>5. /\ b \in Seq(Int) /\ Len(b) = Len(ts) + 1
        /\ \A k \in 1 .. Len(ts) : b[k] = n[k]
        /\ b[Len(ts) + 1] = Number[t]
    BY <1>2, <1>4, AppendProperties
  <1> HIDE DEF b
  <1>6. \A k \in 1 .. Len(ts) + 1 : k = Len(ts) + 1 \/ k \in 1 .. Len(ts)
    BY <1>1
  <1>7. \A k \in 1 .. Len(ts) + 1 : a[k] = b[k]
    BY <1>1, <1>3, <1>4, <1>5, <1>6, SMTT(30)
  <1>8. a = b
    BY <1>3, <1>5, <1>7, SameSeq
  <1> QED BY <1>8 DEF a, b, us, n

(* The partial sums.                                                       *)
Sums(f, ns, n) == f = [k \in 0 .. n |-> IF k = 0 THEN 0 ELSE f[k - 1] + ns[k]]

LEMMA SumsExist ==
  ASSUME NEW ns, NEW n \in Nat
  PROVE  \E f : Sums(f, ns, n)
PROOF
  <1> DEFINE Bad == {m \in Nat : ~ \E f : Sums(f, ns, m)}
  <1> SUFFICES ASSUME ~ \E f : Sums(f, ns, n) PROVE FALSE
    OBVIOUS
  <1>1. PICK m \in Bad : \A k \in Bad : m <= k
    <2>1. Bad \in SUBSET Nat /\ Bad # {}
      OBVIOUS
    <2> HIDE DEF Bad
    <2> QED BY <2>1, LeastNumber
  <1>2. m \in Nat /\ ~ \E f : Sums(f, ns, m)
    BY <1>1
  <1>3. m # 0
    <2> DEFINE z == [k \in 0 .. 0 |-> 0]
    <2>1. z = [k \in 0 .. 0 |-> z[k]]
          /\ \A k \in 0 .. 0 : z[k] = IF k = 0 THEN 0 ELSE z[k - 1] + ns[k]
      OBVIOUS
    <2> HIDE DEF z
    <2>2. Sums(z, ns, 0)
      BY <2>1 DEF Sums
    <2> QED BY <1>2, <2>2
  <1>4. m - 1 \in Nat /\ m - 1 \notin Bad
    BY <1>1, <1>2, <1>3
  <1>5. PICK f : Sums(f, ns, m - 1)
    BY <1>4
  <1> DEFINE g == [k \in 0 .. m |-> IF k < m THEN f[k] ELSE f[k - 1] + ns[k]]
  <1>6. ASSUME NEW k \in 0 .. m
        PROVE  g[k] = IF k = 0 THEN 0 ELSE g[k - 1] + ns[k]
    <2>1. CASE k = m
      <3>1. m - 1 \in 0 .. m /\ m - 1 < m
        BY <1>2, <1>3
      <3> QED BY <1>3, <2>1, <3>1
    <2>2. CASE k # m
      <3>1. k \in 0 .. m - 1 /\ k < m
        BY <1>2, <2>2
      <3>2. k # 0 => k - 1 \in 0 .. m /\ k - 1 < m
        BY <1>2, <3>1
      <3>3. f[k] = IF k = 0 THEN 0 ELSE f[k - 1] + ns[k]
        BY <1>5, <3>1 DEF Sums
      <3> QED BY <3>1, <3>2, <3>3
    <2> QED BY <2>1, <2>2
  <1>7. g = [k \in 0 .. m |-> g[k]]
    OBVIOUS
  <1> HIDE DEF g
  <1>8. Sums(g, ns, m)
    BY <1>6, <1>7 DEF Sums
  <1> QED BY <1>2, <1>8

LEMMA TotalIs ==
  ASSUME NEW ns \in Seq(Int)
  PROVE  \E f : Sums(f, ns, Len(ns)) /\ Summary!Total(ns) = f[Len(ns)]
  <1> DEFINE F == CHOOSE f : Sums(f, ns, Len(ns))
  <1>1. Len(ns) \in Nat
    OBVIOUS
  <1>2. Sums(F, ns, Len(ns))
    BY <1>1, SumsExist
  <1>3. Summary!Total(ns) = F[Len(ns)]
    BY DEF Summary!Total, Sums
  <1> QED BY <1>2, <1>3

LEMMA TotalOfMore ==
  ASSUME NEW ns \in Seq(Int), NEW v \in Int
  PROVE  Summary!Total(Append(ns, v)) = Summary!Total(ns) + v
PROOF
  <1> DEFINE ms == Append(ns, v)
             n  == Len(ns)
  <1>1. /\ ms \in Seq(Int) /\ Len(ms) = n + 1 /\ n \in Nat
        /\ \A k \in 1 .. n : ms[k] = ns[k]
        /\ ms[n + 1] = v
    OBVIOUS
  <1> HIDE DEF ms, n
  <1>2. PICK f : Sums(f, ns, n) /\ Summary!Total(ns) = f[n]
    BY TotalIs DEF n
  <1>3. PICK g : Sums(g, ms, n + 1) /\ Summary!Total(ms) = g[n + 1]
    BY <1>1, TotalIs
  <1>4. \A k \in 0 .. n : f[k] = IF k = 0 THEN 0 ELSE f[k - 1] + ns[k]
    BY <1>2, Zenon DEF Sums
  <1>5. \A k \in 0 .. n + 1 : g[k] = IF k = 0 THEN 0 ELSE g[k - 1] + ms[k]
    BY <1>3, Zenon DEF Sums
  <1> DEFINE Bad == {k \in 0 .. n : f[k] # g[k]}
  <1>6. Bad = {}
    <2> SUFFICES ASSUME Bad # {} PROVE FALSE
      OBVIOUS
    <2>1. PICK k \in Bad : \A j \in Bad : k <= j
      <3>1. Bad \in SUBSET Nat /\ Bad # {}
        OBVIOUS
      <3> HIDE DEF Bad
      <3> QED BY <3>1, LeastNumber
    <2>2. k \in 0 .. n /\ k \in 0 .. n + 1 /\ f[k] # g[k]
      BY <1>1, <2>1
    <2>3. k # 0
      BY <1>4, <1>5, <2>2
    <2>4. k - 1 \in 0 .. n /\ k - 1 \notin Bad /\ k \in 1 .. n
      BY <1>1, <2>1, <2>2, <2>3
    <2> QED BY <1>1, <1>4, <1>5, <2>2, <2>3, <2>4
  <1>7. n \in 0 .. n /\ n + 1 \in 0 .. n + 1 /\ n + 1 # 0 /\ (n + 1) - 1 = n
    BY <1>1
  <1>8. f[n] = g[n]
    BY <1>6, <1>7
  <1>9. g[n + 1] = g[n] + v
    BY <1>1, <1>5, <1>7
  <1> QED BY <1>2, <1>3, <1>8, <1>9 DEF ms

LEMMA NoTotal == Summary!Total(<< >>) = 0
  <1>1. << >> \in Seq(Int) /\ Len(<< >>) = 0
    OBVIOUS
  <1>2. PICK f : Sums(f, << >>, 0) /\ Summary!Total(<< >>) = f[0]
    BY <1>1, TotalIs
  <1>3. 0 \in 0 .. 0
    OBVIOUS
  <1>4. f[0] = 0
    BY <1>2, <1>3, Zenon DEF Sums
  <1> QED BY <1>2, <1>4

-----------------------------------------------------------------------------
(* The extremes of a sequence of numbers, by what they are compared with.  *)

IsLeast(v, ns) == /\ \E k \in DOMAIN ns : v = ns[k]
                  /\ \A k \in DOMAIN ns : v <= ns[k]

IsGreatest(v, ns) == /\ \E k \in DOMAIN ns : v = ns[k]
                     /\ \A k \in DOMAIN ns : v >= ns[k]

(* The first number that is the nearest to zero.                           *)
IsNearest(v, ns) ==
  \E k \in DOMAIN ns : /\ v = ns[k]
                       /\ \A m \in DOMAIN ns : /\ Abs(v) <= Abs(ns[m])
                                               /\ m < k => Abs(v) < Abs(ns[m])

IsFarthest(v, ns) ==
  \E k \in DOMAIN ns : /\ v = ns[k]
                       /\ \A m \in DOMAIN ns : /\ Abs(v) >= Abs(ns[m])
                                               /\ m < k => Abs(v) > Abs(ns[m])

LEMMA AbsType == \A v \in Int : Abs(v) \in Nat
  BY DEF Abs

LEMMA ExtremesOfOne ==
  ASSUME NEW v \in Int
  PROVE  /\ IsLeast(v, <<v>>) /\ IsGreatest(v, <<v>>)
         /\ IsNearest(v, <<v>>) /\ IsFarthest(v, <<v>>)
  <1>1. DOMAIN <<v>> = {1} /\ <<v>>[1] = v
    OBVIOUS
  <1>2. Abs(v) \in Nat
    BY AbsType
  <1> QED BY <1>1, <1>2 DEF IsLeast, IsGreatest, IsNearest, IsFarthest

(* Each operation compares the extreme so far with one more number.        *)
LEMMA ExtremesOfMore ==
  ASSUME NEW ns \in Seq(Int), NEW v \in Int, NEW u \in Int
  PROVE  LET ms == Append(ns, v) IN
         /\ IsLeast(u, ns) => IsLeast(IF v < u THEN v ELSE u, ms)
         /\ IsGreatest(u, ns) => IsGreatest(IF v > u THEN v ELSE u, ms)
         /\ IsNearest(u, ns) => IsNearest(IF Abs(v) < Abs(u) THEN v ELSE u, ms)
         /\ IsFarthest(u, ns) => IsFarthest(IF Abs(v) > Abs(u) THEN v ELSE u, ms)
PROOF
  <1> DEFINE ms == Append(ns, v)
             n  == Len(ns)
  <1>1. /\ n \in Nat /\ DOMAIN ns = 1 .. n /\ DOMAIN ms = 1 .. n + 1
        /\ ms[n + 1] = v /\ \A k \in 1 .. n : ms[k] = ns[k] /\ ns[k] \in Int
    OBVIOUS
  <1>2. \A k \in 1 .. n + 1 : k = n + 1 \/ k \in 1 .. n
    BY <1>1
  <1>3. \A k \in 1 .. n : k \in 1 .. n + 1 /\ k < n + 1
    BY <1>1
  <1>4. n + 1 \in 1 .. n + 1
    BY <1>1
  <1>5. /\ Abs(u) \in Nat /\ Abs(v) \in Nat
        /\ \A k \in 1 .. n : Abs(ns[k]) \in Nat /\ Abs(ms[k]) = Abs(ns[k])
        /\ Abs(ms[n + 1]) = Abs(v)
    BY <1>1, AbsType
  <1> HIDE DEF ms, n
  <1>6. IsLeast(u, ns) => IsLeast(IF v < u THEN v ELSE u, ms)
    <2> SUFFICES ASSUME IsLeast(u, ns)
                 PROVE  IsLeast(IF v < u THEN v ELSE u, ms)
      OBVIOUS
    <2>1. PICK k \in 1 .. n : u = ns[k]
      BY <1>1 DEF IsLeast
    <2>2. \A m \in 1 .. n : u <= ns[m]
      BY <1>1 DEF IsLeast
    <2>3. u = ms[k] /\ k \in 1 .. n + 1
      BY <1>1, <1>3, <2>1
    <2>4. CASE v < u
      BY <1>1, <1>2, <1>4, <2>2, <2>4 DEF IsLeast
    <2>5. CASE ~(v < u)
      BY <1>1, <1>2, <2>2, <2>3, <2>5, SMTT(30) DEF IsLeast
    <2> QED BY <2>4, <2>5
  <1>7. IsGreatest(u, ns) => IsGreatest(IF v > u THEN v ELSE u, ms)
    <2> SUFFICES ASSUME IsGreatest(u, ns)
                 PROVE  IsGreatest(IF v > u THEN v ELSE u, ms)
      OBVIOUS
    <2>1. PICK k \in 1 .. n : u = ns[k]
      BY <1>1 DEF IsGreatest
    <2>2. \A m \in 1 .. n : u >= ns[m]
      BY <1>1 DEF IsGreatest
    <2>3. u = ms[k] /\ k \in 1 .. n + 1
      BY <1>1, <1>3, <2>1
    <2>4. CASE v > u
      BY <1>1, <1>2, <1>4, <2>2, <2>4 DEF IsGreatest
    <2>5. CASE ~(v > u)
      BY <1>1, <1>2, <2>2, <2>3, <2>5 DEF IsGreatest
    <2> QED BY <2>4, <2>5
  <1>8. IsNearest(u, ns) => IsNearest(IF Abs(v) < Abs(u) THEN v ELSE u, ms)
    <2> SUFFICES ASSUME IsNearest(u, ns)
                 PROVE  IsNearest(IF Abs(v) < Abs(u) THEN v ELSE u, ms)
      OBVIOUS
    <2>1. PICK k \in 1 .. n : /\ u = ns[k]
                              /\ \A m \in 1 .. n : /\ Abs(u) <= Abs(ns[m])
                                                   /\ m < k => Abs(u) < Abs(ns[m])
      BY <1>1 DEF IsNearest
    <2>2. u = ms[k] /\ k \in 1 .. n + 1
      BY <1>1, <1>3, <2>1
    <2>3. CASE Abs(v) < Abs(u)
      <3>1. \A m \in 1 .. n + 1 : /\ Abs(v) <= Abs(ms[m])
                                  /\ m < n + 1 => Abs(v) < Abs(ms[m])
        <4> TAKE m \in 1 .. n + 1
        <4>1. CASE m = n + 1
          BY <1>1, <1>3, <1>5, <2>1, <2>3, <4>1
        <4>2. CASE m \in 1 .. n
          BY <1>1, <1>3, <1>5, <2>1, <2>3, <4>2
        <4> QED BY <1>2, <4>1, <4>2
      <3> QED BY <1>1, <1>4, <2>3, <3>1 DEF IsNearest
    <2>4. CASE ~(Abs(v) < Abs(u))
      <3>1. \A m \in 1 .. n + 1 : /\ Abs(u) <= Abs(ms[m])
                                  /\ m < k => Abs(u) < Abs(ms[m])
        <4> TAKE m \in 1 .. n + 1
        <4>1. CASE m = n + 1
          BY <1>1, <1>3, <1>5, <2>1, <2>4, <4>1
        <4>2. CASE m \in 1 .. n
          BY <1>1, <1>3, <1>5, <2>1, <2>4, <4>2
        <4> QED BY <1>2, <4>1, <4>2
      <3> QED BY <1>1, <2>2, <2>4, <3>1 DEF IsNearest
    <2> QED BY <2>3, <2>4
  <1>9. IsFarthest(u, ns) => IsFarthest(IF Abs(v) > Abs(u) THEN v ELSE u, ms)
    <2> SUFFICES ASSUME IsFarthest(u, ns)
                 PROVE  IsFarthest(IF Abs(v) > Abs(u) THEN v ELSE u, ms)
      OBVIOUS
    <2>1. PICK k \in 1 .. n : /\ u = ns[k]
                              /\ \A m \in 1 .. n : /\ Abs(u) >= Abs(ns[m])
                                                   /\ m < k => Abs(u) > Abs(ns[m])
      BY <1>1 DEF IsFarthest
    <2>2. u = ms[k] /\ k \in 1 .. n + 1
      BY <1>1, <1>3, <2>1
    <2>3. CASE Abs(v) > Abs(u)
      <3>1. \A m \in 1 .. n + 1 : /\ Abs(v) >= Abs(ms[m])
                                  /\ m < n + 1 => Abs(v) > Abs(ms[m])
        <4> TAKE m \in 1 .. n + 1
        <4>1. CASE m = n + 1
          BY <1>1, <1>3, <1>5, <2>1, <2>3, <4>1
        <4>2. CASE m \in 1 .. n
          BY <1>1, <1>3, <1>5, <2>1, <2>3, <4>2
        <4> QED BY <1>2, <4>1, <4>2
      <3> QED BY <1>1, <1>4, <2>3, <3>1 DEF IsFarthest
    <2>4. CASE ~(Abs(v) > Abs(u))
      <3>1. \A m \in 1 .. n + 1 : /\ Abs(u) >= Abs(ms[m])
                                  /\ m < k => Abs(u) > Abs(ms[m])
        <4> TAKE m \in 1 .. n + 1
        <4>1. CASE m = n + 1
          BY <1>1, <1>3, <1>5, <2>1, <2>4, <4>1
        <4>2. CASE m \in 1 .. n
          BY <1>1, <1>3, <1>5, <2>1, <2>4, <4>2
        <4> QED BY <1>2, <4>1, <4>2
      <3> QED BY <1>1, <2>2, <2>4, <3>1 DEF IsFarthest
    <2> QED BY <2>3, <2>4
  <1> QED BY <1>6, <1>7, <1>8, <1>9 DEF ms

(* The operators of GroupSummary find these extremes.                      *)
LEMMA LeastIsMin ==
  ASSUME NEW ns \in Seq(Int), NEW v \in Int
  PROVE  /\ IsLeast(v, ns) => Min(Range(ns)) = v
         /\ IsGreatest(v, ns) => Max(Range(ns)) = v
         /\ IsNearest(v, ns) => Summary!Nearest(ns) = v
         /\ IsFarthest(v, ns) => Summary!Farthest(ns) = v
PROOF
  <1>0. /\ \A k \in DOMAIN ns : ns[k] \in Int /\ Abs(ns[k]) \in Nat /\ k \in Nat
        /\ Abs(v) \in Nat
    <2>1. \A k \in DOMAIN ns : ns[k] \in Int /\ k \in Nat
      OBVIOUS
    <2> QED BY <2>1, AbsType
  <1>1. ASSUME IsLeast(v, ns) PROVE Min(Range(ns)) = v
    <2>1. v \in Range(ns) /\ \A x \in Range(ns) : v <= x /\ x \in Int
      BY <1>0, <1>1 DEF IsLeast, Range
    <2>2. \A x \in Range(ns) : (\A y \in Range(ns) : x <= y) => x = v
      BY <2>1
    <2> QED BY <2>1, <2>2 DEF Min
  <1>2. ASSUME IsGreatest(v, ns) PROVE Max(Range(ns)) = v
    <2>1. v \in Range(ns) /\ \A x \in Range(ns) : v >= x /\ x \in Int
      BY <1>0, <1>2 DEF IsGreatest, Range
    <2>2. \A x \in Range(ns) : (\A y \in Range(ns) : x >= y) => x = v
      BY <2>1
    <2> QED BY <2>1, <2>2 DEF Max
  <1>3. ASSUME IsNearest(v, ns) PROVE Summary!Nearest(ns) = v
    <2> DEFINE S == {k \in DOMAIN ns : \A m \in DOMAIN ns : Abs(ns[k]) <= Abs(ns[m])}
    <2>1. PICK k \in DOMAIN ns :
            /\ v = ns[k]
            /\ \A m \in DOMAIN ns : /\ Abs(v) <= Abs(ns[m])
                                    /\ m < k => Abs(v) < Abs(ns[m])
      BY <1>3 DEF IsNearest
    <2>2. k \in S /\ \A m \in S : k <= m /\ m \in Nat
      BY <1>0, <2>1, SMTT(30)
    <2> HIDE DEF S
    <2>3. Min(S) = k
      <3>1. \A x \in S : (\A y \in S : x <= y) => x = k
        BY <1>0, <2>1, <2>2
      <3> QED BY <2>2, <3>1 DEF Min
    <2>4. Summary!Nearest(ns) = ns[Min(S)]
      <3>1. /\ \A x : Summary!Abs(x) = Abs(x)
            /\ \A T : Summary!Min(T) = Min(T)
        BY SharedSets, SharedValues
      <3> QED BY <3>1 DEF S, Summary!Nearest
    <2> QED BY <2>1, <2>3, <2>4
  <1>4. ASSUME IsFarthest(v, ns) PROVE Summary!Farthest(ns) = v
    <2> DEFINE S == {k \in DOMAIN ns : \A m \in DOMAIN ns : Abs(ns[k]) >= Abs(ns[m])}
    <2>1. PICK k \in DOMAIN ns :
            /\ v = ns[k]
            /\ \A m \in DOMAIN ns : /\ Abs(v) >= Abs(ns[m])
                                    /\ m < k => Abs(v) > Abs(ns[m])
      BY <1>4 DEF IsFarthest
    <2>2. k \in S /\ \A m \in S : k <= m /\ m \in Nat
      BY <1>0, <2>1, SMTT(30)
    <2> HIDE DEF S
    <2>3. Min(S) = k
      <3>1. \A x \in S : (\A y \in S : x <= y) => x = k
        BY <1>0, <2>1, <2>2
      <3> QED BY <2>2, <3>1 DEF Min
    <2>4. Summary!Farthest(ns) = ns[Min(S)]
      <3>1. /\ \A x : Summary!Abs(x) = Abs(x)
            /\ \A T : Summary!Min(T) = Min(T)
        BY SharedSets, SharedValues
      <3> QED BY <3>1 DEF S, Summary!Farthest
    <2> QED BY <2>1, <2>3, <2>4
  <1> QED BY <1>1, <1>2, <1>3, <1>4

-----------------------------------------------------------------------------
(* What an accumulator says of the texts collected.                        *)

(* softmax starts its maximum from zero.                                   *)
IsGreatestOrZero(v, ns) ==
  /\ v = 0 \/ \E k \in DOMAIN ns : v = ns[k]
  /\ v >= 0 /\ \A k \in DOMAIN ns : v >= ns[k]

HoldsNumbers(o, s, ns) ==
  /\ o \in Stored => s.values = ns
  /\ o \in {"sum", "mean"} => s.value = Summary!Total(ns)
  /\ o = "softmax" => IsGreatestOrZero(s.value, ns)
  /\ ns # << >> =>
       /\ o = "min" => IsLeast(s.value, ns)
       /\ o = "max" => IsGreatest(s.value, ns)
       /\ o = "absmin" => IsNearest(s.value, ns)
       /\ o = "absmax" => IsFarthest(s.value, ns)
       /\ o = "range" => IsLeast(s.values[1], ns) /\ IsGreatest(s.values[2], ns)
       /\ o = "round" => s.value = ns[Len(ns)]

HoldsTexts(o, s, ts) ==
  /\ o = "count" => s.value = Len(ts)
  /\ o \in Strings => s.strs = ts
  /\ ts # << >> =>
       /\ o = "first" => s.strs[1] = ts[1]
       /\ o \in Latest \cup {"debase64"} => s.strs[1] = ts[Len(ts)]
       /\ o = "rand" => \E k \in DOMAIN ts : s.strs[1] = ts[k]

Holds(o, s, ts) ==
  /\ ts \in Seq(Text)
  /\ s.count = Len(ts)
  /\ HoldsTexts(o, s, ts)
  /\ o \in Numeric => /\ ts \in Seq(DOMAIN Number)
                      /\ HoldsNumbers(o, s, Summary!Numbers(ts))

(* A reset accumulator has collected nothing.                              *)
LEMMA ResetHolds ==
  ASSUME NEW o \in OpName
  PROVE  Holds(o, ResetOp, << >>)
PROOF
  <1>1. << >> \in Seq(Text) /\ << >> \in Seq(DOMAIN Number) /\ Len(<< >>) = 0
    OBVIOUS
  <1>2. /\ ResetOp.count = 0 /\ ResetOp.value = 0
        /\ ResetOp.values = << >> /\ ResetOp.strs = << >>
    BY DEF ResetOp
  <1>3. Summary!Numbers(<< >>) = << >>
    <2> DEFINE n == Summary!Numbers(<< >>)
    <2>1. n \in Seq(Int) /\ Len(n) = 0
      BY <1>1, NumbersOf
    <2> HIDE DEF n
    <2>2. n = << >>
      BY <2>1
    <2> QED BY <2>2 DEF n
  <1>4. IsGreatestOrZero(0, << >>)
    BY DEF IsGreatestOrZero
  <1>5. HoldsTexts(o, ResetOp, << >>)
    BY <1>1, <1>2 DEF HoldsTexts
  <1>6. HoldsNumbers(o, ResetOp, << >>)
    BY <1>2, <1>4, NoTotal DEF HoldsNumbers
  <1> QED BY <1>1, <1>2, <1>3, <1>5, <1>6 DEF Holds

LEMMA CollectHoldsTexts ==
  ASSUME NEW o \in OpName, NEW s \in OpState, Ready(o, s),
         NEW ts \in Seq(Text), s.count = Len(ts), HoldsTexts(o, s, ts),
         NEW t \in Text, NEW pick \in BOOLEAN
  PROVE  HoldsTexts(o, CollectOp(o, s, t, pick), Append(ts, t))
PROOF
  <1> DEFINE us == Append(ts, t)
             c  == CollectOp(o, s, t, pick)
             n  == Len(ts)
             v  == IF o \in Numeric THEN Number[t] ELSE 0
  <1>1. /\ us \in Seq(Text) /\ Len(us) = n + 1 /\ n \in Nat /\ us # << >>
        /\ DOMAIN us = 1 .. n + 1 /\ DOMAIN ts = 1 .. n
        /\ us[n + 1] = t /\ \A k \in 1 .. n : us[k] = ts[k]
    <2>1. /\ us \in Seq(Text) /\ Len(us) = n + 1 /\ n \in Nat /\ us # << >>
          /\ us[n + 1] = t /\ \A k \in 1 .. n : us[k] = ts[k]
      BY AppendProperties
    <2> HIDE DEF us
    <2> QED BY <2>1
  <1>2. c.value = CollectedValue(o, s, v) /\ c.strs = CollectedStrs(o, s, t, pick)
    BY DEF CollectOp
  <1>3. s.strs \in Seq(Text) /\ s.first \in BOOLEAN /\ s.count \in Nat
        /\ (s.first <=> n = 0) /\ (n = 0 <=> ts = << >>)
    BY DEF OpState, Ready
  <1> HIDE DEF us, c, n, v
  <1>4. o = "count" => c.value = n + 1
    BY <1>2, <1>3 DEF CollectedValue, HoldsTexts, n, Extremal
  <1>5. o \in Strings => c.strs = us
    BY <1>2, <1>3 DEF CollectedStrs, HoldsTexts, us, Strings, Latest
  <1>6. o = "first" => c.strs[1] = us[1]
    <2>1. CASE n = 0
      <3>1. o = "first" => c.strs = <<t>>
        BY <1>2, <1>3, <2>1 DEF CollectedStrs, Strings, Latest
      <3> QED BY <1>1, <2>1, <3>1
    <2>2. CASE n # 0
      <3>1. o = "first" => c.strs = s.strs
        BY <1>2, <1>3, <2>2 DEF CollectedStrs, Strings, Latest
      <3>2. 1 \in 1 .. n
        BY <1>1, <2>2
      <3> QED BY <1>1, <1>3, <2>2, <3>1, <3>2 DEF HoldsTexts
    <2> QED BY <2>1, <2>2
  <1>7. o \in Latest \cup {"debase64"} => c.strs[1] = us[Len(us)]
    <2>1. o \in Latest \cup {"debase64"} => c.strs = <<t>>
      BY <1>2 DEF CollectedStrs, Strings, Latest
    <2> QED BY <1>1, <2>1
  <1>8. o = "rand" => \E k \in DOMAIN us : c.strs[1] = us[k]
    <2>1. CASE s.first \/ pick
      <3>1. o = "rand" => c.strs = <<t>>
        BY <1>2, <2>1 DEF CollectedStrs, Strings, Latest
      <3>2. n + 1 \in DOMAIN us
        BY <1>1
      <3> QED BY <1>1, <3>1, <3>2
    <2>2. CASE ~(s.first \/ pick)
      <3>1. o = "rand" => c.strs = s.strs
        BY <1>2, <2>2 DEF CollectedStrs, Strings, Latest
      <3>2. o = "rand" => \E k \in DOMAIN ts : s.strs[1] = ts[k]
        BY <1>3, <2>2 DEF HoldsTexts
      <3>3. \A k \in DOMAIN ts : k \in DOMAIN us /\ us[k] = ts[k]
        BY <1>1
      <3> QED BY <3>1, <3>2, <3>3
    <2> QED BY <2>1, <2>2
  <1>9. HoldsTexts(o, c, us)
    BY <1>1, <1>4, <1>5, <1>6, <1>7, <1>8 DEF HoldsTexts
  <1> QED BY <1>9 DEF c, us

LEMMA GreatestOrZero ==
  ASSUME NEW ns \in Seq(Int), NEW u \in Int, IsGreatestOrZero(u, ns)
  PROVE  /\ Max({0} \cup Range(ns)) = u
         /\ \A v \in Int : IsGreatestOrZero(IF v > u THEN v ELSE u, Append(ns, v))
PROOF
  <1> DEFINE S == {0} \cup Range(ns)
  <1>1. u \in S /\ \A x \in S : u >= x /\ x \in Int
    BY DEF Range, IsGreatestOrZero
  <1> HIDE DEF S
  <1>2. \A x \in S : (\A y \in S : x >= y) => x = u
    BY <1>1
  <1>3. Max(S) = u
    BY <1>1, <1>2 DEF Max
  <1>4. ASSUME NEW v \in Int
        PROVE  IsGreatestOrZero(IF v > u THEN v ELSE u, Append(ns, v))
    <2> DEFINE ms == Append(ns, v)
               n  == Len(ns)
    <2>1. /\ n \in Nat /\ DOMAIN ns = 1 .. n /\ DOMAIN ms = 1 .. n + 1
          /\ ms[n + 1] = v /\ \A k \in 1 .. n : ms[k] = ns[k] /\ ns[k] \in Int
      OBVIOUS
    <2> HIDE DEF ms, n
    <2>2. \A k \in 1 .. n + 1 : k = n + 1 \/ k \in 1 .. n
      BY <2>1
    <2>3. n + 1 \in 1 .. n + 1 /\ \A k \in 1 .. n : k \in 1 .. n + 1
      BY <2>1
    <2>4. u >= 0 /\ \A k \in 1 .. n : u >= ns[k]
      BY <2>1 DEF IsGreatestOrZero
    <2>5. CASE v > u
      BY <2>1, <2>2, <2>3, <2>4, <2>5 DEF IsGreatestOrZero, ms
    <2>6. CASE ~(v > u)
      <3>1. u = 0 \/ \E k \in 1 .. n + 1 : u = ms[k]
        BY <2>1, <2>3 DEF IsGreatestOrZero
      <3>2. IsGreatestOrZero(u, ms)
        BY <2>1, <2>2, <2>4, <2>6, <3>1 DEF IsGreatestOrZero
      <3> QED BY <2>6, <3>2 DEF ms
    <2> QED BY <2>5, <2>6
  <1> QED BY <1>3, <1>4 DEF S

(* The first number starts the extremes, each later one is compared.       *)
LEMMA CollectHoldsNumbers ==
  ASSUME NEW o \in Numeric, NEW s \in OpState, Ready(o, s),
         NEW ns \in Seq(Int), s.count = Len(ns), HoldsNumbers(o, s, ns),
         NEW t \in DOMAIN Number, NEW pick \in BOOLEAN
  PROVE  HoldsNumbers(o, CollectOp(o, s, t, pick), Append(ns, Number[t]))
PROOF
  <1> DEFINE v  == Number[t]
             ms == Append(ns, v)
             c  == CollectOp(o, s, t, pick)
             n  == Len(ns)
  <1>0. v \in Int
    BY FieldOpsAssumption
  <1>1. /\ ms \in Seq(Int) /\ Len(ms) = n + 1 /\ n \in Nat /\ ms # << >>
        /\ ms[n + 1] = v
    BY <1>0, AppendProperties
  <1>2. c.value = CollectedValue(o, s, v) /\ c.values = CollectedValues(o, s, v)
    BY DEF CollectOp
  <1>3. /\ s.values \in Seq(Int) /\ s.first \in BOOLEAN /\ s.value \in Int
        /\ (s.first <=> n = 0) /\ (n = 0 <=> ns = << >>)
    BY DEF OpState, Ready
  <1>4. /\ IsLeast(v, <<v>>) /\ IsGreatest(v, <<v>>)
        /\ IsNearest(v, <<v>>) /\ IsFarthest(v, <<v>>)
    BY <1>0, ExtremesOfOne
  <1>5. n = 0 => ms = <<v>>
    BY <1>0, <1>3
  <1> HIDE DEF c, v
  <1>6. o \in Stored => c.values = ms
    <2>1. o \in Stored => c.values = Append(s.values, v) /\ s.values = ns
      BY <1>2 DEF CollectedValues, HoldsNumbers, Stored
    <2> QED BY <2>1
  <1>7. o \in {"sum", "mean"} => c.value = Summary!Total(ms)
    <2>1. o \in {"sum", "mean"} => c.value = s.value + v
      BY <1>2 DEF CollectedValue, Extremal
    <2>2. o \in {"sum", "mean"} => s.value = Summary!Total(ns)
      BY DEF HoldsNumbers
    <2>3. Summary!Total(ms) = Summary!Total(ns) + v
      BY <1>0, TotalOfMore
    <2> QED BY <2>1, <2>2, <2>3
  <1>8. o = "softmax" => IsGreatestOrZero(c.value, ms)
    <2>1. o = "softmax" => c.value = IF v > s.value THEN v ELSE s.value
      BY <1>2 DEF CollectedValue, Improves, Current, Extremal
    <2> QED BY <1>0, <1>3, <2>1, GreatestOrZero DEF HoldsNumbers
  <1>9. o = "round" => c.value = ms[Len(ms)]
    <2>1. o = "round" => c.value = v
      BY <1>2 DEF CollectedValue, Extremal
    <2>2. ms[Len(ms)] = v
      BY <1>1
    <2> QED BY <2>1, <2>2
  <1> DEFINE Extremes ==
        /\ o = "min" => IsLeast(c.value, ms)
        /\ o = "max" => IsGreatest(c.value, ms)
        /\ o = "absmin" => IsNearest(c.value, ms)
        /\ o = "absmax" => IsFarthest(c.value, ms)
        /\ o = "range" => IsLeast(c.values[1], ms) /\ IsGreatest(c.values[2], ms)
  <1>10. CASE n = 0
    <2>1. o \in Extremal => c.value = v
      BY <1>2, <1>3, <1>10 DEF CollectedValue, Current, Extremal
    <2>2. o = "range" => c.values = <<v, v>>
      BY <1>2, <1>3, <1>10 DEF CollectedValues, Stored
    <2>3. Extremes
      BY <1>4, <1>5, <1>10, <2>1, <2>2 DEF Extremal
    <2> HIDE DEF ms
    <2>4. HoldsNumbers(o, c, ms)
      BY <1>6, <1>7, <1>8, <1>9, <2>3 DEF HoldsNumbers
    <2> QED BY <2>4 DEF c, ms, v
  <1>11. CASE n # 0
    <2>1. ns # << >> /\ ~s.first
      BY <1>3, <1>11
    <2>2. \A u \in Int :
            /\ IsLeast(u, ns) => IsLeast(IF v < u THEN v ELSE u, ms)
            /\ IsGreatest(u, ns) => IsGreatest(IF v > u THEN v ELSE u, ms)
            /\ IsNearest(u, ns) => IsNearest(IF Abs(v) < Abs(u) THEN v ELSE u, ms)
            /\ IsFarthest(u, ns) => IsFarthest(IF Abs(v) > Abs(u) THEN v ELSE u, ms)
      BY <1>0, ExtremesOfMore
    <2>3. o \in Extremal => c.value = IF Improves(o, v, s.value) THEN v ELSE s.value
      BY <1>2, <2>1 DEF CollectedValue, Current, Extremal
    <2>4. /\ o = "min" => c.value = IF v < s.value THEN v ELSE s.value
          /\ o = "max" => c.value = IF v > s.value THEN v ELSE s.value
          /\ o = "absmin" => c.value = IF Abs(v) < Abs(s.value) THEN v ELSE s.value
          /\ o = "absmax" => c.value = IF Abs(v) > Abs(s.value) THEN v ELSE s.value
      BY <2>3 DEF Improves, Extremal
    <2>5. o = "range" =>
            /\ s.values[1] \in Int /\ s.values[2] \in Int
            /\ c.values[1] = IF v < s.values[1] THEN v ELSE s.values[1]
            /\ c.values[2] = IF v > s.values[2] THEN v ELSE s.values[2]
      <3>1. o = "range" => Len(s.values) = 2
        BY <1>3, <1>11 DEF Ready, OpState
      <3> QED BY <1>2, <1>3, <2>1, <3>1 DEF CollectedValues, Stored
    <2>6. Extremes
      <3>1. CASE o \in Extremal
        BY <1>3, <2>1, <2>2, <2>4, <3>1 DEF HoldsNumbers, Extremal
      <3>2. CASE o = "range"
        BY <2>1, <2>2, <2>5, <3>2 DEF HoldsNumbers
      <3> QED BY <3>1, <3>2 DEF Extremal
    <2> HIDE DEF ms
    <2>7. HoldsNumbers(o, c, ms)
      BY <1>6, <1>7, <1>8, <1>9, <2>6 DEF HoldsNumbers
    <2> QED BY <2>7 DEF c, ms, v
  <1> QED BY <1>10, <1>11

LEMMA CollectHolds ==
  ASSUME NEW o \in OpName, NEW s \in OpState, Ready(o, s), NEW ts,
         Holds(o, s, ts), NEW t \in Text, ~Invalid(o, t), NEW pick \in BOOLEAN
  PROVE  Holds(o, CollectOp(o, s, t, pick), Append(ts, t))
PROOF
  <1> DEFINE c  == CollectOp(o, s, t, pick)
             us == Append(ts, t)
  <1>1. ts \in Seq(Text) /\ s.count = Len(ts) /\ HoldsTexts(o, s, ts)
    BY DEF Holds
  <1>2. us \in Seq(Text) /\ Len(us) = Len(ts) + 1 /\ c.count = s.count + 1
    BY <1>1 DEF CollectOp
  <1>3. HoldsTexts(o, c, us)
    BY <1>1, CollectHoldsTexts
  <1>4. CASE o \in Numeric
    <2>1. ts \in Seq(DOMAIN Number) /\ t \in DOMAIN Number
      BY <1>4 DEF Holds, Invalid
    <2>2. /\ us \in Seq(DOMAIN Number)
          /\ Summary!Numbers(us) = Append(Summary!Numbers(ts), Number[t])
      BY <2>1, NumbersOfMore
    <2> DEFINE ns == Summary!Numbers(ts)
    <2>3. ns \in Seq(Int) /\ s.count = Len(ns) /\ HoldsNumbers(o, s, ns)
      BY <1>1, <1>4, <2>1, NumbersOf DEF Holds
    <2> HIDE DEF ns, c, us
    <2>4. HoldsNumbers(o, CollectOp(o, s, t, pick), Append(ns, Number[t]))
      BY <1>4, <2>1, <2>3, CollectHoldsNumbers
    <2>5. HoldsNumbers(o, c, Summary!Numbers(us))
      BY <2>2, <2>4 DEF c, ns
    <2> QED BY <1>1, <1>2, <1>3, <2>2, <2>5 DEF Holds, c, us
  <1>5. CASE o \notin Numeric
    BY <1>1, <1>2, <1>3, <1>5 DEF Holds
  <1> QED BY <1>4, <1>5

(* What the accumulator is summarised to is a value of the operation over  *)
(* the texts collected.                                                    *)
LEMMA SummarizeHolds ==
  ASSUME NEW o \in OpName, NEW s \in OpState, NEW ts, NEW sub, Holds(o, s, ts),
         ts = << >> \/ o # "pcov"
  PROVE  SummarizeOp(o, s, sub, dm.case_sensitive) \in Summary!Values(o, ts)
PROOF
  <1> DEFINE r  == SummarizeOp(o, s, sub, dm.case_sensitive)
             ns == Summary!Numbers(ts)
  <1>1. /\ ts \in Seq(Text) /\ s.count = Len(ts) /\ HoldsTexts(o, s, ts)
        /\ Len(ts) \in Nat /\ (Len(ts) = 0 <=> ts = << >>)
    BY DEF Holds
  <1>2. CASE ts = << >>
    <2>1. r = EmptyResult(o)
      BY <1>1, <1>2 DEF SummarizeOp
    <2>2. Summary!Values(o, ts) = {Summary!EmptyResult(o)}
      BY <1>2 DEF Summary!Values
    <2> QED BY <2>1, <2>2, SharedValues
  <1>3. CASE ts # << >> /\ o \in Numeric
    <2>1. /\ ns \in Seq(Int) /\ Len(ns) = Len(ts) /\ ns # << >>
          /\ HoldsNumbers(o, s, ns)
      <3>1. ts \in Seq(DOMAIN Number) /\ HoldsNumbers(o, s, ns)
        BY <1>3 DEF Holds
      <3>2. ns \in Seq(Int) /\ Len(ns) = Len(ts)
        BY <3>1, NumbersOf
      <3> HIDE DEF ns
      <3> QED BY <1>1, <1>3, <3>1, <3>2
    <2>2. s.value \in Int /\ s.values \in Seq(Int) /\ s.count > 0
      BY <1>1, <1>3 DEF OpState
    <2>3. o \in {"sum", "mean"} => r \in Summary!Values(o, ts)
      <3>1. o \in {"sum", "mean"} => s.value = Summary!Total(ns)
        BY <2>1 DEF HoldsNumbers
      <3>2. o = "sum" => r = <<"number", s.value>>
        BY <2>2 DEF SummarizeOp, Extremal
      <3>3. o = "mean" => r = <<"mean", s.value, s.count>>
        BY <2>2 DEF SummarizeOp, Extremal
      <3>4. /\ o = "sum" => Summary!Values(o, ts) = {<<"number", Summary!Total(ns)>>}
            /\ o = "mean" => Summary!Values(o, ts)
                               = {<<"mean", Summary!Total(ns), Len(ts)>>}
        BY <1>3 DEF Summary!Values
      <3> QED BY <1>1, <3>1, <3>2, <3>3, <3>4
    <2>4. o \in Extremal => r \in Summary!Values(o, ts)
      <3>1. o \in Extremal => r = <<"number", s.value>>
        BY <2>2 DEF SummarizeOp, Extremal
      <3>2. /\ o = "min" => s.value = Min(Range(ns))
            /\ o = "max" => s.value = Max(Range(ns))
            /\ o = "absmin" => s.value = Summary!Nearest(ns)
            /\ o = "absmax" => s.value = Summary!Farthest(ns)
        BY <2>1, <2>2, LeastIsMin DEF HoldsNumbers
      <3>3. /\ o = "min" => Summary!Values(o, ts) = {<<"number", Min(Range(ns))>>}
            /\ o = "max" => Summary!Values(o, ts) = {<<"number", Max(Range(ns))>>}
            /\ o = "absmin" => Summary!Values(o, ts) = {<<"number", Summary!Nearest(ns)>>}
            /\ o = "absmax" => Summary!Values(o, ts) = {<<"number", Summary!Farthest(ns)>>}
        BY <1>3, SharedSets DEF Summary!Values
      <3> QED BY <3>1, <3>2, <3>3 DEF Extremal
    <2>5. o = "range" => r \in Summary!Values(o, ts)
      <3>1. o = "range" => r = <<"number", s.values[2] - s.values[1]>>
        BY <2>2 DEF SummarizeOp, Extremal
      <3>2. o = "range" => IsLeast(s.values[1], ns) /\ IsGreatest(s.values[2], ns)
        BY <2>1 DEF HoldsNumbers
      <3>3. o = "range" => s.values[1] \in Int /\ s.values[2] \in Int
        <4>1. \A k \in DOMAIN ns : ns[k] \in Int
          BY <2>1
        <4> QED BY <3>2, <4>1 DEF IsLeast, IsGreatest
      <3>4. o = "range" => s.values[1] = Min(Range(ns)) /\ s.values[2] = Max(Range(ns))
        BY <2>1, <3>2, <3>3, LeastIsMin
      <3>5. o = "range" =>
              Summary!Values(o, ts) = {<<"number", Max(Range(ns)) - Min(Range(ns))>>}
        BY <1>3, SharedSets DEF Summary!Values
      <3> QED BY <3>1, <3>4, <3>5
    <2>6. o = "round" => r \in Summary!Values(o, ts)
      <3>1. o = "round" => r = <<"number", s.value>> /\ s.value = ns[Len(ns)]
        BY <2>1, <2>2 DEF SummarizeOp, HoldsNumbers
      <3>2. o = "round" => Summary!Values(o, ts) = {<<"number", ns[Len(ns)]>>}
        BY <1>3 DEF Summary!Values, Summary!Last
      <3> QED BY <3>1, <3>2
    <2>7. o \in {"median", "softmax"} => r \in Summary!Values(o, ts)
      <3>1. /\ o = "median" => r = <<"stat", s.values>>
            /\ o = "softmax" => r = <<"softmax", s.values, s.value>>
        BY <2>2, SMTT(30) DEF SummarizeOp, Extremal
      <3>2. o \in {"median", "softmax"} => s.values = ns
        BY <2>1 DEF HoldsNumbers, Stored
      <3>3. o = "softmax" => s.value = Max({0} \cup Range(ns))
        BY <2>1, <2>2, GreatestOrZero DEF HoldsNumbers
      <3>4. /\ o = "median" => Summary!Values(o, ts) = {<<"stat", ns>>}
            /\ o = "softmax" => Summary!Values(o, ts)
                                  = {<<"softmax", ns, Max({0} \cup Range(ns))>>}
        BY <1>3, SharedSets DEF Summary!Values
      <3> QED BY <3>1, <3>2, <3>3, <3>4
    <2> QED BY <1>3, <2>3, <2>4, <2>5, <2>6, <2>7 DEF Numeric, Stored
  <1>4. CASE ts # << >> /\ o \notin Numeric
    <2>1. s.count > 0
      BY <1>1, <1>4
    <2>2. o = "count" => r \in Summary!Values(o, ts)
      <3>1. o = "count" => r = <<"number", s.value>> /\ s.value = Len(ts)
        BY <1>1, <2>1 DEF SummarizeOp, Extremal, HoldsTexts
      <3>2. o = "count" => Summary!Values(o, ts) = {<<"number", Len(ts)>>}
        BY <1>4 DEF Summary!Values
      <3> QED BY <3>1, <3>2
    <2>3. o \in {"first", "last", "rand"} => r \in Summary!Values(o, ts)
      <3>1. o \in {"first", "last", "rand"} => r = <<"string", s.strs[1]>>
        BY <2>1 DEF SummarizeOp, Extremal
      <3>2. /\ o = "first" => s.strs[1] = ts[1]
            /\ o = "last" => s.strs[1] = ts[Len(ts)]
            /\ o = "rand" => s.strs[1] \in Range(ts)
        BY <1>1, <1>4 DEF HoldsTexts, Latest, Range
      <3>3. /\ o = "first" => Summary!Values(o, ts) = {<<"string", ts[1]>>}
            /\ o = "last" => Summary!Values(o, ts) = {<<"string", ts[Len(ts)]>>}
            /\ o = "rand" => Summary!Values(o, ts) = {<<"string", t>> : t \in Range(ts)}
        BY <1>1, <1>4, SharedSets DEF Summary!Values, Summary!Last
      <3> QED BY <3>1, <3>2, <3>3
    <2>4. o \in {"md5", "debase64"} => r \in Summary!Values(o, ts)
      <3>1. /\ o = "md5" => r = <<"md5", s.strs[1]>>
            /\ o = "debase64" => r = <<"decoded", s.strs[1]>>
        BY <2>1 DEF SummarizeOp, Extremal
      <3>2. o \in {"md5", "debase64"} => s.strs[1] = ts[Len(ts)]
        BY <1>1, <1>4 DEF HoldsTexts, Latest
      <3>3. /\ o = "md5" => Summary!Values(o, ts) = {<<"md5", ts[Len(ts)]>>}
            /\ o = "debase64" => Summary!Values(o, ts) = {<<"decoded", ts[Len(ts)]>>}
        BY <1>4 DEF Summary!Values, Summary!Last
      <3> QED BY <3>1, <3>2, <3>3
    <2>5. o \in Strings => r \in Summary!Values(o, ts)
      <3> DEFINE d == Distinct(dm.case_sensitive, ts)
      <3>1. o \in Strings => s.strs = ts
        BY <1>1 DEF HoldsTexts
      <3>a. o = "unique" => r = <<"set", Distinct(dm.case_sensitive, s.strs)>>
        BY <2>1 DEF SummarizeOp, Extremal
      <3>b. o = "countunique" =>
              r = <<"number", Cardinality(Distinct(dm.case_sensitive, s.strs))>>
        BY <2>1 DEF SummarizeOp, Extremal
      <3>c. o = "collapse" => r = <<"list", s.strs>>
        BY <2>1 DEF SummarizeOp, Extremal
      <3>2. /\ o = "unique" => r = <<"set", Distinct(dm.case_sensitive, s.strs)>>
            /\ o = "countunique" =>
                 r = <<"number", Cardinality(Distinct(dm.case_sensitive, s.strs))>>
            /\ o = "collapse" => r = <<"list", s.strs>>
        BY <3>a, <3>b, <3>c
      <3>3. Summary!Distinct(dm.case_sensitive, ts) = d
        BY SharedValues
      <3>4. /\ o = "unique" => Summary!Values(o, ts) = {<<"set", d>>}
            /\ o = "countunique" => Summary!Values(o, ts) = {<<"number", Cardinality(d)>>}
            /\ o = "collapse" => Summary!Values(o, ts) = {<<"list", ts>>}
        BY <1>4, <3>3, SharedSets DEF Summary!Values
      <3> QED BY <3>1, <3>2, <3>4 DEF Strings
    <2> QED BY <1>4, <2>2, <2>3, <2>4, <2>5 DEF OpName, Strings, Latest
  <1> QED BY <1>2, <1>3, <1>4

-----------------------------------------------------------------------------
(* The invariant of the refinement.  Lines that were collected are usable; *)
(* each accumulator holds the texts of its field in the open group; the    *)
(* groups closed are the first runs, and each has its row.                 *)

LinesCollected ==
  status \in {"reading", "done"} =>
    \A n \in HeaderLines + 1 .. pos : Failing(input[n]) = {}

HasKeys(l) == \A i \in DOMAIN dm.grps : Has(l, dm.grps[i])

KeysPrinted ==
  status \in {"reading", "done"} /\ ~dm.full =>
    \A n \in HeaderLines + 1 .. pos - lines_in_group : HasKeys(input[n])

HeaderKnown ==
  status \in {"reading", "done"} /\ dm.header_out /\ pos > 0 =>
    ~HeaderBad(Len(input[1]))

AccumulatorsHold ==
  status \in {"start", "reading"} =>
    \A i \in DOMAIN dm.ops :
      Holds(dm.ops[i].op, ops[i], Summary!Texts(dm.ops[i].field, CurrentGroup))

(* n is the end of the k-th run.                                           *)
IsEnd(n, k) == n \in Summary!Ends /\ Cardinality(UpTo(Summary!Ends, n)) = k

RunsClosed ==
  /\ pos - lines_in_group >= (IF status = "start" THEN 0 ELSE HeaderLines)
  /\ \A k \in DOMAIN closed : IsEnd(closed[k], k)
  /\ Cardinality(UpTo(Summary!Ends, pos - lines_in_group)) = Len(closed)

RowForEachGroup == Len(out) = IF dm.mode = "crosstab" THEN 0 ELSE Len(closed)

SummaryInv ==
  /\ LinesCollected
  /\ KeysPrinted
  /\ HeaderKnown
  /\ AccumulatorsHold
  /\ RunsClosed
  /\ RowForEachGroup

-----------------------------------------------------------------------------
(* Collecting a line.                                                      *)

LEMMA LineFacts ==
  ASSUME TypeInv, NEW n \in 1 .. Len(input), Failing(input[n]) = {},
         NEW i \in DOMAIN dm.ops
  PROVE  /\ dm.ops[i].op \in OpName
         /\ dm.ops[i].field \in DOMAIN input[n]
         /\ input[n][dm.ops[i].field] \in Text
         /\ Skipped(dm.narm, input[n][dm.ops[i].field])
              \/ ~Invalid(dm.ops[i].op, input[n][dm.ops[i].field])
  <1>1. dm.ops[i].op \in OpName
    BY JobFacts DEF TypeInv, TypeOK
  <1>2. i \notin Failing(input[n])
    BY Zenon
  <1>3. dm.ops[i].field \in DOMAIN input[n]
    BY <1>2 DEF Failing, Has
  <1>4. input[n][dm.ops[i].field] \in Text
    BY <1>3, InputFacts DEF TypeInv, TypeOK
  <1>5. Skipped(dm.narm, input[n][dm.ops[i].field])
          \/ ~Invalid(dm.ops[i].op, input[n][dm.ops[i].field])
    BY <1>2, <1>3 DEF Failing, Has
  <1> QED BY <1>1, <1>3, <1>4, <1>5

(* Collecting a line keeps each accumulator holding its texts.             *)
LEMMA CollectHoldsLine ==
  ASSUME TypeInv, pos < Len(input), Failing(NextLine) = {},
         NEW base \in [DOMAIN dm.ops -> OpState],
         \A i \in DOMAIN dm.ops : Ready(dm.ops[i].op, base[i]),
         NEW a \in Nat, a <= pos + 1,
         \A i \in DOMAIN dm.ops :
           Holds(dm.ops[i].op, base[i], Summary!Texts(dm.ops[i].field, a .. pos)),
         NEW picks
  PROVE  \A i \in DOMAIN dm.ops :
           Holds(dm.ops[i].op, CollectLine(NextLine, base, picks)[i],
                 Summary!Texts(dm.ops[i].field, a .. pos + 1))
PROOF
  <1>0. pos \in Nat /\ pos + 1 \in 1 .. Len(input)
    BY InputFacts DEF TypeInv, TypeOK
  <1> TAKE i \in DOMAIN dm.ops
  <1> DEFINE o  == dm.ops[i].op
             f  == dm.ops[i].field
             t  == input[pos + 1][f]
             ts == Summary!Texts(f, a .. pos)
             us == Summary!Texts(f, a .. pos + 1)
             c  == CollectLine(NextLine, base, picks)[i]
  <1>1. /\ o \in OpName /\ t \in Text
        /\ Skipped(dm.narm, t) \/ ~Invalid(o, t)
    BY <1>0, LineFacts DEF NextLine
  <1>2. c = IF Skipped(dm.narm, t) THEN base[i]
            ELSE CollectOp(o, base[i], t, i \in picks)
    BY DEF CollectLine, NextLine
  <1>3. Holds(o, base[i], ts) /\ ts \in Seq(Text) /\ base[i] \in OpState
        /\ Ready(o, base[i])
    BY DEF Holds
  <1>4. us = IF Skipped(dm.narm, t) THEN ts ELSE Append(ts, t)
    BY <1>0, <1>1, <1>3, MoreTexts
  <1> HIDE DEF o, f, t, ts, us, c
  <1>5. CASE Skipped(dm.narm, t)
    <2>1. Holds(o, c, us)
      BY <1>2, <1>3, <1>4, <1>5
    <2> QED BY <2>1 DEF o, f, c, us
  <1>6. CASE ~Skipped(dm.narm, t)
    <2>1. (i \in picks) \in BOOLEAN
      OBVIOUS
    <2>2. Holds(o, CollectOp(o, base[i], t, i \in picks), Append(ts, t))
      BY <1>1, <1>3, <1>6, <2>1, CollectHolds
    <2>3. Holds(o, c, us)
      BY <1>2, <1>4, <1>6, <2>2
    <2> QED BY <2>3 DEF o, f, c, us
  <1> QED BY <1>5, <1>6

-----------------------------------------------------------------------------
(* Runs.                                                                   *)

(* Lines with the same key belong to one run.                              *)
LEMMA SameKeyNoBoundary ==
  ASSUME TypeInv, NEW n, SameKey(n, n + 1), n # Len(input), ~LineMode
  PROVE  ~Summary!Boundary(n)
  <1>1. \A i \in DOMAIN dm.grps :
          /\ dm.grps[i] \in DOMAIN input[n] /\ dm.grps[i] \in DOMAIN input[n + 1]
          /\ Folded(dm.case_sensitive, input[n][dm.grps[i]])
               = Folded(dm.case_sensitive, input[n + 1][dm.grps[i]])
    BY DEF SameKey, SameAt, BothHave, Has, Key
  <1>2. Summary!KeyOf(n) = Summary!KeyOf(n + 1)
    BY <1>1, SharedValues DEF Summary!KeyOf
  <1> QED BY <1>2 DEF Summary!Boundary, LineMode

(* Different lines do not.                                                 *)
LEMMA DifferentIsBoundary ==
  ASSUME TypeInv, NEW n, Different(input[n + 1], input[n])
  PROVE  Summary!Boundary(n)
  <1> DEFINE i == Min(Unlike(input[n + 1], input[n]))
  <1>1. Unlike(input[n + 1], input[n]) \subseteq DOMAIN dm.grps
        /\ DOMAIN dm.grps \subseteq Nat
    BY JobFacts DEF Unlike, TypeInv, TypeOK
  <1>2. i \in Unlike(input[n + 1], input[n]) /\ BothHave(input[n + 1], input[n], i)
    BY <1>1, LeastPosition DEF Different
  <1> HIDE DEF i
  <1>3. /\ i \in DOMAIN dm.grps /\ dm.grps # << >>
        /\ dm.grps[i] \in DOMAIN input[n] /\ dm.grps[i] \in DOMAIN input[n + 1]
        /\ Folded(dm.case_sensitive, input[n + 1][dm.grps[i]])
             # Folded(dm.case_sensitive, input[n][dm.grps[i]])
    BY <1>2 DEF Unlike, SameAt, BothHave, Has, Key
  <1>4. Summary!KeyOf(n)[i] # Summary!KeyOf(n + 1)[i]
    BY <1>3, SharedValues DEF Summary!KeyOf
  <1> QED BY <1>3, <1>4 DEF Summary!Boundary

LEMMA EndsFacts ==
  ASSUME TypeInv
  PROVE  /\ Summary!Ends \in SUBSET Nat /\ IsFiniteSet(Summary!Ends)
         /\ \A n : n \in Summary!Ends
                     <=> n \in Summary!First .. Len(input) /\ Summary!Boundary(n)
         /\ Summary!First \in {1, 2}
         /\ input # << >> => Summary!First = HeaderLines + 1
  <1>1. Len(input) \in Nat
    BY InputFacts DEF TypeInv, TypeOK
  <1>2. Summary!First \in {1, 2} /\ (input # << >> => Summary!First = HeaderLines + 1)
    BY DEF Summary!First, HeaderLines
  <1>3. \A n : n \in Summary!Ends
                 <=> n \in Summary!First .. Len(input) /\ Summary!Boundary(n)
    BY DEF Summary!Ends
  <1>4. IsFiniteSet(Summary!First .. Len(input))
    BY <1>1, <1>2, FS_Interval
  <1>5. Summary!Ends \in SUBSET (Summary!First .. Len(input))
    BY <1>3
  <1>6. Summary!Ends \in SUBSET Nat
    BY <1>1, <1>2, <1>5
  <1> QED BY <1>2, <1>3, <1>4, <1>5, <1>6, FS_Subset

(* When the open group ends here it is the next run.                       *)
LEMMA OpenIsRun ==
  ASSUME TypeInv, GroupInv, SummaryInv, status = "reading", lines_in_group > 0,
         Summary!Boundary(pos)
  PROVE  /\ IsEnd(pos, Len(closed) + 1)
         /\ Summary!Run(Len(closed) + 1) = CurrentGroup
         /\ Len(closed) + 1 \in 1 .. Summary!Runs
         /\ CurrentGroup \subseteq Summary!First .. Len(input)
PROOF
  <1> DEFINE E == Summary!Ends
             b == pos - lines_in_group
             n == Len(closed)
             H == HeaderLines
  <1>0. /\ pos \in Nat /\ lines_in_group \in 1 .. pos /\ pos <= Len(input)
        /\ Len(input) \in Nat /\ closed \in Seq(1 .. pos) /\ n \in Nat
        /\ input # << >>
    BY InputFacts DEF TypeInv, TypeOK
  <1>1. /\ E \in SUBSET Nat /\ IsFiniteSet(E)
        /\ \A m : m \in E <=> m \in Summary!First .. Len(input) /\ Summary!Boundary(m)
        /\ Summary!First \in {1, 2} /\ Summary!First = H + 1
    BY <1>0, EndsFacts
  <1>2. b >= H /\ b \in Nat /\ H \in {0, 1}
    BY <1>0 DEF SummaryInv, RunsClosed, HeaderLines
  <1>3. pos \in E
    BY <1>0, <1>1, <1>2
  <1>4. ASSUME NEW m \in b + 1 .. pos - 1 PROVE m \notin E
    <2>1. m \in CurrentGroup /\ m + 1 \in CurrentGroup /\ m # m + 1 /\ m # Len(input)
      BY <1>0 DEF CurrentGroup
    <2>2. SameKey(m, m + 1)
      BY <2>1 DEF GroupInv, CurrentUniform
    <2>3. ~LineMode
      BY <1>0 DEF GroupInv, SingleLines
    <2> QED BY <1>1, <2>1, <2>2, <2>3, SameKeyNoBoundary
  <1> HIDE DEF E, n
  <1>5. UpTo(E, pos) = UpTo(E, b) \cup {pos} /\ pos \notin UpTo(E, b)
    <2>1. \A m \in E : m \in Nat /\ (m <= pos => m <= b \/ m = pos)
      BY <1>0, <1>1, <1>2, <1>4
    <2>2. b < pos
      BY <1>0
    <2>3. \A m \in E : m <= pos <=> (m <= b \/ m = pos)
      BY <1>0, <1>2, <2>1, <2>2
    <2>5. UpTo(E, pos) = UpTo(E, b) \cup {pos}
      <3> HIDE DEF b
      <3> QED BY <1>3, <2>3 DEF UpTo
    <2>4. pos \notin UpTo(E, b)
      BY <1>0, <1>2, <2>2 DEF UpTo
    <2> QED BY <2>4, <2>5
  <1>6. IsFiniteSet(UpTo(E, b)) /\ IsFiniteSet(UpTo(E, pos))
    BY <1>1, FS_Subset DEF UpTo
  <1>7. Cardinality(UpTo(E, b)) = n
    BY DEF SummaryInv, RunsClosed, E, n
  <1>8. Cardinality(UpTo(E, pos)) = n + 1
    BY <1>5, <1>6, <1>7, FS_AddElement
  <1>9. n + 1 <= Cardinality(E) /\ Cardinality(E) \in Nat
    <2>1. UpTo(E, pos) \in SUBSET E
      BY DEF UpTo
    <2>2. Cardinality(UpTo(E, pos)) <= Cardinality(E)
      BY <1>1, <2>1, FS_Subset
    <2> QED BY <1>1, <1>8, <2>2, FS_CardinalityType
  <1>10. n + 1 \in 1 .. Summary!Runs
    BY <1>0, <1>9, SharedSets DEF Summary!Runs, E
  <1>11. Summary!Nth(E, n + 1) = pos
    BY <1>1, <1>3, <1>8, NthIs
  <1>12. CASE n = 0
    <2>1. b = H
      <3>1. GroupStart(n + 1) = H + 1
        BY <1>12 DEF GroupStart
      <3>2. b = GroupStart(n + 1) - 1
        BY DEF GroupInv, GroupsTile, n
      <3> QED BY <1>2, <3>1, <3>2
    <2>2. Summary!Run(n + 1) = Summary!First .. pos
      BY <1>11, <1>12 DEF Summary!Run, E
    <2>3. Summary!Run(n + 1) = CurrentGroup
      BY <1>0, <1>1, <2>1, <2>2 DEF CurrentGroup
    <2> QED BY <1>0, <1>1, <1>2, <1>3, <1>8, <1>10, <2>3 DEF IsEnd, CurrentGroup, E, n
  <1>13. CASE n # 0
    <2>1. n \in DOMAIN closed /\ n + 1 # 1 /\ (n + 1) - 1 = n /\ closed[n] \in Nat
      BY <1>0, <1>13 DEF n
    <2>2. closed[n] = b
      <3>1. GroupStart(n + 1) = closed[n] + 1
        BY <2>1 DEF GroupStart
      <3>2. b = GroupStart(n + 1) - 1
        BY DEF GroupInv, GroupsTile, n
      <3> QED BY <1>2, <2>1, <3>1, <3>2
    <2>3. closed[n] \in E /\ Cardinality(UpTo(E, closed[n])) = n
      BY <2>1 DEF SummaryInv, RunsClosed, IsEnd, E
    <2>4. Summary!Nth(E, n) = b
      BY <1>1, <2>2, <2>3, NthIs
    <2>5. Summary!Run(n + 1) = b + 1 .. pos
      BY <1>11, <2>1, <2>4 DEF Summary!Run, E
    <2> QED BY <1>0, <1>1, <1>2, <1>3, <1>8, <1>10, <2>5 DEF IsEnd, CurrentGroup, E, n
  <1> QED BY <1>12, <1>13

-----------------------------------------------------------------------------
(* The row of a group.                                                     *)

(* Listed has each number at its place.                                    *)
LEMMA ListedAt ==
  ASSUME NEW S \in SUBSET Nat, IsFiniteSet(S), NEW n \in S
  PROVE  /\ Cardinality(UpTo(S, n)) \in 1 .. Cardinality(S)
         /\ Listed(S)[Cardinality(UpTo(S, n))] = n
PROOF
  <1> DEFINE s == Listed(S)
             c == Cardinality(S)
  <1>1. /\ s \in [1 .. c -> S] /\ c \in Nat
        /\ \A i, k \in 1 .. c : i # k => s[i] # s[k]
        /\ \A i, k \in 1 .. c : i < k => s[i] < s[k]
    BY ListedIs DEF Ascending, SetToSeqs
  <1> HIDE DEF s, c
  <1>2. s \in Injection(1 .. c, S)
    BY <1>1 DEF Injection, IsInjective
  <1>3. IsFiniteSet(1 .. c) /\ Cardinality(1 .. c) = c
    <2>1. Cardinality(1 .. c) = IF 1 > c THEN 0 ELSE c - 1 + 1
      BY <1>1, FS_Interval
    <2> QED BY <1>1, <2>1, FS_Interval
  <1>4. s \in Surjection(1 .. c, S)
    BY <1>2, <1>3, FS_Injection DEF c
  <1>5. PICK j \in 1 .. c : s[j] = n
    BY <1>4 DEF Surjection
  <1> DEFINE r == [i \in 1 .. j |-> s[i]]
             T == UpTo(S, n)
  <1>6. r \in Bijection(1 .. j, T)
    <2>1. \A i \in 1 .. j : i \in 1 .. c /\ s[i] \in S
      BY <1>1, <1>5
    <2>2. \A i \in 1 .. j : s[i] <= n
      <3> TAKE i \in 1 .. j
      <3>1. i = j \/ i < j
        BY <1>5
      <3>2. n \in Nat /\ s[i] \in Nat
        BY <2>1
      <3> QED BY <1>1, <1>5, <2>1, <3>1, <3>2
    <2>3. r \in [1 .. j -> T]
      BY <2>1, <2>2 DEF UpTo
    <2>4. \A i, k \in 1 .. j : i # k => r[i] # r[k]
      BY <1>1, <2>1
    <2>5. ASSUME NEW m \in T PROVE \E i \in 1 .. j : r[i] = m
      <3>1. m \in S /\ m <= n /\ m \in Nat /\ n \in Nat
        BY DEF UpTo
      <3>2. PICK i \in 1 .. c : s[i] = m
        BY <1>4, <3>1 DEF Surjection
      <3>3. ~(j < i)
        BY <1>1, <1>5, <3>1, <3>2
      <3>4. i \in 1 .. j
        BY <1>1, <1>5, <3>2, <3>3
      <3> QED BY <3>2, <3>4
    <2> HIDE DEF r, T
    <2> QED BY <2>3, <2>4, <2>5 DEF Bijection, Injection, IsInjective, Surjection
  <1>7. Cardinality(T) = j
    <2>1. IsFiniteSet(1 .. j) /\ Cardinality(1 .. j) = j
      <3>1. j \in Nat /\ j >= 1
        BY <1>1, <1>5
      <3>2. Cardinality(1 .. j) = IF 1 > j THEN 0 ELSE j - 1 + 1
        BY <3>1, FS_Interval
      <3> QED BY <3>1, <3>2, FS_Interval
    <2>2. ExistsBijection(1 .. j, T)
      BY <1>6 DEF ExistsBijection
    <2> HIDE DEF T
    <2> QED BY <2>1, <2>2, FS_Bijection
  <1> QED BY <1>5, <1>7 DEF s, c

(* A pair's second operation is of the same kind.                          *)
LEMMA PairFacts ==
  ASSUME dm \in Jobs, NEW i \in DOMAIN dm.ops, dm.ops[i].op = "pcov",
         ~dm.ops[i].subordinate
  PROVE  /\ dm.ops[i].sub \in DOMAIN dm.ops /\ dm.ops[i].sub # 0
         /\ dm.ops[dm.ops[i].sub].op = "pcov"
  <1>1. ValidJob(dm) /\ dm.ops \in Seq(OpSpec)
    BY GroupByAssumption, JobFacts
  <1>2. /\ dm.ops[i].sub # 0 /\ dm.ops[i].sub \in 0 .. i - 1
        /\ dm.ops[dm.ops[i].sub].op = "pcov"
    BY <1>1 DEF ValidJob
  <1>3. i \in 1 .. Len(dm.ops) /\ Len(dm.ops) \in Nat
    BY <1>1
  <1>4. dm.ops[i].sub \in 1 .. Len(dm.ops)
    BY <1>2, <1>3
  <1> QED BY <1>1, <1>2, <1>4

(* What the accumulators of a pair hold.                                   *)
LEMMA PairHolds ==
  ASSUME TypeInv, SummaryInv, status = "reading", NEW i \in DOMAIN dm.ops,
         dm.ops[i].op = "pcov", ~dm.ops[i].subordinate
  PROVE  LET a == Summary!Texts(dm.ops[i].field, CurrentGroup)
             b == Summary!Texts(dm.ops[dm.ops[i].sub].field, CurrentGroup)
         IN  /\ ops[i].values = Summary!Numbers(a)
             /\ SubValues(i) = Summary!Numbers(b)
             /\ Len(ops[i].values) = Len(a) /\ Len(SubValues(i)) = Len(b)
             /\ ops[i].count = Len(a) /\ a \in Seq(Text)
PROOF
  <1> DEFINE k == dm.ops[i].sub
             a == Summary!Texts(dm.ops[i].field, CurrentGroup)
             b == Summary!Texts(dm.ops[k].field, CurrentGroup)
  <1>1. k \in DOMAIN dm.ops /\ k # 0 /\ dm.ops[k].op = "pcov"
    BY PairFacts DEF TypeInv, TypeOK
  <1>2. Holds("pcov", ops[i], a) /\ Holds("pcov", ops[k], b)
    BY <1>1 DEF SummaryInv, AccumulatorsHold
  <1>3. SubValues(i) = ops[k].values
    BY <1>1 DEF SubValues
  <1> HIDE DEF a, b, k
  <1>4. "pcov" \in Numeric /\ "pcov" \in Stored
    BY DEF Numeric, Stored
  <1>5. \A s, ts : Holds("pcov", s, ts) =>
          /\ ts \in Seq(DOMAIN Number) /\ s.values = Summary!Numbers(ts)
          /\ s.count = Len(ts) /\ ts \in Seq(Text)
    BY <1>4 DEF Holds, HoldsNumbers
  <1>6. \A ts \in Seq(DOMAIN Number) : Len(Summary!Numbers(ts)) = Len(ts)
    BY NumbersOf
  <1> QED BY <1>2, <1>3, <1>5, <1>6 DEF a, b, k

LEMMA OpResultIsValue ==
  ASSUME TypeInv, SummaryInv, status = "reading", NEW i \in PrimarySet
  PROVE  OpResult(i) \in Summary!OpValues(i, CurrentGroup)
PROOF
  <1> DEFINE o  == dm.ops[i].op
             ts == Summary!Texts(dm.ops[i].field, CurrentGroup)
  <1>1. i \in DOMAIN dm.ops /\ ~dm.ops[i].subordinate /\ o \in OpName
        /\ ops[i] \in OpState
    BY JobFacts DEF PrimarySet, TypeInv, TypeOK
  <1>2. Holds(o, ops[i], ts)
    BY <1>1 DEF SummaryInv, AccumulatorsHold
  <1>3. CASE o = "pcov" /\ ts # << >>
    <2> DEFINE b == Summary!Texts(dm.ops[dm.ops[i].sub].field, CurrentGroup)
    <2>1. /\ ops[i].values = Summary!Numbers(ts)
          /\ SubValues(i) = Summary!Numbers(b)
          /\ ops[i].count = Len(ts) /\ ts \in Seq(Text)
      BY <1>1, <1>3, PairHolds
    <2>2. Summary!OpValues(i, CurrentGroup)
            = {<<"pairs", Summary!Numbers(ts), Summary!Numbers(b)>>}
      BY <1>3 DEF Summary!OpValues, Summary!PairValues
    <2>3. ops[i].count > 0
      <3> HIDE DEF ts
      <3> QED BY <1>3, <2>1
    <2>4. OpResult(i) = <<"pairs", ops[i].values, SubValues(i)>>
      BY <1>3, <2>3 DEF OpResult, SummarizeOp, Extremal
    <2> QED BY <2>1, <2>2, <2>4
  <1>4. CASE ~(o = "pcov" /\ ts # << >>)
    <2>1. Summary!OpValues(i, CurrentGroup) = Summary!Values(o, ts)
      BY <1>4 DEF Summary!OpValues
    <2>2. OpResult(i) = SummarizeOp(o, ops[i], SubValues(i), dm.case_sensitive)
      BY DEF OpResult
    <2> HIDE DEF o, ts
    <2> QED BY <1>1, <1>2, <1>4, <2>1, <2>2, SummarizeHolds
  <1> QED BY <1>3, <1>4

(* The row printed for the open group is a result of its run.              *)
LEMMA RowIsResult ==
  ASSUME TypeInv, GroupInv, SummaryInv, status = "reading", lines_in_group > 0
  PROVE  Summary!IsResultOf(PrintedGroup(input[kept]), CurrentGroup)
PROOF
  <1> DEFINE g == PrintedGroup(input[kept])
             P == PrimarySet
  <1>1. kept \in CurrentGroup
    BY DEF GroupInv, KeptInGroup, TypeInv, TypeOK
  <1>2. /\ g.fields = PrintedFields(input[kept])
        /\ g.results = [k \in DOMAIN Primaries |-> OpResult(Primaries[k])]
    BY DEF PrintedGroup
  <1>3. g.fields = IF dm.full THEN input[kept]
                   ELSE [i \in DOMAIN dm.grps |-> input[kept][dm.grps[i]]]
    BY <1>2 DEF PrintedFields
  <1>4. P = Summary!Printed /\ Primaries = Listed(P)
    BY DEF PrimarySet, Primaries, Summary!Printed
  <1>5. P \in SUBSET Nat /\ IsFiniteSet(P)
    <2>1. dm.ops \in Seq(OpSpec)
      BY JobFacts DEF TypeInv, TypeOK
    <2>2. P \in SUBSET (1 .. Len(dm.ops)) /\ Len(dm.ops) \in Nat
      BY <2>1 DEF PrimarySet
    <2>3. P \in SUBSET Nat
      BY <2>2
    <2>4. IsFiniteSet(1 .. Len(dm.ops))
      BY <2>2, FS_Interval
    <2> HIDE DEF P
    <2> QED BY <2>2, <2>3, <2>4, FS_Subset
  <1>6. /\ Primaries \in Seq(P) /\ Len(Primaries) = Cardinality(P)
        /\ Cardinality(P) \in Nat
    BY <1>4, <1>5, ListedIs
  <1>7. DOMAIN g.results = 1 .. Cardinality(P) /\ Len(g.results) = Cardinality(P)
    <2>1. DOMAIN Primaries = 1 .. Cardinality(P)
      BY <1>6
    <2>2. DOMAIN g.results = 1 .. Cardinality(P)
      BY <1>2, <2>1
    <2>3. g.results \in Seq(Range(g.results))
      <3> DEFINE r == g.results
      <3>1. r = [k \in 1 .. Cardinality(P) |-> OpResult(Primaries[k])]
        BY <1>2, <2>1
      <3>2. r \in [1 .. Cardinality(P) -> Range(r)]
        BY <3>1 DEF Range
      <3> HIDE DEF r
      <3>3. r \in Seq(Range(r))
        BY <1>6, <3>2
      <3> QED BY <3>3 DEF r
    <2> QED BY <1>6, <2>2, <2>3
  <1>8. ASSUME NEW i \in P
        PROVE  g.results[Cardinality(UpTo(P, i))] \in Summary!OpValues(i, CurrentGroup)
    <2>1. /\ Cardinality(UpTo(P, i)) \in 1 .. Cardinality(P)
          /\ Primaries[Cardinality(UpTo(P, i))] = i
      BY <1>4, <1>5, ListedAt
    <2>2. g.results[Cardinality(UpTo(P, i))] = OpResult(i)
      <3>1. DOMAIN Primaries = 1 .. Cardinality(P)
        BY <1>6
      <3> QED BY <1>2, <2>1, <3>1
    <2> QED BY <2>2, OpResultIsValue
  <1> HIDE DEF g, P
  <1>9. \A i \in P : {k \in P : k <= i} = UpTo(P, i)
    BY DEF UpTo
  <1>10. \E n \in CurrentGroup :
           g.fields = IF dm.full THEN input[n]
                      ELSE [i \in DOMAIN dm.grps |-> input[n][dm.grps[i]]]
    BY <1>1, <1>3
  <1>11. Len(g.results) = Summary!Cardinality(Summary!Printed)
    BY <1>4, <1>7, SharedSets
  <1>12. \A i \in Summary!Printed :
           g.results[Summary!Cardinality({k \in Summary!Printed : k <= i})]
             \in Summary!OpValues(i, CurrentGroup)
    BY <1>4, <1>8, <1>9, SharedSets
  <1>13. Summary!IsResultOf(g, CurrentGroup)
    BY <1>10, <1>11, <1>12 DEF Summary!IsResultOf
  <1> QED BY <1>13 DEF g

-----------------------------------------------------------------------------
(* The invariant is inductive.                                             *)

(* What depends on the job and the input alone.                            *)
LEMMA SameSummary ==
  ASSUME UNCHANGED <<dm, input>>
  PROVE  /\ Summary!Ends' = Summary!Ends /\ HeaderLines' = HeaderLines
         /\ \A n, k : IsEnd(n, k)' <=> IsEnd(n, k)
         /\ \A f, run : Summary!Texts(f, run)' = Summary!Texts(f, run)
         /\ \A l : Failing(l)' = Failing(l)
         /\ \A l : HasKeys(l)' <=> HasKeys(l)
         /\ \A n : HeaderBad(n)' <=> HeaderBad(n)
  <1>1. Summary!Ends' = Summary!Ends
    BY DEF Summary!Ends, Summary!First, Summary!Boundary, Summary!KeyOf,
           Summary!Folded
  <1>2. \A n, k : IsEnd(n, k)' <=> IsEnd(n, k)
    BY <1>1 DEF IsEnd
  <1>3. \A f, run : Summary!Texts(f, run)' = Summary!Texts(f, run)
    BY DEF Summary!Texts, Summary!Skipped
  <1>4. \A l : Failing(l)' = Failing(l)
    BY DEF Failing, Has, Skipped, Invalid
  <1>5. \A l : HasKeys(l)' <=> HasKeys(l)
    BY DEF HasKeys, Has
  <1>6. \A n : HeaderBad(n)' <=> HeaderBad(n)
    BY DEF HeaderBad, KeyUnlabelled, BadLabels, LabelStarts, LabelFields
  <1>7. HeaderLines' = HeaderLines
    BY DEF HeaderLines
  <1> QED BY <1>1, <1>2, <1>3, <1>4, <1>5, <1>6, <1>7

(* Before the first line there is no end of a run.                         *)
LEMMA NoEndYet ==
  ASSUME TypeInv, NEW n \in 0 .. HeaderLines
  PROVE  Cardinality(UpTo(Summary!Ends, n)) = 0
  <1>1. Len(input) \in Nat /\ (input = << >> => Len(input) = 0)
    BY InputFacts DEF TypeInv, TypeOK
  <1>2. HeaderLines \in {0, 1}
    BY DEF HeaderLines
  <1>3. \A m \in Summary!Ends : ~(m <= n)
    BY <1>1, <1>2, EndsFacts
  <1>4. UpTo(Summary!Ends, n) = {}
    BY <1>3 DEF UpTo
  <1> QED BY <1>4, FS_EmptySet

LEMMA InitSummaryInv == Init => SummaryInv
  <1> SUFFICES ASSUME Init PROVE SummaryInv
    OBVIOUS
  <1>1. TypeInv
    BY InitTypeInv
  <1>2. /\ status = "start" /\ pos = 0 /\ lines_in_group = 0
        /\ closed = << >> /\ out = << >> /\ dm \in Jobs
    BY DEF Init
  <1>3. HeaderLines \in {0, 1}
    BY DEF HeaderLines
  <1>4. Cardinality(UpTo(Summary!Ends, 0)) = 0
    BY <1>1, <1>3, NoEndYet
  <1>5. RunsClosed
    BY <1>2, <1>4 DEF RunsClosed
  <1>6. RowForEachGroup
    BY <1>2 DEF RowForEachGroup
  <1>7. AccumulatorsHold
    <2>1. CurrentGroup = 1 .. 0 /\ ops = [i \in DOMAIN dm.ops |-> ResetOp]
      BY <1>2 DEF CurrentGroup, Init
    <2>2. \A f : Summary!Texts(f, 1 .. 0) = << >>
      BY NoTexts
    <2>3. \A i \in DOMAIN dm.ops : Holds(dm.ops[i].op, ResetOp, << >>)
      BY <1>2, JobFacts, ResetHolds
    <2> QED BY <2>1, <2>2, <2>3 DEF AccumulatorsHold
  <1> QED BY <1>2, <1>5, <1>6, <1>7 DEF SummaryInv, LinesCollected, KeysPrinted,
                                        HeaderKnown

(* process_group, at the end of a run, adds the run and its row.           *)
LEMMA EmitSummary ==
  ASSUME TypeInv, GroupInv, PrintInv, SummaryInv, status = "reading",
         EmitGroup, GroupError = "ok",
         lines_in_group > 0 => Summary!Boundary(pos)
  PROVE  /\ \A k \in DOMAIN closed' : IsEnd(closed'[k], k)
         /\ Cardinality(UpTo(Summary!Ends, pos)) = Len(closed')
         /\ Len(out') = IF dm.mode = "crosstab" THEN 0 ELSE Len(closed')
         /\ ~dm.full => \A n \in HeaderLines + 1 .. pos : HasKeys(input[n])
PROOF
  <1>0. /\ pos \in Nat /\ lines_in_group \in 0 .. pos
        /\ closed \in Seq(1 .. pos) /\ Len(closed) \in Nat
        /\ out \in Seq(Range(out)) /\ HeaderLines \in {0, 1}
    BY DEF TypeInv, TypeOK, PrintInv, RowsRight, HeaderLines
  <1>r. /\ \A k \in DOMAIN closed : IsEnd(closed[k], k)
        /\ Cardinality(UpTo(Summary!Ends, pos - lines_in_group)) = Len(closed)
        /\ Len(out) = IF dm.mode = "crosstab" THEN 0 ELSE Len(closed)
    BY DEF SummaryInv, RunsClosed, RowForEachGroup
  <1>k. ~dm.full => \A n \in HeaderLines + 1 .. pos - lines_in_group : HasKeys(input[n])
    BY DEF SummaryInv, KeysPrinted
  <1>1. CASE lines_in_group = 0
    <2>1. closed' = closed /\ out' = out /\ pos - lines_in_group = pos
      BY <1>0, <1>1 DEF EmitGroup
    <2> QED BY <1>r, <1>k, <2>1
  <1>2. CASE lines_in_group > 0
    <2> DEFINE r == PrintedGroup(input[kept])
               n == Len(closed)
    <2>1. /\ closed' = Append(closed, pos)
          /\ out' = IF dm.mode # "crosstab" THEN Append(out, r) ELSE out
      BY <1>2 DEF EmitGroup
    <2>2. IsEnd(pos, n + 1)
      BY <1>2, OpenIsRun
    <2>3. \A k \in DOMAIN closed' : IsEnd(closed'[k], k)
      <3>1. /\ DOMAIN closed' = 1 .. n + 1 /\ closed'[n + 1] = pos
            /\ DOMAIN closed = 1 .. n /\ \A k \in 1 .. n : closed'[k] = closed[k]
        BY <1>0, <1>2, <2>1
      <3>2. \A k \in 1 .. n + 1 : k = n + 1 \/ k \in 1 .. n
        BY <1>0
      <3> QED BY <1>r, <2>2, <3>1, <3>2
    <2>4. Len(closed') = n + 1
      BY <1>0, <1>2, <2>1
    <2>5. Cardinality(UpTo(Summary!Ends, pos)) = Len(closed')
      BY <2>2, <2>4 DEF IsEnd
    <2>6. Len(out') = IF dm.mode = "crosstab" THEN 0 ELSE Len(closed')
      <3> HIDE DEF r
      <3>1. Len(Append(out, r)) = Len(out) + 1
        BY <1>0
      <3> QED BY <1>r, <2>1, <2>4, <3>1
    <2>7. ~dm.full => HasKeys(input[kept])
      BY <1>2 DEF GroupError, HasKeys
    <2>8. kept \in CurrentGroup
      BY <1>0, <1>2 DEF GroupInv, KeptInGroup
    <2>9. ASSUME ~dm.full, NEW m \in CurrentGroup PROVE HasKeys(input[m])
      <3>1. CASE m = kept
        BY <2>7, <2>9, <3>1
      <3>2. CASE m # kept
        <4>1. SameKey(m, kept)
          BY <2>8, <3>2 DEF GroupInv, CurrentUniform
        <4> QED BY <4>1 DEF SameKey, SameAt, BothHave, HasKeys
      <3> QED BY <3>1, <3>2
    <2>10. \A m \in HeaderLines + 1 .. pos :
             m \in HeaderLines + 1 .. pos - lines_in_group \/ m \in CurrentGroup
      BY <1>0 DEF CurrentGroup
    <2> QED BY <1>k, <2>3, <2>5, <2>6, <2>9, <2>10
  <1> QED BY <1>0, <1>1, <1>2

(* A line that starts a group comes after the end of a run.                *)
LEMMA ClosingIsBoundary ==
  ASSUME TypeInv, GroupInv, status = "reading", pos < Len(input),
         lines_in_group > 0, ClosesGroup(NextLine)
  PROVE  Summary!Boundary(pos)
  <1>1. CASE LineMode
    BY <1>1 DEF LineMode, Summary!Boundary
  <1>2. CASE ~LineMode
    <2>1. Different(input[pos + 1], input[pos])
      BY <1>2, NewGroupDiffers DEF ClosesGroup
    <2> QED BY <2>1, DifferentIsBoundary
  <1> QED BY <1>1, <1>2

LEMMA StartSummaryInv ==
  ASSUME TypeInv, SummaryInv, Start
  PROVE  SummaryInv'
PROOF
  <1>1. /\ dm' = dm /\ input' = input /\ lines_in_group' = 0
        /\ pos' = HeaderLines /\ pos = 0 /\ closed' = << >> /\ closed = << >>
        /\ out' = out /\ ops' = ops /\ HeaderLines \in {0, 1}
        /\ status = "start"
    BY DEF Start, TypeInv, Fresh, HeaderLines
  <1>2. /\ Summary!Ends' = Summary!Ends /\ HeaderLines' = HeaderLines
        /\ \A n, k : IsEnd(n, k)' <=> IsEnd(n, k)
        /\ \A f, run : Summary!Texts(f, run)' = Summary!Texts(f, run)
        /\ \A l : HasKeys(l)' <=> HasKeys(l)
        /\ \A n : HeaderBad(n)' <=> HeaderBad(n)
    BY <1>1, SameSummary
  <1>3. status' # "start" /\ status' # "done"
    BY DEF Start, HeaderError
  <1>4. LinesCollected' /\ KeysPrinted'
    BY <1>1, <1>2 DEF LinesCollected, KeysPrinted
  <1>5. HeaderKnown'
    <2>1. status' = "reading" /\ dm.header_out /\ pos' > 0 => ~HeaderBad(Len(input[1]))
      BY <1>1 DEF Start, HeaderError
    <2> QED BY <1>1, <1>2, <1>3, <2>1 DEF HeaderKnown
  <1>6. AccumulatorsHold'
    <2>1. CurrentGroup = 1 .. 0 /\ CurrentGroup' = HeaderLines + 1 .. HeaderLines
      BY <1>1 DEF CurrentGroup, TypeInv, Fresh
    <2>2. \A f : /\ Summary!Texts(f, CurrentGroup) = << >>
                 /\ Summary!Texts(f, CurrentGroup)' = << >>
      <3>1. \A f : /\ Summary!Texts(f, 1 .. 0) = << >>
                   /\ Summary!Texts(f, HeaderLines + 1 .. HeaderLines) = << >>
        BY <1>1, NoTexts
      <3>2. \A f : Summary!Texts(f, CurrentGroup)' = Summary!Texts(f, CurrentGroup')
        BY <1>1 DEF Summary!Texts, Summary!Skipped
      <3> QED BY <2>1, <3>1, <3>2
    <2>3. \A i \in DOMAIN dm.ops : Holds(dm.ops[i].op, ops[i], << >>)
      BY <1>1, <2>2 DEF SummaryInv, AccumulatorsHold
    <2>4. \A i \in DOMAIN dm.ops : Holds(dm.ops[i].op, ops[i], << >>)'
      BY <1>1, <2>3 DEF Holds, HoldsTexts, HoldsNumbers, Summary!Numbers, Summary!Total
    <2> QED BY <1>1, <2>2, <2>4 DEF AccumulatorsHold
  <1>7. RunsClosed'
    <2>1. Cardinality(UpTo(Summary!Ends, HeaderLines)) = 0
      BY <1>1, NoEndYet
    <2> QED BY <1>1, <1>2, <1>3, <2>1 DEF RunsClosed
  <1>8. RowForEachGroup'
    BY <1>1 DEF RowForEachGroup, SummaryInv
  <1> QED BY <1>4, <1>5, <1>6, <1>7, <1>8 DEF SummaryInv

(* A step that dies before it changes anything.                            *)
LEMMA DieSummaryInv ==
  ASSUME TypeInv, SummaryInv, Die
  PROVE  SummaryInv'
PROOF
  <1>1. /\ dm' = dm /\ input' = input /\ lines_in_group' = lines_in_group
        /\ pos' = pos /\ closed' = closed /\ out' = out /\ status = "reading"
    BY DEF Die, Reading
  <1>2. status' \notin {"start", "reading", "done"}
    BY DEF Die, HeaderError, GroupFails, GroupError
  <1>3. /\ Summary!Ends' = Summary!Ends /\ HeaderLines' = HeaderLines
        /\ \A n, k : IsEnd(n, k)' <=> IsEnd(n, k)
    BY <1>1, SameSummary
  <1>4. RunsClosed'
    BY <1>1, <1>2, <1>3 DEF SummaryInv, RunsClosed
  <1>5. RowForEachGroup'
    BY <1>1 DEF RowForEachGroup, SummaryInv
  <1> QED BY <1>2, <1>4, <1>5 DEF SummaryInv, LinesCollected, KeysPrinted,
                                  HeaderKnown, AccumulatorsHold

LEMMA FinishSummaryInv ==
  ASSUME TypeInv, GroupInv, PrintInv, SummaryInv, Finish
  PROVE  SummaryInv'
PROOF
  <1>1. /\ dm' = dm /\ input' = input /\ pos' = pos /\ pos = Len(input)
        /\ status = "reading" /\ pos \in Nat /\ lines_in_group \in 0 .. pos
        /\ HeaderLines \in {0, 1}
    BY DEF Finish, TypeInv, TypeOK, HeaderLines
  <1>2. /\ Summary!Ends' = Summary!Ends /\ HeaderLines' = HeaderLines
        /\ \A n, k : IsEnd(n, k)' <=> IsEnd(n, k)
        /\ \A l : Failing(l)' = Failing(l)
        /\ \A l : HasKeys(l)' <=> HasKeys(l)
        /\ \A n : HeaderBad(n)' <=> HeaderBad(n)
    BY <1>1, SameSummary
  <1>3. CASE GroupError = "ok"
    <2>1. EmitGroup /\ lines_in_group' = 0 /\ status' = "done"
      BY <1>3 DEF Finish
    <2>2. Summary!Boundary(pos)
      BY <1>1 DEF Summary!Boundary
    <2>3. /\ \A k \in DOMAIN closed' : IsEnd(closed'[k], k)
          /\ Cardinality(UpTo(Summary!Ends, pos)) = Len(closed')
          /\ Len(out') = IF dm.mode = "crosstab" THEN 0 ELSE Len(closed')
          /\ ~dm.full => \A n \in HeaderLines + 1 .. pos : HasKeys(input[n])
      BY <1>1, <1>3, <2>1, <2>2, EmitSummary
    <2>4. pos - lines_in_group >= HeaderLines
      BY <1>1 DEF SummaryInv, RunsClosed
    <2>5. RunsClosed'
      <3>1. (pos - lines_in_group)' = pos /\ pos >= HeaderLines
        BY <1>1, <2>1, <2>4
      <3> QED BY <1>2, <2>1, <2>3, <3>1 DEF RunsClosed
    <2>6. RowForEachGroup'
      BY <1>1, <2>3 DEF RowForEachGroup
    <2>7. LinesCollected'
      BY <1>1, <1>2 DEF SummaryInv, LinesCollected
    <2>8. KeysPrinted'
      <3>1. (pos - lines_in_group)' = pos
        BY <1>1, <2>1
      <3> QED BY <1>1, <1>2, <2>3, <3>1 DEF KeysPrinted
    <2>9. HeaderKnown'
      BY <1>1, <1>2 DEF SummaryInv, HeaderKnown
    <2> QED BY <2>1, <2>5, <2>6, <2>7, <2>8, <2>9 DEF SummaryInv, AccumulatorsHold
  <1>4. CASE GroupError # "ok"
    <2>1. closed' = closed /\ out' = out /\ lines_in_group' = lines_in_group
          /\ status' \notin {"start", "reading", "done"}
      BY <1>4 DEF Finish, GroupError
    <2>2. RunsClosed'
      BY <1>1, <1>2, <2>1 DEF SummaryInv, RunsClosed
    <2>3. RowForEachGroup'
      BY <1>1, <2>1 DEF RowForEachGroup, SummaryInv
    <2> QED BY <2>1, <2>2, <2>3 DEF SummaryInv, LinesCollected, KeysPrinted,
                                    HeaderKnown, AccumulatorsHold
  <1> QED BY <1>3, <1>4

(* The accumulators a line is collected into.                              *)
Base == IF ClosesGroup(NextLine) THEN [i \in DOMAIN dm.ops |-> ResetOp] ELSE ops

(* The first line of the group that the next line belongs to.              *)
GroupOfNext == IF ClosesGroup(NextLine) THEN pos + 1 ELSE pos - lines_in_group + 1

LEMMA BaseHolds ==
  ASSUME TypeInv, SummaryInv, status = "reading"
  PROVE  /\ Base \in [DOMAIN dm.ops -> OpState]
         /\ \A i \in DOMAIN dm.ops :
              /\ Ready(dm.ops[i].op, Base[i])
              /\ Holds(dm.ops[i].op, Base[i],
                       Summary!Texts(dm.ops[i].field, GroupOfNext .. pos))
         /\ GroupOfNext \in Nat /\ GroupOfNext <= pos + 1
PROOF
  <1>0. pos \in Nat /\ lines_in_group \in 0 .. pos /\ dm \in Jobs
    BY DEF TypeInv, TypeOK
  <1>1. CASE ClosesGroup(NextLine)
    <2>1. Base = [i \in DOMAIN dm.ops |-> ResetOp] /\ GroupOfNext = pos + 1
      BY <1>1 DEF Base, GroupOfNext
    <2>2. \A f : Summary!Texts(f, pos + 1 .. pos) = << >>
      BY <1>0, NoTexts
    <2>3. \A i \in DOMAIN dm.ops : /\ Holds(dm.ops[i].op, ResetOp, << >>)
                                   /\ Ready(dm.ops[i].op, ResetOp)
                                   /\ ResetOp \in OpState
      BY <1>0, JobFacts, ResetHolds, ResetReady
    <2> QED BY <1>0, <2>1, <2>2, <2>3
  <1>2. CASE ~ClosesGroup(NextLine)
    <2>1. Base = ops /\ GroupOfNext = pos - lines_in_group + 1
      BY <1>2 DEF Base, GroupOfNext
    <2>2. GroupOfNext .. pos = CurrentGroup
      BY <2>1 DEF CurrentGroup
    <2> QED BY <1>0, <2>1, <2>2 DEF SummaryInv, AccumulatorsHold, TypeInv, TypeOK,
                                    AccumulatorsReady
  <1> QED BY <1>1, <1>2

LEMMA ReadSummaryInv ==
  ASSUME TypeInv, GroupInv, PrintInv, SummaryInv, ReadLine
  PROVE  SummaryInv'
PROOF
  <1> DEFINE l == NextLine
             closes == ClosesGroup(NextLine)
  <1>1. /\ dm' = dm /\ input' = input /\ pos' = pos + 1 /\ pos < Len(input)
        /\ status = "reading" /\ pos \in Nat /\ lines_in_group \in 0 .. pos
        /\ HeaderLines \in {0, 1} /\ l = input[pos + 1]
        /\ lines_in_group' = (IF closes THEN 0 ELSE lines_in_group) + 1
        /\ pos - lines_in_group >= HeaderLines
    BY DEF ReadLine, Reading, TypeInv, TypeOK, HeaderLines, NextLine, SummaryInv,
           RunsClosed
  <1>2. /\ Summary!Ends' = Summary!Ends /\ HeaderLines' = HeaderLines
        /\ \A n, k : IsEnd(n, k)' <=> IsEnd(n, k)
        /\ \A f, run : Summary!Texts(f, run)' = Summary!Texts(f, run)
        /\ \A m : Failing(m)' = Failing(m)
        /\ \A m : HasKeys(m)' <=> HasKeys(m)
        /\ \A n : HeaderBad(n)' <=> HeaderBad(n)
    BY <1>1, SameSummary
  <1>3. /\ status' # "start" /\ status' # "done"
        /\ status' = "reading" <=> Failing(l) = {}
    BY <1>1 DEF ReadLine, LineError
  <1>4. (pos - lines_in_group)' + 1 = GroupOfNext
        /\ (pos - lines_in_group)' >= HeaderLines
        /\ CurrentGroup' = GroupOfNext .. pos + 1
    BY <1>1 DEF GroupOfNext, CurrentGroup
  <1> HIDE DEF l
  <1>5. /\ \A k \in DOMAIN closed' : IsEnd(closed'[k], k)
        /\ Cardinality(UpTo(Summary!Ends, (pos - lines_in_group)')) = Len(closed')
        /\ Len(out') = IF dm.mode = "crosstab" THEN 0 ELSE Len(closed')
        /\ ~dm.full => \A n \in HeaderLines + 1 .. (pos - lines_in_group)' :
                         HasKeys(input[n])
    <2>1. CASE closes
      <3>1. EmitGroup /\ GroupError = "ok"
        BY <2>1 DEF ReadLine, GroupFails
      <3>2. lines_in_group > 0 => Summary!Boundary(pos)
        BY <1>1, <2>1, ClosingIsBoundary
      <3>3. (pos - lines_in_group)' = pos
        BY <1>1, <2>1
      <3> QED BY <1>1, <3>1, <3>2, <3>3, EmitSummary
    <2>2. CASE ~closes
      <3>1. closed' = closed /\ out' = out
        BY <2>2 DEF ReadLine
      <3>2. (pos - lines_in_group)' = pos - lines_in_group
        BY <1>1, <2>2
      <3> QED BY <1>1, <3>1, <3>2 DEF SummaryInv, RunsClosed, RowForEachGroup,
                                      KeysPrinted
    <2> QED BY <2>1, <2>2
  <1>6. RunsClosed'
    BY <1>2, <1>3, <1>4, <1>5 DEF RunsClosed
  <1>7. RowForEachGroup'
    BY <1>1, <1>5 DEF RowForEachGroup
  <1>8. KeysPrinted'
    BY <1>1, <1>2, <1>5 DEF KeysPrinted
  <1>9. LinesCollected'
    <2>1. \A n \in HeaderLines + 1 .. pos + 1 : n = pos + 1 \/ n \in HeaderLines + 1 .. pos
      BY <1>1
    <2>2. \A n \in HeaderLines + 1 .. pos : Failing(input[n]) = {}
      BY <1>1 DEF SummaryInv, LinesCollected
    <2>3. status' = "reading" =>
            \A n \in HeaderLines + 1 .. pos + 1 : Failing(input[n]) = {}
      BY <1>1, <1>3, <2>1, <2>2
    <2> QED BY <1>1, <1>2, <1>3, <2>3 DEF LinesCollected
  <1>10. HeaderKnown'
    <2>1. CASE pos > 0
      BY <1>1, <1>2, <2>1 DEF SummaryInv, HeaderKnown
    <2>2. CASE pos = 0
      <3>1. pos - lines_in_group >= HeaderLines /\ Len(input) > 0
        BY <1>1
      <3>2. input # << >>
        BY <3>1
      <3>3. ~dm.header_in
        BY <1>1, <2>2, <3>2 DEF HeaderLines
      <3>4. dm.header_out => ~HeaderBad(Len(input[1]))
        BY <1>1, <2>2, <3>3 DEF ReadLine, HeaderFails, MakesHeader, l
      <3> QED BY <1>1, <1>2, <3>4 DEF HeaderKnown
    <2> QED BY <1>1, <2>1, <2>2
  <1>11. AccumulatorsHold'
    <2> SUFFICES ASSUME status' = "reading" PROVE AccumulatorsHold'
      BY <1>3 DEF AccumulatorsHold
    <2>1. PICK picks : ops' = CollectLine(l, Base, picks)
      BY <1>3 DEF ReadLine, Base, l
    <2>2. \A i \in DOMAIN dm.ops :
            Holds(dm.ops[i].op, CollectLine(l, Base, picks)[i],
                  Summary!Texts(dm.ops[i].field, GroupOfNext .. pos + 1))
      BY <1>1, <1>3, BaseHolds, CollectHoldsLine DEF l
    <2>3. \A i \in DOMAIN dm.ops :
            Holds(dm.ops[i].op, ops'[i], Summary!Texts(dm.ops[i].field, CurrentGroup'))
      BY <1>4, <2>1, <2>2
    <2>4. \A o, s, ts : Holds(o, s, ts)' <=> Holds(o, s, ts)
      OBVIOUS
    <2> QED BY <1>1, <1>2, <2>3 DEF AccumulatorsHold
  <1> QED BY <1>6, <1>7, <1>8, <1>9, <1>10, <1>11 DEF SummaryInv

LEMMA NextSummaryInv ==
  TypeInv /\ GroupInv /\ PrintInv /\ SummaryInv /\ [Next]_vars => SummaryInv'
  <1> SUFFICES ASSUME TypeInv, GroupInv, PrintInv, SummaryInv, [Next]_vars
               PROVE  SummaryInv'
    OBVIOUS
  <1>1. CASE UNCHANGED vars
    <2>1. /\ UNCHANGED <<dm, input, pos, lines_in_group, ops, out, closed, status>>
          /\ \A o, s, ts : Holds(o, s, ts)' <=> Holds(o, s, ts)
      BY <1>1 DEF vars
    <2>2. /\ Summary!Ends' = Summary!Ends /\ HeaderLines' = HeaderLines
          /\ \A n, k : IsEnd(n, k)' <=> IsEnd(n, k)
          /\ \A f, run : Summary!Texts(f, run)' = Summary!Texts(f, run)
          /\ \A l : Failing(l)' = Failing(l)
          /\ \A l : HasKeys(l)' <=> HasKeys(l)
          /\ \A n : HeaderBad(n)' <=> HeaderBad(n)
      BY <2>1, SameSummary
    <2>3. CurrentGroup' = CurrentGroup
      BY <2>1 DEF CurrentGroup
    <2>4. LinesCollected' /\ KeysPrinted' /\ HeaderKnown' /\ RunsClosed'
          /\ RowForEachGroup'
      BY <2>1, <2>2 DEF SummaryInv, LinesCollected, KeysPrinted, HeaderKnown,
                        RunsClosed, RowForEachGroup
    <2>5. AccumulatorsHold'
      BY <2>1, <2>2, <2>3 DEF SummaryInv, AccumulatorsHold
    <2> QED BY <2>4, <2>5 DEF SummaryInv
  <1> QED BY <1>1, StartSummaryInv, DieSummaryInv, ReadSummaryInv,
             FinishSummaryInv DEF Next

LEMMA SummaryInvHolds == Spec => [](TypeInv /\ GroupInv /\ PrintInv /\ SummaryInv)
  <1>1. Init => SummaryInv
    BY InitSummaryInv
  <1>2. TypeInv /\ GroupInv /\ PrintInv /\ SummaryInv /\ [Next]_vars => SummaryInv'
    BY NextSummaryInv
  <1> QED BY <1>1, <1>2, GroupInvHolds, PrintInvHolds, PTL DEF Spec

-----------------------------------------------------------------------------
(* The steps of the program are steps of the summary.                      *)

(* A group that is emitted is the report of the next run.                  *)
LEMMA EmitReports ==
  ASSUME TypeInv, GroupInv, PrintInv, SummaryInv, status = "reading", EmitGroup,
         lines_in_group > 0 => Summary!Boundary(pos)
  PROVE  out' = out \/ Summary!Report
  <1> SUFFICES ASSUME lines_in_group > 0, dm.mode # "crosstab"
               PROVE  Summary!Report
    BY DEF EmitGroup
  <1> DEFINE g == PrintedGroup(input[kept])
             n == Len(out) + 1
  <1>1. out' = Append(out, g) /\ out \in Seq(Range(out))
    BY DEF EmitGroup, PrintInv, RowsRight
  <1>2. Len(out) = Len(closed)
    BY DEF SummaryInv, RowForEachGroup
  <1>3. n \in 1 .. Summary!Runs /\ Summary!Run(n) = CurrentGroup
    BY <1>2, OpenIsRun
  <1>4. Summary!IsResultOf(g, Summary!Run(n))
    BY <1>3, RowIsResult
  <1> HIDE DEF g
  <1>5. out'[n] = g
    <2>1. out \in Seq(Range(out) \cup {g})
      BY <1>1
    <2> QED BY <1>1, <2>1
  <1>6. Len(out) < Summary!Runs
    <2>1. Len(out) \in Nat
      BY <1>1
    <2>2. Summary!Runs \in Nat
      BY EndsFacts, FS_CardinalityType, SharedSets DEF Summary!Runs
    <2> QED BY <1>3, <2>1, <2>2
  <1> QED BY <1>1, <1>4, <1>5, <1>6 DEF Summary!Report

(* A label that the header line lacks is that of a key or of an operation. *)
LEMMA BadHeaderRefused ==
  ASSUME TypeInv, input # << >>, dm.header_out, HeaderBad(Len(input[1]))
  PROVE  Summary!MayRefuse /\ HeaderError(Len(input[1])) \in Errors
  <1> DEFINE n == Len(input[1])
             F == Summary!OpFields \cup Summary!KeyFields
  <1>1. n \in Nat /\ DOMAIN input[1] = 1 .. n /\ dm \in Jobs
    <2>1. input[1] \in Seq(Text)
      BY InputFacts DEF TypeInv, TypeOK
    <2> QED BY <2>1 DEF TypeInv, TypeOK
  <1>2. \E f \in F : f > n
    <2>1. CASE KeyUnlabelled(n)
      <3>1. PICK i \in DOMAIN dm.grps : dm.grps[i] > n
        BY <2>1 DEF KeyUnlabelled
      <3>2. dm.grps[i] \in Summary!KeyFields
        BY <3>1, SharedSets DEF Summary!KeyFields, Range
      <3> QED BY <3>1, <3>2
    <2>2. CASE ~KeyUnlabelled(n)
      <3>1. PICK k \in DOMAIN LabelStarts :
                   \E f \in Range(LabelFields(LabelStarts[k])) : f > n
        BY <2>2 DEF HeaderBad, BadLabels
      <3> DEFINE i == LabelStarts[k]
      <3>2. i \in DOMAIN dm.ops
        BY <1>1, LabelForEachResult DEF LabelSet
      <3>3. dm.ops[i].subordinate => i + 1 \in DOMAIN dm.ops
        BY <1>1, <3>2, GroupByAssumption DEF ValidJob
      <3> HIDE DEF i
      <3>4. Range(LabelFields(i)) \subseteq Summary!OpFields
        BY <3>2, <3>3 DEF LabelFields, Range, Summary!OpFields
      <3> QED BY <3>1, <3>4 DEF i
    <2> QED BY <2>1, <2>2
  <1>3. ~Summary!HasAll(input[1], F)
    <2> HIDE DEF F, n
    <2>1. \A f \in F : f \in Nat
      <3>1. Summary!OpFields \subseteq Nat
        BY <1>1, JobFacts DEF Summary!OpFields
      <3>2. Summary!KeyFields \subseteq Nat
        <4>1. \A i \in DOMAIN dm.grps : dm.grps[i] \in Nat
          BY <1>1, JobFacts
        <4> QED BY <4>1, SharedSets DEF Summary!KeyFields, Range
      <3> QED BY <3>1, <3>2 DEF F
    <2>2. PICK f \in F : f > n /\ f \in Nat
      BY <1>2, <2>1
    <2>3. f \notin DOMAIN input[1]
      BY <1>1, <2>2
    <2> QED BY <2>2, <2>3 DEF Summary!HasAll
  <1>4. Summary!UnknownHeader(F)
    BY <1>3 DEF Summary!UnknownHeader
  <1> QED BY <1>4 DEF Summary!MayRefuse, HeaderError, Errors

(* With a label for each operation the header line has all their fields.   *)
LEMMA GoodHeaderKnown ==
  ASSUME TypeInv, input # << >>, ~HeaderBad(Len(input[1]))
  PROVE  ~Summary!UnknownHeader(Summary!OpFields)
  <1> DEFINE n == Len(input[1])
  <1>1. n \in Nat /\ DOMAIN input[1] = 1 .. n /\ dm \in Jobs
    <2>1. input[1] \in Seq(Text)
      BY InputFacts DEF TypeInv, TypeOK
    <2> QED BY <2>1 DEF TypeInv, TypeOK
  <1>2. ValidJob(dm) /\ dm.ops \in Seq(OpSpec)
    BY <1>1, GroupByAssumption, JobFacts
  <1>3. Len(dm.ops) \in Nat /\ DOMAIN dm.ops = 1 .. Len(dm.ops)
    BY <1>2
  <1>4. \A i \in LabelSet : \A f \in Range(LabelFields(i)) : ~(f > n)
    <2> TAKE i \in LabelSet
    <2>1. LabelSet \in SUBSET Nat /\ IsFiniteSet(LabelSet)
      <3>1. LabelSet \subseteq 1 .. Len(dm.ops)
        BY <1>3 DEF LabelSet
      <3>2. IsFiniteSet(1 .. Len(dm.ops))
        BY <1>3, FS_Interval
      <3>3. LabelSet \in SUBSET Nat
        BY <1>3, <3>1
      <3> QED BY <3>1, <3>2, <3>3, FS_Subset
    <2> DEFINE k == Cardinality(UpTo(LabelSet, i))
    <2>2. k \in 1 .. Cardinality(LabelSet) /\ Listed(LabelSet)[k] = i
      BY <2>1, ListedAt
    <2>3. LabelStarts = Listed(LabelSet)
      BY DEF LabelStarts, LabelSet
    <2>4. DOMAIN Listed(LabelSet) = 1 .. Cardinality(LabelSet)
      BY <2>1, ListedIs
    <2> HIDE DEF k
    <2>5. k \in DOMAIN LabelStarts /\ LabelStarts[k] = i
      BY <2>2, <2>3, <2>4
    <2>6. k \notin BadLabels(n)
      BY DEF HeaderBad
    <2> QED BY <2>5, <2>6 DEF BadLabels
  <1>5. \A i \in DOMAIN dm.ops : dm.ops[i].field \in DOMAIN input[1]
    <2> TAKE i \in DOMAIN dm.ops
    <2>1. dm.ops[i].field \in Nat \ {0}
      BY <1>1, JobFacts
    <2>2. CASE i \in LabelSet
      <3>1. LabelFields(i)[1] = dm.ops[i].field /\ 1 \in DOMAIN LabelFields(i)
        BY DEF LabelFields
      <3>2. dm.ops[i].field \in Range(LabelFields(i))
        BY <3>1 DEF Range
      <3> QED BY <1>1, <1>4, <2>1, <2>2, <3>2
    <2>3. CASE i \notin LabelSet
      <3>1. i # 1 /\ dm.ops[i - 1].subordinate
        BY <2>3 DEF LabelSet
      <3>2. i \in 2 .. Len(dm.ops) /\ i - 1 \in DOMAIN dm.ops /\ (i - 1) + 1 = i
        BY <1>3, <3>1
      <3>3. dm.ops[i - 1].sub = 0
        BY <1>2, <3>1, <3>2 DEF ValidJob
      <3>4. i - 1 # 1 => ~dm.ops[(i - 1) - 1].subordinate
        <4> SUFFICES ASSUME i - 1 # 1, dm.ops[(i - 1) - 1].subordinate
                     PROVE  FALSE
          OBVIOUS
        <4>1. /\ (i - 1) - 1 \in DOMAIN dm.ops /\ ((i - 1) - 1) + 1 = i - 1
              /\ (i - 1) - 1 # 0
          BY <1>3, <3>2
        <4>2. dm.ops[i - 1].sub = (i - 1) - 1
          BY <1>2, <4>1 DEF ValidJob
        <4> QED BY <3>3, <4>1, <4>2
      <3>5. i - 1 \in LabelSet
        BY <3>2, <3>4 DEF LabelSet
      <3>6. LabelFields(i - 1) = <<dm.ops[i - 1].field, dm.ops[i].field>>
        BY <3>1, <3>2 DEF LabelFields
      <3>7. LabelFields(i - 1)[2] = dm.ops[i].field /\ 2 \in DOMAIN LabelFields(i - 1)
        BY <3>6
      <3>8. dm.ops[i].field \in Range(LabelFields(i - 1))
        BY <3>7 DEF Range
      <3> QED BY <1>1, <1>4, <2>1, <3>5, <3>8
    <2> QED BY <2>2, <2>3
  <1>6. Summary!HasAll(input[1], Summary!OpFields)
    BY <1>5 DEF Summary!HasAll, Summary!OpFields
  <1> QED BY <1>6 DEF Summary!UnknownHeader

(* A line on which an operation fails is unusable.                         *)
LEMMA FailingRefused ==
  ASSUME TypeInv, SummaryInv, Reading, Failing(NextLine) # {}
  PROVE  Summary!MayRefuse
  <1>1. PICK i \in DOMAIN dm.ops :
               Has(NextLine, dm.ops[i].field) =>
                 /\ ~Skipped(dm.narm, NextLine[dm.ops[i].field])
                 /\ Invalid(dm.ops[i].op, NextLine[dm.ops[i].field])
    BY DEF Failing
  <1> DEFINE f == dm.ops[i].field
             n == pos + 1
  <1>2. Summary!Unusable(n)
    <2>1. CASE Has(NextLine, f)
      <3>1. Summary!BadValue(n)
        BY <1>1, <2>1, SharedValues DEF Summary!BadValue, NextLine
      <3> QED BY <3>1 DEF Summary!Unusable
    <2>2. CASE ~Has(NextLine, f)
      <3>1. f \in Summary!OpFields /\ f \notin DOMAIN input[n]
        BY <2>2 DEF Summary!OpFields, Has, NextLine
      <3> QED BY <3>1 DEF Summary!Unusable, Summary!HasAll
    <2> QED BY <2>1, <2>2
  <1>3. n \in Summary!First .. Len(input)
    <2>1. /\ pos \in Nat /\ Len(input) \in Nat /\ pos < Len(input)
          /\ lines_in_group \in 0 .. pos /\ pos - lines_in_group >= HeaderLines
          /\ status = "reading"
      BY InputFacts DEF TypeInv, TypeOK, Reading, SummaryInv, RunsClosed
    <2>2. input # << >>
      BY <2>1
    <2>3. Summary!First = HeaderLines + 1 /\ HeaderLines \in {0, 1}
      BY <2>2, EndsFacts DEF HeaderLines
    <2> QED BY <2>1, <2>3
  <1> QED BY <1>2, <1>3 DEF Summary!MayRefuse

(* The lines of the open group, and the next one, are data lines.          *)
LEMMA OpenLines ==
  ASSUME TypeInv, GroupInv, SummaryInv, status = "reading", lines_in_group > 0
  PROVE  /\ kept \in Summary!First .. Len(input) /\ kept \in CurrentGroup
         /\ pos < Len(input) => pos + 1 \in Summary!First .. Len(input)
  <1>1. /\ pos \in Nat /\ Len(input) \in Nat /\ pos <= Len(input)
        /\ lines_in_group \in 1 .. pos /\ pos - lines_in_group >= HeaderLines
        /\ kept \in pos - lines_in_group + 1 .. pos /\ HeaderLines \in {0, 1}
    BY InputFacts DEF TypeInv, TypeOK, SummaryInv, RunsClosed, GroupInv,
                      KeptInGroup, CurrentGroup, HeaderLines
  <1>2. input # << >>
    BY <1>1
  <1>3. Summary!First = HeaderLines + 1
    BY <1>2, EndsFacts
  <1> QED BY <1>1, <1>3 DEF CurrentGroup

(* A line without one of the keys is a reason to refuse the input.         *)
LEMMA NoKeyRefused ==
  ASSUME NEW n \in Summary!First .. Len(input), NEW i \in DOMAIN dm.grps,
         ~Has(input[n], dm.grps[i])
  PROVE  Summary!MayRefuse
  <1>1. dm.grps[i] \in Summary!KeyFields /\ dm.grps[i] \notin DOMAIN input[n]
    BY SharedSets DEF Summary!KeyFields, Range, Has
  <1> QED BY <1>1 DEF Summary!MayRefuse, Summary!HasAll

(* A comparison dies because one of the two lines lacks a key.             *)
LEMMA ComparisonRefused ==
  ASSUME TypeInv, GroupInv, SummaryInv, Reading, ComparisonFails
  PROVE  Summary!MayRefuse
  <1>1. status = "reading" /\ pos < Len(input) /\ ~NoGroupYet
    BY DEF Reading, ComparisonFails, Compares
  <1>2. lines_in_group > 0
    BY <1>1, MarkIsSound DEF EmptyMeansNoGroup, TypeInv, TypeOK
  <1>3. /\ kept \in Summary!First .. Len(input)
        /\ pos + 1 \in Summary!First .. Len(input)
    BY <1>1, <1>2, OpenLines
  <1> DEFINE i == Min(Unlike(NextLine, input[kept]))
  <1>4. Unlike(NextLine, input[kept]) \subseteq DOMAIN dm.grps
        /\ DOMAIN dm.grps \subseteq Nat
    BY JobFacts DEF Unlike, TypeInv, TypeOK
  <1>5. i \in Unlike(NextLine, input[kept]) /\ ~BothHave(NextLine, input[kept], i)
    BY <1>4, LeastPosition DEF ComparisonFails, ComparisonDies
  <1> HIDE DEF i
  <1>6. i \in DOMAIN dm.grps
    BY <1>4, <1>5
  <1>7. ~Has(input[pos + 1], dm.grps[i]) \/ ~Has(input[kept], dm.grps[i])
    BY <1>5 DEF BothHave, NextLine
  <1> QED BY <1>3, <1>6, <1>7, NoKeyRefused

(* A group is refused for a key that its line lacks, or for a pair of      *)
(* columns of unequal length.                                              *)
LEMMA GroupRefused ==
  ASSUME TypeInv, GroupInv, SummaryInv, status = "reading", GroupError # "ok",
         Summary!Boundary(pos)
  PROVE  Summary!MayRefuse /\ GroupError \in Errors
  <1>1. lines_in_group > 0
    BY DEF GroupError, TypeInv, TypeOK
  <1>2. GroupError \in Errors
    BY DEF GroupError, Errors
  <1>3. CASE \E i \in DOMAIN dm.grps : ~Has(input[kept], dm.grps[i])
    BY <1>1, <1>2, <1>3, OpenLines, NoKeyRefused
  <1>4. CASE ~\E i \in DOMAIN dm.grps : ~Has(input[kept], dm.grps[i])
    <2>1. PICK i \in DOMAIN dm.ops :
                 /\ ~dm.ops[i].subordinate
                 /\ PairMismatch(dm.ops[i].op, ops[i], SubValues(i))
      BY <1>1, <1>4 DEF GroupError
    <2> DEFINE k == Len(closed) + 1
               a == Summary!Texts(dm.ops[i].field, CurrentGroup)
               b == Summary!Texts(dm.ops[dm.ops[i].sub].field, CurrentGroup)
    <2>2. dm.ops[i].op = "pcov" /\ Len(ops[i].values) # Len(SubValues(i))
      BY <2>1 DEF PairMismatch
    <2>3. Len(a) # Len(b)
      BY <2>1, <2>2, PairHolds
    <2>4. k \in 1 .. Summary!Runs /\ Summary!Run(k) = CurrentGroup
      BY <1>1, OpenIsRun
    <2>5. i \in Summary!Printed
      BY <2>1 DEF Summary!Printed
    <2> HIDE DEF k
    <2>6. Summary!UnequalPairs(Summary!Run(k))
      BY <2>2, <2>3, <2>4, <2>5 DEF Summary!UnequalPairs
    <2>7. CASE \A n \in Summary!First .. Len(input) :
                 Summary!HasAll(input[n], Summary!OpFields \cup Summary!KeyFields)
      BY <1>2, <2>4, <2>6, <2>7 DEF Summary!MayRefuse
    <2>8. CASE ~\A n \in Summary!First .. Len(input) :
                 Summary!HasAll(input[n], Summary!OpFields \cup Summary!KeyFields)
      <3>1. PICK n \in Summary!First .. Len(input) :
                   ~Summary!HasAll(input[n], Summary!OpFields \cup Summary!KeyFields)
        BY <2>8
      <3>2. Summary!Unusable(n) \/ ~Summary!HasAll(input[n], Summary!KeyFields)
        BY <3>1 DEF Summary!HasAll, Summary!Unusable
      <3> QED BY <1>2, <3>1, <3>2 DEF Summary!MayRefuse
    <2> QED BY <2>7, <2>8
  <1> QED BY <1>3, <1>4

-----------------------------------------------------------------------------
(* The program may end well when every line has been collected.            *)
LEMMA FinishIsDone ==
  ASSUME TypeInv, GroupInv, PrintInv, SummaryInv, Finish, GroupError = "ok"
  PROVE  /\ Len(out') = IF dm.mode = "crosstab" THEN 0 ELSE Summary!Runs
         /\ \A n \in Summary!First .. Len(input) : ~Summary!Unusable(n)
         /\ ~Summary!UnknownHeader(Summary!OpFields)
PROOF
  <1>1. /\ status = "reading" /\ pos = Len(input) /\ EmitGroup /\ pos \in Nat
        /\ dm \in Jobs /\ HeaderLines \in {0, 1}
    BY DEF Finish, TypeInv, TypeOK, HeaderLines
  <1>2. Summary!Boundary(pos)
    BY <1>1 DEF Summary!Boundary
  <1>3. /\ Cardinality(UpTo(Summary!Ends, pos)) = Len(closed')
        /\ Len(out') = IF dm.mode = "crosstab" THEN 0 ELSE Len(closed')
        /\ ~dm.full => \A n \in HeaderLines + 1 .. pos : HasKeys(input[n])
    BY <1>1, <1>2, EmitSummary
  <1>4. UpTo(Summary!Ends, pos) = Summary!Ends
    <2>1. \A n \in Summary!Ends : n <= pos
      BY <1>1, EndsFacts
    <2> QED BY <2>1 DEF UpTo
  <1>5. Len(closed') = Summary!Runs
    BY <1>3, <1>4, SharedSets DEF Summary!Runs
  <1>6. ASSUME NEW n \in Summary!First .. Len(input)
        PROVE  ~Summary!Unusable(n)
    <2>1. n \in 1 .. Len(input) /\ n \in HeaderLines + 1 .. pos
      <3>1. n \in Nat /\ 1 <= n /\ n <= Len(input)
        BY <1>1, EndsFacts
      <3>2. input # << >>
        BY <1>1, <3>1
      <3>3. Summary!First = HeaderLines + 1
        BY <3>2, EndsFacts
      <3> QED BY <1>1, <3>1, <3>3
    <2>2. Failing(input[n]) = {}
      BY <1>1, <2>1 DEF SummaryInv, LinesCollected
    <2>3. \A i \in DOMAIN dm.ops :
            /\ dm.ops[i].field \in DOMAIN input[n]
            /\ Skipped(dm.narm, input[n][dm.ops[i].field])
                 \/ ~Invalid(dm.ops[i].op, input[n][dm.ops[i].field])
      BY <2>1, <2>2, LineFacts
    <2>4. Summary!HasAll(input[n], Summary!OpFields)
      BY <2>3 DEF Summary!HasAll, Summary!OpFields
    <2>5. ~Summary!BadValue(n)
      BY <2>3, SharedValues DEF Summary!BadValue
    <2>6. ~dm.full => Summary!HasAll(input[n], Summary!KeyFields)
      <3>1. ~dm.full => HasKeys(input[n])
        BY <1>3, <2>1
      <3> QED BY <3>1, SharedSets DEF HasKeys, Has, Summary!HasAll,
                                      Summary!KeyFields, Range
    <2> QED BY <2>4, <2>5, <2>6 DEF Summary!Unusable
  <1>7. ~Summary!UnknownHeader(Summary!OpFields)
    <2> SUFFICES ASSUME dm.header_out, input # << >>
                 PROVE  ~Summary!UnknownHeader(Summary!OpFields)
      BY DEF Summary!UnknownHeader
    <2>1. pos > 0
      <3>1. input \in Seq(Line)
        BY InputFacts DEF TypeInv, TypeOK
      <3> QED BY <1>1, <3>1
    <2>2. ~HeaderBad(Len(input[1]))
      BY <1>1, <2>1 DEF SummaryInv, HeaderKnown
    <2> QED BY <2>2, GoodHeaderKnown
  <1> QED BY <1>3, <1>5, <1>6, <1>7

LEMMA InitRefines == Init => Summary!Init
  BY DEF Init, Summary!Init, Summary!Running

LEMMA StepRefines ==
  ASSUME TypeInv, GroupInv, PrintInv, SummaryInv, [Next]_vars
  PROVE  [Summary!Next]_(Summary!vars)
PROOF
  <1>1. CASE UNCHANGED vars
    BY <1>1 DEF vars, Summary!vars
  <1>2. CASE Start
    <2>1. /\ status = "start" /\ out' = out /\ UNCHANGED <<dm, input>>
      BY <1>2 DEF Start
    <2>2. CASE status' = "reading"
      BY <2>1, <2>2 DEF Summary!Next, Summary!Running
    <2>3. CASE status' # "reading"
      <3>1. /\ dm.header_out /\ input # << >> /\ HeaderBad(Len(input[1]))
            /\ status' = HeaderError(Len(input[1]))
        BY <1>2, <2>3 DEF Start
      <3>2. Summary!MayRefuse /\ status' \in Errors
        BY <3>1, BadHeaderRefused
      <3> QED BY <2>1, <3>2 DEF Summary!Next, Summary!Running, Errors
    <2> QED BY <2>2, <2>3
  <1>3. CASE Die
    <2>1. /\ Reading /\ status = "reading" /\ pos < Len(input)
          /\ out' = out /\ UNCHANGED <<dm, input>>
      BY <1>3 DEF Die, Reading
    <2>2. Summary!MayRefuse /\ status' \in Errors
      <3>1. CASE HeaderFails /\ status' = HeaderError(Len(NextLine))
        <4>1. /\ dm.header_out /\ NextLine = input[1] /\ input # << >>
              /\ HeaderBad(Len(input[1]))
          BY <2>1, <3>1 DEF HeaderFails, MakesHeader, NextLine
        <4> QED BY <3>1, <4>1, BadHeaderRefused
      <3>2. CASE ComparisonFails /\ status' = "missing field"
        BY <2>1, <3>2, ComparisonRefused DEF Errors
      <3>3. CASE GroupFails /\ status' = GroupError
        <4>1. ClosesGroup(NextLine) /\ GroupError # "ok"
          BY <3>3 DEF GroupFails
        <4>2. lines_in_group > 0
          BY <4>1 DEF GroupError, TypeInv, TypeOK
        <4>3. Summary!Boundary(pos)
          BY <2>1, <4>1, <4>2, ClosingIsBoundary
        <4> QED BY <2>1, <3>3, <4>1, <4>3, GroupRefused
      <3> QED BY <1>3, <3>1, <3>2, <3>3 DEF Die
    <2> QED BY <2>1, <2>2 DEF Summary!Next, Summary!Running, Errors
  <1>4. CASE ReadLine
    <2>1. /\ Reading /\ status = "reading" /\ pos < Len(input)
          /\ UNCHANGED <<dm, input>>
      BY <1>4 DEF ReadLine, Reading
    <2>2. out' = out \/ Summary!Report
      <3>1. CASE ClosesGroup(NextLine)
        <4>1. EmitGroup
          BY <1>4, <3>1 DEF ReadLine
        <4>2. lines_in_group > 0 => Summary!Boundary(pos)
          BY <2>1, <3>1, ClosingIsBoundary
        <4> QED BY <2>1, <4>1, <4>2, EmitReports
      <3>2. CASE ~ClosesGroup(NextLine)
        BY <1>4, <3>2 DEF ReadLine
      <3> QED BY <3>1, <3>2
    <2>3. CASE Failing(NextLine) = {}
      <3>1. status' = "reading"
        BY <1>4, <2>1, <2>3 DEF ReadLine
      <3> QED BY <2>1, <2>2, <3>1 DEF Summary!Next, Summary!Running
    <2>4. CASE Failing(NextLine) # {}
      <3>1. status' \in {"invalid value", "missing field"}
        BY <1>4, <2>4 DEF ReadLine, LineError
      <3>2. Summary!MayRefuse
        BY <2>1, <2>4, FailingRefused
      <3> QED BY <2>1, <2>2, <3>1, <3>2 DEF Summary!Next, Summary!Running
    <2> QED BY <2>3, <2>4
  <1>5. CASE Finish
    <2>1. /\ status = "reading" /\ pos = Len(input) /\ UNCHANGED <<dm, input>>
      BY <1>5 DEF Finish
    <2>2. Summary!Boundary(pos)
      BY <2>1 DEF Summary!Boundary
    <2>3. CASE GroupError = "ok"
      <3>1. status' = "done" /\ EmitGroup
        BY <1>5, <2>3 DEF Finish
      <3>2. out' = out \/ Summary!Report
        BY <2>1, <2>2, <3>1, EmitReports
      <3> QED BY <1>5, <2>1, <2>3, <3>1, <3>2, FinishIsDone
              DEF Summary!Next, Summary!Running
    <2>4. CASE GroupError # "ok"
      <3>1. status' = GroupError /\ out' = out
        BY <1>5, <2>4 DEF Finish
      <3>2. Summary!MayRefuse /\ GroupError \in Errors
        BY <2>1, <2>2, <2>4, GroupRefused
      <3> QED BY <2>1, <3>1, <3>2 DEF Summary!Next, Summary!Running, Errors
    <2> QED BY <2>3, <2>4
  <1> QED BY <1>1, <1>2, <1>3, <1>4, <1>5 DEF Next

(* What datamash prints, line by line as it reads, is what GroupSummary    *)
(* says of the whole input: the reports of the first runs of equal keys,   *)
(* each with the values of the operations computed by definition; it ends  *)
(* well only after the last run of an input without a bad line, and badly  *)
(* only for a reason in the input.                                         *)
THEOREM GroupByImplementsSummary == Spec => ImplementsSummary
  <1>1. Init => Summary!Init
    BY InitRefines
  <1>2. TypeInv /\ GroupInv /\ PrintInv /\ SummaryInv /\ [Next]_vars
          => [Summary!Next]_(Summary!vars)
    BY StepRefines
  <1> QED BY <1>1, <1>2, SummaryInvHolds, PTL DEF Spec, ImplementsSummary,
                                                  Summary!Spec

-----------------------------------------------------------------------------
(* The table of crosstab.                                                  *)

(* A finite set of names, which strcmp tells apart, can be put in order.   *)
LEMMA NamesInOrder ==
  ASSUME NEW S, IsFiniteSet(S), \A t \in S : Rank[t] \in Nat,
         \A t, u \in S : Rank[t] = Rank[u] => t = u
  PROVE  \E s \in SetToSeqs(S) :
           \A m, n \in DOMAIN s : m < n => Rank[s[m]] < Rank[s[n]]
PROOF
  <1> DEFINE R == {Rank[t] : t \in S}
             f == [t \in S |-> Rank[t]]
             c == Cardinality(S)
             r == Listed(R)
  <1>1. f \in Bijection(S, R)
    <2>1. f \in [S -> R] /\ \A t, u \in S : f[t] = f[u] => t = u
      OBVIOUS
    <2>2. \A x \in R : \E t \in S : f[t] = x
      OBVIOUS
    <2> HIDE DEF f, R
    <2> QED BY <2>1, <2>2 DEF Bijection, Injection, Surjection, IsInjective
  <1>2. R \in SUBSET Nat
    OBVIOUS
  <1>3. IsFiniteSet(R) /\ Cardinality(R) = c /\ c \in Nat
    <2> HIDE DEF f, R
    <2>1. ExistsBijection(S, R)
      BY <1>1 DEF ExistsBijection
    <2>2. f \in Surjection(S, R)
      BY <1>1 DEF Bijection
    <2>3. IsFiniteSet(R)
      BY <2>2, FS_Surjection
    <2> QED BY <2>1, <2>3, FS_CardinalityType, FS_Bijection
  <1>4. r \in [1 .. c -> R] /\ \A m, n \in 1 .. c : m < n => r[m] < r[n]
    <2> HIDE DEF R
    <2>1. Ascending(r, R) /\ r \in [1 .. c -> R]
      BY <1>2, <1>3, ListedIs
    <2> QED BY <2>1 DEF Ascending
  <1> DEFINE s == [k \in 1 .. c |-> CHOOSE t \in S : Rank[t] = r[k]]
  <1>5. \A k \in 1 .. c : s[k] \in S /\ Rank[s[k]] = r[k]
    <2> HIDE DEF r, c
    <2> TAKE k \in 1 .. c
    <2>1. \E t \in S : Rank[t] = r[k]
      BY <1>4
    <2> QED BY <2>1
  <1> HIDE DEF r, R, f
  <1>6. s \in [1 .. c -> S] /\ DOMAIN s = 1 .. c
    BY <1>5
  <1> HIDE DEF s, c
  <1>7. \A m, n \in 1 .. c : m < n => Rank[s[m]] < Rank[s[n]]
    BY <1>4, <1>5
  <1>8. \A m, n \in 1 .. c : m # n => s[m] # s[n]
    <2> SUFFICES ASSUME NEW m \in 1 .. c, NEW n \in 1 .. c, m # n, s[m] = s[n]
                 PROVE  FALSE
      OBVIOUS
    <2>1. m \in Int /\ n \in Int
      BY <1>3
    <2>2. m < n \/ n < m
      BY <2>1
    <2>3. r[m] < r[n] \/ r[n] < r[m]
      BY <1>4, <2>2
    <2>4. r[m] = r[n] /\ r[m] \in Int
      BY <1>2, <1>4, <1>5
    <2> QED BY <2>3, <2>4
  <1>9. s \in SetToSeqs(S)
    BY <1>6, <1>8 DEF SetToSeqs, c
  <1> QED BY <1>6, <1>7, <1>9

(* The names that the lines shown give to the groups.                      *)
CellShown(shown, k) == Cell(input[shown[k]])

CellsShown(shown) ==
  /\ \A k \in DOMAIN closed :
       shown[k] \in GroupStart(k) .. closed[k] /\ HasKeys(input[shown[k]])
  /\ DOMAIN ctab = {CellShown(shown, k) : k \in DOMAIN closed}
  /\ \A k \in DOMAIN closed :
       (\A j \in DOMAIN closed : CellShown(shown, j) = CellShown(shown, k) => k <= j)
         => ctab[CellShown(shown, k)]
              \in Summary!OpValues(1, GroupStart(k) .. closed[k])

(* The cells are those of the groups closed, each with the value of the    *)
(* first group that has its names.                                         *)
CellsInv ==
  dm.mode = "crosstab" =>
    \E shown \in [DOMAIN closed -> 1 .. Len(input)] : CellsShown(shown)

LEMMA SameValues ==
  ASSUME UNCHANGED <<dm, input>>
  PROVE  /\ \A i, run : Summary!OpValues(i, run)' = Summary!OpValues(i, run)
         /\ \A l : Cell(l)' = Cell(l)
         /\ \A l : HasKeys(l)' <=> HasKeys(l)
  <1>1. \A f, run : Summary!Texts(f, run)' = Summary!Texts(f, run)
    BY SameSummary
  <1>2. \A o, ts : Summary!Values(o, ts)' = Summary!Values(o, ts)
    BY DEF Summary!Values
  <1>3. \A i, run : Summary!PairValues(i, run)' = Summary!PairValues(i, run)
    BY <1>1 DEF Summary!PairValues
  <1>4. \A i, run : Summary!OpValues(i, run)' = Summary!OpValues(i, run)
    BY <1>1, <1>2, <1>3 DEF Summary!OpValues
  <1> QED BY <1>4, SameSummary DEF Cell

LEMMA CellsUnchanged ==
  ASSUME CellsInv, UNCHANGED <<dm, input, closed, ctab>>
  PROVE  CellsInv'
  <1> SUFFICES ASSUME dm.mode = "crosstab" PROVE CellsInv'
    BY DEF CellsInv
  <1>1. PICK shown \in [DOMAIN closed -> 1 .. Len(input)] : CellsShown(shown)
    BY DEF CellsInv
  <1>2. \A k : GroupStart(k)' = GroupStart(k)
    BY ClosedUnchanged
  <1>3. \A k : CellShown(shown, k)' = CellShown(shown, k)
    BY SameValues DEF CellShown
  <1>4. CellsShown(shown)'
    BY <1>1, <1>2, <1>3, SameValues DEF CellsShown
  <1> QED BY <1>4 DEF CellsInv

LEMMA InitCellsInv == Init => CellsInv
  <1> SUFFICES ASSUME Init PROVE CellsInv
    OBVIOUS
  <1>1. closed = << >> /\ ctab = << >>
    BY DEF Init
  <1>2. DOMAIN closed = {} /\ DOMAIN ctab = {}
    BY <1>1
  <1> DEFINE shown == [k \in DOMAIN closed |-> 1]
  <1>3. shown \in [DOMAIN closed -> 1 .. Len(input)] /\ CellsShown(shown)
    BY <1>2 DEF CellsShown
  <1> QED BY <1>3 DEF CellsInv

(* A group that is closed adds its cell, unless an earlier group has its   *)
(* names.                                                                  *)
LEMMA EmitCells ==
  ASSUME TypeInv, GroupInv, SummaryInv, CellsInv, status = "reading",
         EmitGroup, GroupError = "ok", UNCHANGED <<dm, input>>
  PROVE  CellsInv'
PROOF
  <1> SUFFICES ASSUME dm.mode = "crosstab" PROVE CellsInv'
    BY DEF CellsInv
  <1>1. CASE lines_in_group = 0
    <2>1. closed' = closed /\ ctab' = ctab
      BY <1>1 DEF EmitGroup
    <2> QED BY <2>1, CellsUnchanged
  <1>2. CASE lines_in_group # 0
    <2> DEFINE n == Len(closed)
    <2>1. /\ pos \in Nat /\ lines_in_group \in 1 .. pos /\ pos <= Len(input)
          /\ Len(input) \in Nat /\ dm \in Jobs /\ closed \in Seq(1 .. pos)
          /\ n \in Nat /\ DOMAIN closed = 1 .. n /\ lines_in_group > 0
      BY <1>2, InputFacts DEF TypeInv, TypeOK
    <2>2. closed' = Append(closed, pos) /\ ctab' = AddCell(input[kept])
      BY <2>1 DEF EmitGroup
    <2>3. kept \in CurrentGroup /\ CurrentGroup = GroupStart(n + 1) .. pos
      <3>1. pos - lines_in_group = GroupStart(n + 1) - 1
        BY DEF GroupInv, GroupsTile
      <3>2. HeaderLines \in Int /\ \A k \in DOMAIN closed : closed[k] \in Int
        BY <2>1 DEF HeaderLines
      <3>3. GroupStart(n + 1) \in Int
        <4>1. n + 1 # 1 => n \in DOMAIN closed /\ (n + 1) - 1 = n
          BY <2>1
        <4> QED BY <3>2, <4>1 DEF GroupStart
      <3> HIDE DEF n
      <3> QED BY <1>2, <2>1, <3>1, <3>3 DEF GroupInv, KeptInGroup, CurrentGroup
    <2>4. kept \in 1 .. Len(input)
      BY <2>1, <2>3 DEF CurrentGroup
    <2>5. HasKeys(input[kept])
      BY <1>2, Zenon DEF GroupError, HasKeys
    <2>6. OpResult(1) \in Summary!OpValues(1, CurrentGroup)
      <3>1. ValidJob(dm) /\ dm.ops \in Seq(OpSpec)
        BY <2>1, GroupByAssumption, JobFacts
      <3>2. Len(dm.ops) = 1
        BY <3>1 DEF ValidJob
      <3>3. 1 \in DOMAIN dm.ops /\ 1 + 1 \notin DOMAIN dm.ops
        BY <3>1, <3>2
      <3>4. 1 \in PrimarySet
        BY <3>1, <3>3 DEF ValidJob, PrimarySet
      <3> QED BY <3>4, OpResultIsValue
    <2>7. PICK shown \in [1 .. n -> 1 .. Len(input)] : CellsShown(shown)
      BY <2>1 DEF CellsInv
    <2> DEFINE cell == Cell(input[kept])
    <2>8. /\ DOMAIN closed' = 1 .. n + 1 /\ closed'[n + 1] = pos
          /\ \A k \in 1 .. n : closed'[k] = closed[k]
      <3> HIDE DEF n
      <3>1. closed \in Seq(Nat) /\ n = Len(closed) /\ pos \in Nat
        BY <2>1 DEF n
      <3> QED BY <2>2, <3>1
    <2>9. \A k \in 1 .. n + 1 : GroupStart(k)' = GroupStart(k)
      <3> SUFFICES ASSUME NEW k \in 1 .. n + 1
                   PROVE  GroupStart(k)' = GroupStart(k)
        OBVIOUS
      <3>1. HeaderLines' = HeaderLines
        BY SameSummary
      <3>2. k # 1 => k - 1 \in 1 .. n
        BY <2>1
      <3>3. k # 1 => closed'[k - 1] = closed[k - 1]
        BY <2>8, <3>2
      <3> QED BY <3>1, <3>3 DEF GroupStart
    <2>10. PICK more \in [1 .. n + 1 -> 1 .. Len(input)] :
             more[n + 1] = kept /\ \A k \in 1 .. n : more[k] = shown[k]
      <3> DEFINE m == [k \in 1 .. n + 1 |-> IF k = n + 1 THEN kept ELSE shown[k]]
      <3> HIDE DEF n
      <3>1. \A k \in 1 .. n + 1 : k = n + 1 \/ k \in 1 .. n
        BY <2>1
      <3>2. n + 1 \in 1 .. n + 1 /\ \A k \in 1 .. n : k # n + 1 /\ k \in 1 .. n + 1
        BY <2>1
      <3>3. m \in [1 .. n + 1 -> 1 .. Len(input)]
        BY <2>1, <2>4, <2>7, <3>1
      <3>4. m[n + 1] = kept /\ \A k \in 1 .. n : m[k] = shown[k]
        BY <2>1, <3>2
      <3> QED BY <3>3, <3>4
    <2> HIDE DEF n, cell
    <2>11. /\ \A k \in 1 .. n : CellShown(more, k) = CellShown(shown, k)
           /\ CellShown(more, n + 1) = cell
           /\ \A k : CellShown(more, k)' = CellShown(more, k)
      BY <2>10, SameValues DEF CellShown, cell
    <2>12. /\ DOMAIN ctab' = DOMAIN ctab \cup {cell}
           /\ \A d \in DOMAIN ctab : ctab'[d] = ctab[d]
           /\ cell \notin DOMAIN ctab => ctab'[cell] = OpResult(1)
      BY <2>2 DEF AddCell, cell
    <2>13. \A k \in 1 .. n + 1 : k = n + 1 \/ k \in 1 .. n
      BY <2>1
    <2>14. \A k \in 1 .. n + 1 :
             more[k] \in GroupStart(k) .. closed'[k] /\ HasKeys(input[more[k]])
      <3>1. \A k \in 1 .. n : shown[k] \in GroupStart(k) .. closed[k]
                                /\ HasKeys(input[shown[k]])
        BY <2>1, <2>7 DEF CellsShown
      <3>2. more[n + 1] \in GroupStart(n + 1) .. closed'[n + 1]
            /\ HasKeys(input[more[n + 1]])
        BY <2>3, <2>5, <2>8, <2>10
      <3>3. ASSUME NEW k \in 1 .. n
            PROVE  more[k] \in GroupStart(k) .. closed'[k] /\ HasKeys(input[more[k]])
        BY <2>8, <2>10, <3>1
      <3> QED BY <2>13, <3>2, <3>3
    <2>15. DOMAIN ctab' = {CellShown(more, k) : k \in 1 .. n + 1}
      <3>1. DOMAIN ctab = {CellShown(shown, k) : k \in 1 .. n}
        BY <2>1, <2>7 DEF CellsShown
      <3>2. n + 1 \in 1 .. n + 1 /\ 1 .. n \subseteq 1 .. n + 1
        BY <2>1
      <3> QED BY <2>11, <2>12, <2>13, <3>1, <3>2
    <2>16. ASSUME NEW k \in 1 .. n + 1,
                  \A j \in 1 .. n + 1 :
                    CellShown(more, j) = CellShown(more, k) => k <= j
           PROVE  ctab'[CellShown(more, k)]
                    \in Summary!OpValues(1, GroupStart(k) .. closed'[k])
      <3>0. n \in Nat /\ 1 .. n \subseteq 1 .. n + 1
        BY <2>1
      <3>1. CASE k \in 1 .. n
        <4>1. \A j \in 1 .. n : CellShown(shown, j) = CellShown(shown, k) => k <= j
          BY <2>11, <2>16, <3>0, <3>1
        <4>2. /\ CellShown(shown, k) \in DOMAIN ctab
              /\ ctab[CellShown(shown, k)]
                   \in Summary!OpValues(1, GroupStart(k) .. closed[k])
          BY <2>1, <2>7, <3>1, <4>1 DEF CellsShown
        <4> QED BY <2>8, <2>11, <2>12, <3>1, <4>2
      <3>2. CASE k = n + 1
        <4>1. ASSUME NEW j \in 1 .. n, CellShown(shown, j) = cell PROVE FALSE
          <5>1. CellShown(more, j) = CellShown(more, k)
            BY <2>11, <3>2, <4>1
          <5>2. n + 1 <= j
            BY <2>16, <3>0, <3>2, <5>1
          <5> QED BY <3>0, <5>2
        <4>2. cell \notin DOMAIN ctab
          BY <2>1, <2>7, <4>1 DEF CellsShown
        <4>3. ctab'[cell] \in Summary!OpValues(1, GroupStart(n + 1) .. closed'[n + 1])
          BY <2>3, <2>6, <2>8, <2>12, <4>2
        <4> QED BY <2>11, <3>2, <4>3
      <3> QED BY <2>13, <3>1, <3>2
    <2>17. CellsShown(more)'
      <3> QED BY <2>8, <2>9, <2>11, <2>14, <2>15, <2>16, SameValues,
             SMTT(30) DEF CellsShown
    <2> QED BY <2>8, <2>10, <2>17 DEF CellsInv
  <1> QED BY <1>1, <1>2

LEMMA NextCellsInv ==
  TypeInv /\ GroupInv /\ SummaryInv /\ CellsInv /\ [Next]_vars => CellsInv'
  <1> SUFFICES ASSUME TypeInv, GroupInv, SummaryInv, CellsInv, [Next]_vars
               PROVE  CellsInv'
    OBVIOUS
  <1>1. CASE UNCHANGED <<dm, input, closed, ctab>>
    BY <1>1, CellsUnchanged
  <1>2. CASE ReadLine /\ ClosesGroup(NextLine)
    <2>1. /\ EmitGroup /\ GroupError = "ok" /\ status = "reading"
          /\ UNCHANGED <<dm, input>>
      BY <1>2 DEF ReadLine, Reading, GroupFails
    <2> QED BY <2>1, EmitCells
  <1>3. CASE Finish /\ GroupError = "ok"
    <2>1. EmitGroup /\ status = "reading" /\ UNCHANGED <<dm, input>>
      BY <1>3 DEF Finish
    <2> QED BY <1>3, <2>1, EmitCells
  <1>4. \/ UNCHANGED <<dm, input, closed, ctab>>
        \/ ReadLine /\ ClosesGroup(NextLine)
        \/ Finish /\ GroupError = "ok"
    BY DEF Next, vars, Start, Die, ReadLine, Finish
  <1> QED BY <1>1, <1>2, <1>3, <1>4

LEMMA CellsInvHolds == Spec => [](TypeInv /\ CellsInv)
  <1>1. Init => CellsInv
    BY InitCellsInv
  <1>2. TypeInv /\ GroupInv /\ SummaryInv /\ CellsInv /\ [Next]_vars => CellsInv'
    BY NextCellsInv
  <1> QED BY <1>1, <1>2, SummaryInvHolds, PTL DEF Spec

(* The rows, or the columns, of the table are the names, in order.         *)
LEMMA NamesAre ==
  ASSUME TypeInv, dm.mode = "crosstab", NEW i \in 1 .. 2,
         NEW shown \in [DOMAIN closed -> 1 .. Len(input)], CellsShown(shown)
  PROVE  /\ Range(Names(i)) = {NameShown(shown, k, i) : k \in DOMAIN closed}
         /\ \A m, n \in DOMAIN Names(i) :
              m < n => Rank[Names(i)[m]] < Rank[Names(i)[n]]
PROOF
  <1> DEFINE S == {c[i] : c \in DOMAIN ctab}
             N == {NameShown(shown, k, i) : k \in DOMAIN closed}
             s == Names(i)
  <1>1. \A k \in DOMAIN closed : CellShown(shown, k)[i] = NameShown(shown, k, i)
    BY DEF CellShown, Cell, NameShown
  <1>2. S = N
    <2>1. DOMAIN ctab = {CellShown(shown, k) : k \in DOMAIN closed}
      BY DEF CellsShown
    <2> QED BY <1>1, <2>1
  <1>3. \A k \in DOMAIN closed :
          \E t \in Text : NameShown(shown, k, i) = Cut[t]
    <2> TAKE k \in DOMAIN closed
    <2>1. shown[k] \in 1 .. Len(input) /\ HasKeys(input[shown[k]])
      BY DEF CellsShown
    <2>2. i \in DOMAIN dm.grps
      <3>1. ValidJob(dm) /\ dm.grps \in Seq(Nat \ {0})
        BY GroupByAssumption, JobFacts DEF TypeInv, TypeOK
      <3>2. Len(dm.grps) = 2
        BY <3>1 DEF ValidJob
      <3> QED BY <3>1, <3>2
    <2>3. dm.grps[i] \in DOMAIN input[shown[k]]
      BY <2>1, <2>2 DEF HasKeys, Has
    <2>4. input[shown[k]][dm.grps[i]] \in Text
      BY <2>1, <2>3, InputFacts DEF TypeInv, TypeOK
    <2> QED BY <2>4 DEF NameShown
  <1>4. \A t \in N : Rank[t] \in Nat
    BY <1>3, GroupByAssumption
  <1>5. \A t, u \in N : Rank[t] = Rank[u] => t = u
    BY <1>3, GroupByAssumption
  <1>6. IsFiniteSet(N)
    <2>1. IsFiniteSet(DOMAIN closed)
      <3>1. closed \in Seq(1 .. pos)
        BY DEF TypeInv, TypeOK
      <3>2. DOMAIN closed = 1 .. Len(closed) /\ Len(closed) \in Nat
        BY <3>1
      <3> QED BY <3>2, FS_Interval
    <2> DEFINE f == [k \in DOMAIN closed |-> NameShown(shown, k, i)]
    <2>2. f \in Surjection(DOMAIN closed, N)
      <3>1. f \in [DOMAIN closed -> N] /\ \A t \in N : \E k \in DOMAIN closed : f[k] = t
        OBVIOUS
      <3> HIDE DEF f, N
      <3> QED BY <3>1 DEF Surjection
    <2> HIDE DEF f, N
    <2> QED BY <2>1, <2>2, FS_Surjection
  <1> HIDE DEF N
  <1>7. \E r \in SetToSeqs(N) : \A m, n \in DOMAIN r : m < n => Rank[r[m]] < Rank[r[n]]
    BY <1>4, <1>5, <1>6, NamesInOrder
  <1>8. s = CHOOSE r \in SetToSeqs(N) :
              \A m, n \in DOMAIN r : m < n => Rank[r[m]] < Rank[r[n]]
    BY <1>2 DEF Names
  <1> HIDE DEF s
  <1>9. /\ s \in SetToSeqs(N)
        /\ \A m, n \in DOMAIN s : m < n => Rank[s[m]] < Rank[s[n]]
    BY <1>7, <1>8, Zenon
  <1>10. Range(s) = N
    <2> DEFINE c == Cardinality(N)
    <2>1. s \in [1 .. c -> N] /\ \A m, n \in 1 .. c : m # n => s[m] # s[n]
      BY <1>9 DEF SetToSeqs
    <2>2. c \in Nat
      BY <1>6, FS_CardinalityType
    <2>3. s \in Injection(1 .. c, N)
      BY <2>1 DEF Injection, IsInjective
    <2>4. IsFiniteSet(1 .. c) /\ Cardinality(1 .. c) = c
      <3>1. Cardinality(1 .. c) = IF 1 > c THEN 0 ELSE c - 1 + 1
        BY <2>2, FS_Interval
      <3> HIDE DEF c
      <3> QED BY <2>2, <3>1, FS_Interval
    <2> HIDE DEF c
    <2>5. s \in Surjection(1 .. c, N)
      BY <1>6, <2>3, <2>4, FS_Injection DEF c
    <2> QED BY <2>1, <2>5 DEF Surjection, Range
  <1> QED BY <1>9, <1>10 DEF s, N

LEMMA CellsShowTable ==
  ASSUME TypeInv, dm.mode = "crosstab",
         NEW shown \in [DOMAIN closed -> 1 .. Len(input)], CellsShown(shown)
  PROVE  TableShows(shown)
PROOF
  <1> DEFINE rows    == Names(1)
             columns == Names(2)
             table   == PrintedTable
             Right(v, r, c) ==
               LET runs == RunsNamed(shown, r, c)
               IN  IF runs = {} THEN v = <<"filler">>
                   ELSE v \in Summary!OpValues(1, GroupStart(Min(runs))
                                                    .. closed[Min(runs)])
  <1>1. /\ table.rows = rows /\ table.columns = columns
        /\ \A r \in DOMAIN rows, c \in DOMAIN columns :
             table.cells[r][c] = PrintedCell(rows[r], columns[c])
    <2>1. /\ table.rows = rows /\ table.columns = columns
          /\ table.cells = [r \in DOMAIN rows |-> [c \in DOMAIN columns |->
                              PrintedCell(rows[r], columns[c])]]
      BY DEF PrintedTable
    <2> HIDE DEF table, rows, columns
    <2> QED BY <2>1
  <1>2. /\ Range(rows) = {NameShown(shown, k, 1) : k \in DOMAIN closed}
        /\ Range(columns) = {NameShown(shown, k, 2) : k \in DOMAIN closed}
        /\ \A m, n \in DOMAIN rows : m < n => Rank[rows[m]] < Rank[rows[n]]
        /\ \A m, n \in DOMAIN columns : m < n => Rank[columns[m]] < Rank[columns[n]]
    BY NamesAre
  <1> HIDE DEF rows, columns, table
  <1>3. ASSUME NEW r, NEW c
        PROVE  Right(PrintedCell(r, c), r, c)
    <2> DEFINE runs == RunsNamed(shown, r, c)
               m    == Min(runs)
    <2>1. \A k : CellShown(shown, k) = <<NameShown(shown, k, 1), NameShown(shown, k, 2)>>
      BY DEF CellShown, Cell, NameShown
    <2>2. \A k : k \in runs <=> k \in DOMAIN closed /\ CellShown(shown, k) = <<r, c>>
      BY <2>1 DEF RunsNamed
    <2>3. CASE runs = {}
      <3>1. <<r, c>> \notin DOMAIN ctab
        BY <2>2, <2>3 DEF CellsShown
      <3> QED BY <2>3, <3>1 DEF PrintedCell
    <2>4. CASE runs # {}
      <3>1. DOMAIN closed \subseteq Nat
        BY DEF TypeInv, TypeOK
      <3> HIDE DEF runs
      <3>2. runs \in SUBSET Nat
        BY <2>2, <3>1
      <3>3. m \in runs /\ \A k \in runs : m <= k
        BY <2>4, <3>2, LeastNumber DEF Min
      <3> HIDE DEF m
      <3>4. m \in DOMAIN closed /\ CellShown(shown, m) = <<r, c>>
        BY <2>2, <3>3
      <3>5. /\ <<r, c>> \in DOMAIN ctab
            /\ ctab[<<r, c>>] \in Summary!OpValues(1, GroupStart(m) .. closed[m])
        <4>1. \A j \in DOMAIN closed :
                CellShown(shown, j) = CellShown(shown, m) => m <= j
          BY <2>2, <3>3, <3>4
        <4>2. ctab[CellShown(shown, m)]
                \in Summary!OpValues(1, GroupStart(m) .. closed[m])
          BY <3>4, <4>1 DEF CellsShown
        <4>3. CellShown(shown, m) \in DOMAIN ctab
          BY <3>4 DEF CellsShown
        <4> QED BY <3>4, <4>2, <4>3
      <3>6. PrintedCell(r, c) \in Summary!OpValues(1, GroupStart(m) .. closed[m])
        BY <3>5 DEF PrintedCell
      <3> QED BY <2>4, <3>6 DEF runs, m
    <2> QED BY <2>3, <2>4
  <1>4. \A r \in DOMAIN rows, c \in DOMAIN columns :
          Right(table.cells[r][c], rows[r], columns[c])
    <2> TAKE r \in DOMAIN rows, c \in DOMAIN columns
    <2>1. table.cells[r][c] = PrintedCell(rows[r], columns[c])
      BY <1>1
    <2>2. Right(PrintedCell(rows[r], columns[c]), rows[r], columns[c])
      BY <1>3
    <2> HIDE DEF Right
    <2> QED BY <2>1, <2>2
  <1>5. TableShows(shown) <=>
          /\ \A m, n \in DOMAIN rows : m < n => Rank[rows[m]] < Rank[rows[n]]
          /\ \A m, n \in DOMAIN columns : m < n => Rank[columns[m]] < Rank[columns[n]]
          /\ Range(rows) = {NameShown(shown, k, 1) : k \in DOMAIN closed}
          /\ Range(columns) = {NameShown(shown, k, 2) : k \in DOMAIN closed}
          /\ \A r \in DOMAIN rows, c \in DOMAIN columns :
               Right(table.cells[r][c], rows[r], columns[c])
    BY <1>1, ZenonT(40) DEF TableShows, table
  <1> QED BY <1>2, <1>4, <1>5

(* The table of crosstab has the names of the groups in order, each once,  *)
(* and in every cell the value of the first group with its names.          *)
THEOREM TableHoldsTheGroups == Spec => []TableIsRight
  <1>1. TypeInv /\ CellsInv => TableIsRight
    <2> SUFFICES ASSUME TypeInv, CellsInv, dm.mode = "crosstab"
                 PROVE  TableIsRight
      BY DEF TableIsRight
    <2>1. PICK shown \in [DOMAIN closed -> 1 .. Len(input)] : CellsShown(shown)
      BY DEF CellsInv
    <2>2. TableShows(shown)
      BY <2>1, CellsShowTable
    <2>3. \A k \in DOMAIN closed : shown[k] \in GroupStart(k) .. closed[k]
      BY <2>1 DEF CellsShown
    <2> QED BY <2>2, <2>3 DEF TableIsRight
  <1> QED BY <1>1, CellsInvHolds, PTL
=============================================================================
