----------------------------- MODULE OpBuffers ------------------------------
(***************************************************************************)
(* The memory of one field operation (field-ops.c): the buffer of its      *)
(* strings, the vector of its numbers and the buffer of its result, which  *)
(* are kept and grow from group to group.  FieldOps says what an operation *)
(* computes and forgets how it is stored; here the strings are bytes with  *)
(* a NUL after each, and every call says how far it reached into each      *)
(* buffer.                                                                 *)
(*                                                                         *)
(* A byte is a number, NUL is 0; a string of the input may hold NUL.       *)
(***************************************************************************)
EXTENDS Integers, Sequences, SequencesExt, FiniteSets

CONSTANTS Batch,      \* VALUES_BATCH_INCREMENT
          OutInit,    \* the result buffer field_op_init allocates
          NumSize,    \* numeric_output_bufsize
          Digest,     \* the bytes of a digest
          Sep,        \* collapse_separator
          Fold,       \* Fold[c]: the byte strcasecmp compares for c
          Inputs,     \* the strings an operation may be given
          MaxGroup    \* bound: the values of one group

NUL == 0

Paths    == {"dirname", "basename", "extname", "barename"}
Latest   == Paths \cup {"last", "base64", "digest"}
Lists    == {"unique", "countunique", "collapse"}
Vectors  == {"median", "softmax"}
Operation == Latest \cup Lists \cup Vectors \cup {"sum", "debase64"}

StringResult == (Operation \ {"median", "sum", "countunique"})

ASSUME OpBuffersAssumption ==
  /\ Batch \in Nat \ {0} /\ OutInit \in Nat /\ OutInit >= 2
  /\ NumSize \in Nat \ {0} /\ Digest \in Nat /\ MaxGroup \in Nat
  /\ Inputs \subseteq Seq(Nat)
  /\ \A str \in Inputs : \A i \in DOMAIN str : Fold[str[i]] \in Nat

VARIABLES
  op,             \* the operation, and case_sensitive
  case_sensitive,
  count,          \* the values collected for the group
  strs,           \* (history) the strings collected for the group
  str_buf,        \* the part of str_buf in use; its length is str_buf_used
  str_buf_alloc,
  num_values, alloc_values,
  out_buf,        \* what is printed of out_buf
  out_buf_alloc,
  touched,        \* how many cells the last call needs of each buffer
  phase           \* "collect", or "print" after field_op_summarize

vars == <<op, case_sensitive, count, strs, str_buf, str_buf_alloc, num_values,
          alloc_values, out_buf, out_buf_alloc, touched, phase>>

Largest(m, n) == IF m >= n THEN m ELSE n

-----------------------------------------------------------------------------
(* field_op_collect                                                        *)

GrownByBatch(used, len) ==                \* mutant: for any length
  IF used + len + 1 >= str_buf_alloc THEN str_buf_alloc + Batch
  ELSE str_buf_alloc

(* str_buf_alloc after room was made for a string of length len behind     *)
(* used cells (field_op_add_string, field_op_replace_string).              *)
Grown(used, len) ==
  IF used + len + 1 >= str_buf_alloc
  THEN str_buf_alloc + Largest(Batch, len + 1) ELSE str_buf_alloc

Store(kept, str) ==
  /\ str_buf_alloc' = Grown(Len(kept), Len(str))
  /\ str_buf' = Append(kept \o str, NUL)
  /\ touched' = [str |-> Len(kept) + Len(str) + 1, val |-> 0, out |-> 0]

AddString(str)     == op \in Lists /\ Store(str_buf, str)
ReplaceString(str) == op \in Latest /\ Store(<< >>, str)

AddValue ==
  /\ op \in Vectors
  /\ alloc_values' = IF num_values >= alloc_values THEN alloc_values + Batch
                     ELSE alloc_values
  /\ num_values' = num_values + 1
  /\ touched' = [str |-> 0, val |-> num_values + 1, out |-> 0]

ReservedLess(minsize) ==                  \* mutant: no room for the NUL
  Largest(out_buf_alloc, minsize - 1)

Reserved(minsize) == Largest(out_buf_alloc, minsize)

(* Four bytes of base64 become at most three, or it is refused.            *)
Decode(str) ==
  /\ op = "debase64"
  /\ out_buf_alloc' = Reserved(Len(str))
  /\ out_buf' \in {SubSeq(str, 1, n) :
                     n \in {n \in 0 .. Len(str) : 4 * n <= 3 * Len(str)}}
  /\ touched' = [str |-> 0, val |-> 0, out |-> Len(out_buf') + 1]

Collect(str) ==
  /\ phase = "collect" /\ count < MaxGroup
  /\ count' = count + 1
  /\ strs' = Append(strs, str)
  /\ \/ /\ AddString(str) \/ ReplaceString(str)
        /\ UNCHANGED <<num_values, alloc_values, out_buf, out_buf_alloc>>
     \/ /\ AddValue
        /\ UNCHANGED <<str_buf, str_buf_alloc, out_buf, out_buf_alloc>>
     \/ /\ Decode(str)
        /\ UNCHANGED <<str_buf, str_buf_alloc, num_values, alloc_values>>
     \/ /\ op = "sum"
        /\ touched' = [str |-> 0, val |-> 0, out |-> 0]
        /\ UNCHANGED <<str_buf, str_buf_alloc, num_values, alloc_values, out_buf,
                       out_buf_alloc>>
  /\ UNCHANGED <<op, case_sensitive, phase>>

-----------------------------------------------------------------------------
(* The strings of the buffer                                               *)

NulsBefore(p) == Cardinality({q \in 1 .. p - 1 : str_buf[q] = NUL})

(* field_op_get_string_ptrs: the first count strings, each from a pointer  *)
(* to the next NUL.                                                        *)
StringPtrs ==
  LET nul(k) == CHOOSE p \in DOMAIN str_buf :
                  str_buf[p] = NUL /\ NulsBefore(p) = k - 1
  IN  [k \in 1 .. count |->
         SubSeq(str_buf, IF k = 1 THEN 1 ELSE nul(k - 1) + 1, nul(k) - 1)]

Shown(s) == IF case_sensitive THEN s ELSE [i \in DOMAIN s |-> Fold[s[i]]]

(* strcmp and strcasecmp                                                   *)
AtMost(s, t) ==
  \/ IsPrefix(Shown(s), Shown(t))
  \/ \E i \in DOMAIN s \cap DOMAIN t :
       /\ Shown(s)[i] < Shown(t)[i]
       /\ \A j \in 1 .. i - 1 : Shown(s)[j] = Shown(t)[j]

(* What qsort may make of a sequence: strings that compare equal come in   *)
(* any order.                                                              *)
SortedFrom(s) ==
  {r \in {[i \in DOMAIN s |-> s[p[i]]] :
            p \in {p \in [DOMAIN s -> DOMAIN s] : IsInjective(p)}} :
     \A i \in 1 .. Len(s) - 1 : AtMost(r[i], r[i + 1])}

IsNewByFirst(s, i) ==                     \* mutant: last_str is not moved
  i = 1 \/ Shown(s[i]) # Shown(s[1])

IsNew(s, i) == i = 1 \/ Shown(s[i]) # Shown(s[i - 1])

UniqueValues(s) ==
  FlattenSeq([i \in DOMAIN s |->
                IF ~IsNew(s, i) THEN << >>
                ELSE IF i = 1 THEN s[i] ELSE <<Sep>> \o s[i]])

CollapsedValues ==
  [i \in 1 .. Len(str_buf) - 1 |-> IF str_buf[i] = NUL THEN Sep ELSE str_buf[i]]

(* What is printed of a result is what comes before its first NUL.         *)
CString(s) ==
  IF \E i \in DOMAIN s : s[i] = NUL
  THEN SubSeq(s, 1, CHOOSE n \in 0 .. Len(s) - 1 :
                      s[n + 1] = NUL /\ \A i \in 1 .. n : s[i] # NUL)
  ELSE s

-----------------------------------------------------------------------------
(* field_op_summarize: the result, out_buf and how far each buffer is read *)
(* and written.                                                            *)

Result(out, minsize, reads, writes) ==
  /\ out_buf' = out
  /\ out_buf_alloc' = Reserved(minsize)
  /\ touched' = [str |-> reads, val |-> num_values, out |-> writes]

Used == Len(str_buf)

(* The format never prints more than NumSize - 1 bytes; the number is left *)
(* out, except for countunique.                                            *)
PrintNumber(n) == Result(<<n>>, NumSize, Used, NumSize)

(* Nothing is stored for softmax: what out_buf held is printed.            *)
SummarizeEmpty ==
  /\ count = 0
  /\ \/ op \in StringResult \ {"softmax", "last"} /\ Result(<< >>, 1, 0, 1)
     \/ op = "last" /\ Result(<<78, 47, 65>>, 4, 0, 4)
     \/ op = "softmax" /\ Result(out_buf, 0, 0, 0)
     \/ op \notin StringResult /\ PrintNumber(0)

SummarizeLast ==
  op = "last" /\ Result(CString(str_buf), Used, Used, Used)

SummarizeLists ==
  \/ /\ op = "unique"
     /\ \E s \in SortedFrom(StringPtrs) :
          Result(UniqueValues(s), Used, Used, Len(UniqueValues(s)) + 1)
  \/ /\ op = "countunique"
     /\ \E s \in SortedFrom(StringPtrs) :
          PrintNumber(Cardinality({i \in DOMAIN s : IsNew(s, i)}))
  \/ op = "collapse" /\ Result(CollapsedValues, Used, Used, Used)

(* A digest is stored as hexadecimal, three bytes as four.                 *)
SummarizeEncoded ==
  \/ op = "digest" /\ Result(<< >>, 2 * Digest + 1, Used - 1, 2 * Digest + 1)
  \/ /\ op = "base64"
     /\ LET len == 4 * ((Used - 1 + 2) \div 3)
        IN Result(<< >>, len + 1, Used - 1, len + 1)

(* dirname and basename return part of the string, "." or "/"; the library *)
(* may write behind the string, where the code has put one more NUL.       *)
PartsOf(s) == {<<46>>, <<47>>} \cup SubSeqs(CString(s))

SummarizeDirname ==
  /\ op = "dirname"
  /\ \E t \in PartsOf(str_buf) :
       Result(t, Used, Used + 1, Len(t) + 1)

(* len is what guess_file_extension returns; the result is the name, the   *)
(* len - 1 bytes of its extension or what is before them.                  *)
SummarizeBasename ==
  /\ op \in {"basename", "extname", "barename"}
  /\ IF Used = 1 THEN Result(<< >>, 1, 1, 1)
     ELSE \E t \in PartsOf(str_buf) :
          \E len \in 0 .. Len(t) :
            LET name == SubSeq(t, 1, Len(t) - len)
                ext  == SubSeq(t, Len(t) - len + 2, Len(t))
                out  == CASE op = "basename" -> t
                          [] op = "extname"  -> ext
                          [] op = "barename" -> name
            IN  Result(out, Used, Used + 1, Len(out) + 1)

(* softmax clears all it reserves; then every number is printed into       *)
(* NumSize bytes and joined with a newline to the one before.              *)
SummarizeNumbers ==
  \/ op \in {"median", "sum"} /\ PrintNumber(0)
  \/ LET cleared == (NumSize + 1) * num_values - 1
         printed == NumSize * num_values
     IN  /\ op = "softmax"
         /\ Result(<< >>, cleared, 0, Largest(cleared, printed))

Summarize ==
  /\ phase = "collect"
  /\ IF count = 0 THEN SummarizeEmpty
     ELSE \/ SummarizeLast
          \/ SummarizeLists
          \/ SummarizeEncoded
          \/ SummarizeDirname
          \/ SummarizeBasename
          \/ SummarizeNumbers
          \/ /\ op = "debase64"
             /\ touched' = [str |-> 0, val |-> 0, out |-> 0]
             /\ UNCHANGED <<out_buf, out_buf_alloc>>
  /\ phase' = "print"
  /\ UNCHANGED <<op, case_sensitive, count, strs, str_buf, str_buf_alloc,
                 num_values, alloc_values>>

(* field_op_reset: the buffers keep their size.                            *)
Reset ==
  /\ phase = "print"
  /\ count' = 0 /\ strs' = << >> /\ str_buf' = << >> /\ num_values' = 0
  /\ touched' = [str |-> 0, val |-> 0, out |-> 0]
  /\ phase' = "collect"
  /\ UNCHANGED <<op, case_sensitive, str_buf_alloc, alloc_values, out_buf,
                 out_buf_alloc>>

(* field_op_init                                                           *)
Init ==
  /\ op \in Operation /\ case_sensitive \in BOOLEAN
  /\ count = 0 /\ strs = << >>
  /\ str_buf = << >> /\ str_buf_alloc = 0
  /\ num_values = 0 /\ alloc_values = 0
  /\ out_buf = << >>
  /\ out_buf_alloc = IF op \in StringResult THEN OutInit ELSE 0
  /\ touched = [str |-> 0, val |-> 0, out |-> 0]
  /\ phase = "collect"

Next == (\E str \in Inputs : Collect(str)) \/ Summarize \/ Reset

Spec == Init /\ [][Next]_vars

-----------------------------------------------------------------------------
TypeOK ==
  /\ op \in Operation /\ case_sensitive \in BOOLEAN
  /\ phase \in {"collect", "print"}
  /\ count \in Nat /\ num_values \in Nat
  /\ strs \in Seq(Seq(Nat)) /\ str_buf \in Seq(Nat)
  /\ str_buf_alloc \in Nat /\ alloc_values \in Nat
  /\ touched.str \in Nat /\ touched.val \in Nat

(* No call reaches past the buffer of the strings or the vector of the     *)
(* numbers, though they are kept from group to group and have grown for    *)
(* other values.  The NUL put behind the whole of a file name is the one   *)
(* exception: a name of Batch - 1 bytes or more may fill the buffer.       *)
(* (field_op_add_string, field_op_replace_string, field_op_add_value,      *)
(* field_op_summarize)                                                     *)
BuffersHold ==
  /\ touched.str <= str_buf_alloc
                     + IF op \in Paths /\ Used >= Batch THEN 1 ELSE 0
  /\ touched.val <= alloc_values

(* The result fits into out_buf, which each operation reserves before it   *)
(* knows what it writes: the list of the different strings with its        *)
(* separators, the joined numbers of softmax, decoded text, digests.       *)
ResultInBounds == touched.out <= out_buf_alloc

Joined(s) ==
  FlattenSeq([i \in DOMAIN s |-> IF i = 1 THEN s[i] ELSE <<Sep>> \o s[i]])

(* From the bytes of the buffer the lists come out as collected: all       *)
(* strings in their order, the different ones in ascending order, their    *)
(* number; where a string holds no NUL.                                    *)
ListsAreRight ==
  phase = "print" /\ count > 0 /\ (\A s \in Range(strs) : NUL \notin Range(s)) =>
    LET different == {Shown(s) : s \in Range(strs)}
        n == Cardinality(different)
    IN  /\ op = "collapse" => out_buf = Joined(strs)
        /\ op = "countunique" => out_buf = <<n>>
        /\ op = "unique" =>
             \E s \in [1 .. n -> Range(strs)] :
               /\ {Shown(s[i]) : i \in 1 .. n} = different
               /\ \A i \in 1 .. n - 1 : AtMost(s[i], s[i + 1])
               /\ out_buf = Joined(s)
=============================================================================
