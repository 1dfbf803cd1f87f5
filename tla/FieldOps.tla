------------------------------ MODULE FieldOps ------------------------------
(***************************************************************************)
(* One field operation (struct fieldop of field-ops.h): the accumulator    *)
(* that collects the values of one group and is summarised and reset when  *)
(* the group ends.  This module holds the transition functions only; the   *)
(* state machine that calls them is GroupBy.                               *)
(*                                                                         *)
(* The operations are represented by one member of each way field-ops.c    *)
(* accumulates: "sum" and "count" add into value, "mean" divides it by     *)
(* count, the extremal operations compare, "range" keeps two numbers,      *)
(* "median" stands for every operation that stores its numbers and leaves  *)
(* the statistics to utils.c, "pcov" for the operations on pairs, "round"  *)
(* for the per-line numeric operations, "md5" for the per-line string      *)
(* operations, "unique", "countunique" and "collapse" store strings.       *)
(* Numbers are integers; division, statistics and digests are left         *)
(* symbolic in the result.                                                 *)
(***************************************************************************)
EXTENDS Integers, Sequences, FiniteSets

CONSTANTS Text,       \* the field contents that may occur
          NA,         \* the texts is_na() accepts
          Number,     \* strtold: a function from the numeric texts to Int
          Base64,     \* the texts base64_decode() accepts
          Fold        \* the case-folded form of each text

ASSUME FieldOpsAssumption ==
  /\ NA \subseteq Text
  /\ Base64 \subseteq Text
  /\ DOMAIN Number \subseteq Text
  /\ Number \in [DOMAIN Number -> Int]
  /\ Fold \in [Text -> Text]

-----------------------------------------------------------------------------
(* The table operations[], by accumulation.                                *)

Extremal == {"min", "max", "absmin", "absmax"}          \* AUTO_SET_FIRST
Stored   == {"median", "softmax", "pcov"}               \* values vector
Numeric  == Extremal \cup Stored \cup {"sum", "mean", "range", "round"}
Strings  == {"unique", "countunique", "collapse"}       \* string vector
Latest   == {"last", "md5"}                             \* replace_string
OpName   == Numeric \cup Strings \cup Latest
              \cup {"count", "first", "rand", "debase64"}

(* The part of struct fieldop that changes while a group is collected.     *)
(* strs is the string buffer, one entry for each NUL-terminated string.    *)
OpState == [first  : BOOLEAN,
            count  : Nat,
            value  : Int,
            values : Seq(Int),
            strs   : Seq(Text)]

(* What the accumulator of an operation must hold for field_op_summarize to *)
(* read only what was collected: values[0] and values[1], as many strings  *)
(* as field_op_get_string_ptrs looks for, the one string kept.             *)
Ready(o, s) ==
  /\ s.first <=> s.count = 0
  /\ o = "range" /\ s.count > 0 => Len(s.values) = 2
  /\ o \in Stored => Len(s.values) = s.count
  /\ o \in Strings => Len(s.strs) = s.count
  /\ o \in Latest \cup {"first", "rand", "debase64"} /\ s.count > 0 =>
       Len(s.strs) = 1

(* field_op_reset, and what field_op_init leaves.                          *)
ResetOp == [first |-> TRUE, count |-> 0, value |-> 0,
            values |-> << >>, strs |-> << >>]

-----------------------------------------------------------------------------
(* field_op_collect                                                        *)

Skipped(narm, t) == narm /\ t \in NA

Invalid(o, t) ==
  \/ o \in Numeric /\ t \notin DOMAIN Number
  \/ o = "debase64" /\ t \notin Base64

Abs(n) == IF n < 0 THEN -n ELSE n

CurrentFromZero(o, s, v) == s.value       \* mutant: auto_first ignored

(* The number an extremal operation compares with: the first number of a   *)
(* group is stored before it is compared.  softmax is not AUTO_SET_FIRST.  *)
Current(o, s, v) == IF s.first /\ o \in Extremal THEN v ELSE s.value

Improves(o, v, cur) ==
  \/ o = "min" /\ v < cur
  \/ o \in {"max", "softmax"} /\ v > cur
  \/ o = "absmin" /\ Abs(v) < Abs(cur)
  \/ o = "absmax" /\ Abs(v) > Abs(cur)

CollectedValue(o, s, v) ==
  CASE o \in {"sum", "mean"} -> s.value + v
    [] o = "count"           -> s.value + 1
    [] o = "round"           -> v
    [] o \in Extremal \cup {"softmax"} ->
         IF Improves(o, v, Current(o, s, v)) THEN v ELSE Current(o, s, v)
    [] OTHER                 -> s.value

CollectedValues(o, s, v) ==
  CASE o \in Stored  -> Append(s.values, v)
    [] o = "range"   ->
         IF s.first THEN <<v, v>>
         ELSE << IF v < s.values[1] THEN v ELSE s.values[1],
                 IF v > s.values[2] THEN v ELSE s.values[2] >>
    [] OTHER         -> s.values

CollectedStrsAdding(o, s, t, pick) ==     \* mutant: add_string everywhere
  IF o \in Strings \cup Latest \cup {"first", "rand", "debase64"}
  THEN Append(s.strs, t) ELSE s.strs

CollectedStrs(o, s, t, pick) ==
  CASE o \in Strings                           -> Append(s.strs, t)
    [] o \in Latest \cup {"debase64"}          -> <<t>>
    [] o = "first" /\ s.first                  -> <<t>>
    [] o = "rand" /\ (s.first \/ pick)         -> <<t>>
    [] OTHER                                   -> s.strs

(* The accumulator after a text that is neither skipped nor invalid.       *)
(* pick says whether random () % count was 0 ("rand" only).                *)
CollectOp(o, s, t, pick) ==
  LET v == IF o \in Numeric THEN Number[t] ELSE 0
  IN  [first  |-> FALSE,
       count  |-> s.count + 1,
       value  |-> CollectedValue(o, s, v),
       values |-> CollectedValues(o, s, v),
       strs   |-> CollectedStrs(o, s, t, pick)]

KeepsLineNotLast(o, s, t, pick) ==        \* mutant: OP_LAST returns FLOCR_OK
  \/ o \in Extremal /\ Improves(o, Number[t], Current(o, s, Number[t]))
  \/ o = "first" /\ s.first
  \/ o = "rand" /\ (s.first \/ pick)

(* FLOCR_OK_KEEP_LINE: the line becomes the one that stands for the group. *)
KeepsLine(o, s, t, pick) ==
  \/ o \in Extremal \cup {"softmax"}
       /\ Improves(o, Number[t], Current(o, s, Number[t]))
  \/ o = "first" /\ s.first
  \/ o = "last"
  \/ o = "rand" /\ (s.first \/ pick)

-----------------------------------------------------------------------------
(* field_op_summarize.  A result is a tagged tuple.                        *)

(* field_op_summarize_empty: no value was collected (--narm).  For softmax *)
(* it stores nothing, and what the buffer held is printed.                 *)
EmptyResult(o) ==
  CASE o \in {"sum", "count", "countunique"} -> <<"number", 0>>
    [] o \in {"min", "absmin"}               -> <<"-inf">>
    [] o \in {"max", "absmax"}               -> <<"inf">>
    [] o \in {"first", "last", "rand"}       -> <<"N/A">>
    [] o \in {"unique", "collapse", "md5", "debase64"} -> <<"">>
    [] o = "softmax"                         -> <<"unset">>
    [] OTHER                                 -> <<"nan">>

Folded(case_sensitive, t) == IF case_sensitive THEN t ELSE Fold[t]

Distinct(case_sensitive, strs) ==
  {Folded(case_sensitive, strs[i]) : i \in DOMAIN strs}

(* s is the primary operation; sub the values of its subordinate.          *)
SummarizeOp(o, s, sub, case_sensitive) ==
  CASE s.count = 0               -> EmptyResult(o)
    [] s.count > 0 /\ o \in Extremal \cup {"sum", "count", "round"}
                                 -> <<"number", s.value>>
    [] s.count > 0 /\ o = "mean" -> <<"mean", s.value, s.count>>
    [] s.count > 0 /\ o = "range" -> <<"number", s.values[2] - s.values[1]>>
    [] s.count > 0 /\ o = "median" -> <<"stat", s.values>>
    [] s.count > 0 /\ o = "softmax" -> <<"softmax", s.values, s.value>>
    [] s.count > 0 /\ o = "pcov"   -> <<"pairs", s.values, sub>>
    [] s.count > 0 /\ o \in {"first", "last", "rand"}
                                 -> <<"string", s.strs[1]>>
    [] s.count > 0 /\ o = "md5"      -> <<"md5", s.strs[1]>>
    [] s.count > 0 /\ o = "debase64" -> <<"decoded", s.strs[1]>>
    [] s.count > 0 /\ o = "unique" -> <<"set", Distinct(case_sensitive, s.strs)>>
    [] s.count > 0 /\ o = "countunique"
         -> <<"number", Cardinality(Distinct(case_sensitive, s.strs))>>
    [] s.count > 0 /\ o = "collapse" -> <<"list", s.strs>>

(* verify_subordinate_num_values fails; not called for an empty operation. *)
PairMismatch(o, s, sub) ==
  o = "pcov" /\ s.count > 0 /\ Len(s.values) # Len(sub)
=============================================================================
