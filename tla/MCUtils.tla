------------------------------ MODULE MCUtils -------------------------------
(* One call of a function for every argument within the bounds: groups of  *)
(* up to MaxValues numbers, pairs of groups up to MaxPairs, texts of up to *)
(* MaxText characters, the roman numerals up to MaxRoman, command lines of *)
(* up to MaxOptions options.                                               *)
EXTENDS Statistics, Options

CONSTANTS MaxValues, MaxPairs, MaxText, MaxField, MaxRoman, MaxOptions

VARIABLES fn, arg, called

utils_vars == <<fn, arg, called>>

Texts(chars, n) == UNION {[1 .. k -> chars] : k \in 0 .. n}

Groups(numbers, n) == UNION {[1 .. k -> numbers] : k \in 1 .. n}

MCAddOn == {<<".", "g", "z">>, <<".", "x">>}

FieldChars == {"-", "1", "9", "a", ".", "k"}

With(name, s)     == [name |-> name, arg |-> s, num |-> 0]
Plain(name)       == With(name, << >>)
Numbered(name, n) == [name |-> name, arg |-> << >>, num |-> n]

MCOptions ==
  {Plain(n) : n \in {"skip-comments", "full", "group", "ignore-case", "vnlog",
     "zero-terminated", "header-in", "header-out", "headers", "sort", "no-strict",
     "narm", "whitespace", "seed"}}
    \cup {With("field-separator", s) : s \in {<<" ">>, <<":">>, << >>}}
    \cup {With("output-delimiter", s) : s \in {<<" ">>, <<":", ":">>}}
    \cup {With("filler", s) : s \in {<<"-">>, <<"x">>}}
    \cup {Numbered("round", 2), Numbered("round", 51), Numbered("S", -1),
           Numbered("S", 3), With("collapse-delimiter", <<";">>),
           With("format", <<"%", "f">>)}

MCOperations ==
  {[present |-> TRUE, header_required |-> h, num_grps |-> n] :
     h \in BOOLEAN, n \in 0 .. 1}
    \cup {[present |-> FALSE, header_required |-> FALSE, num_grps |-> 0]}

UtilsInit ==
  /\ called = FALSE
  /\ \/ fn = "values" /\ arg \in Groups({-3, 0, 1, 4}, MaxValues)
     \/ /\ fn = "pairs"
        /\ \E k \in 1 .. MaxPairs :
             arg \in [1 .. k -> {-2, 0, 3}] \X [1 .. k -> {-2, 0, 3}]
     \/ fn = "extension" /\ arg \in Texts({"g", "z", "x", ".", "-"}, MaxText)
     \/ /\ fn = "number"
        /\ \E buf \in {<< >>, <<"9", "9", "9", "9", "9", "9", "">>},
              field \in Texts(FieldChars, MaxField), type \in DOMAIN Types :
             arg = <<buf, field, type>>
     \/ fn = "format" /\ arg \in Texts({"%", "5", ".", "f", "-"}, MaxText)
     \/ fn = "roman" /\ arg \in 1 .. MaxRoman
     \/ fn = "options" /\ arg \in Texts(MCOptions, MaxOptions) \X MCOperations

Call == ~called /\ called' = TRUE /\ UNCHANGED <<fn, arg>>

UtilsNext == Call

UtilsSpec == UtilsInit /\ [][UtilsNext]_utils_vars

-----------------------------------------------------------------------------
(* Median, percentiles, deviation, mode, antimode and trimmed mean of any  *)
(* numbers are what counting says, variance and covariance what the pairs  *)
(* of numbers say, and the tests have a result exactly for enough numbers  *)
(* that differ.  (utils.c)                                                 *)
StatisticsRight ==
  called =>
    /\ fn = "values" => /\ PercentilesRight(arg) /\ MadRight(arg)
                        /\ ModeRight(arg) /\ TrimmedMeanRight(arg)
    /\ fn = "pairs" => MomentsRight(arg[1], arg[2])

(* The extension of a file name is the longest end of it that is one.      *)
ExtensionsRight == called /\ fn = "extension" => ExtensionRight(arg)

(* The number read from a field is the one that is there, whatever field   *)
(* was read before, and a roman numeral is read as its value.              *)
NumbersRight ==
  called =>
    /\ fn = "number" => NumberRight(arg[1], arg[2], arg[3])
    /\ fn = "roman" => RomanRight(arg)

(* Exactly the formats that print one number are accepted.                 *)
FormatsRight == called /\ fn = "format" => FormatRight(arg)

(* The options of a command line mean the same in any order, but for those *)
(* that set the same thing; sort and vnlog agree with them.                *)
OptionsRight == called /\ fn = "options" => OptionsMean(arg[1], arg[2])
=============================================================================
