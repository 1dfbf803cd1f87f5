--------------------------- MODULE TextFunctions ----------------------------
(***************************************************************************)
(* What the program reads out of a text: the extension of a file name and  *)
(* the number in a field (utils.c), a format for numbers (double-format.c) *)
(* and a roman numeral (decorate-functions.c), each scanned as the code    *)
(* scans it, and what the result should be, said without scanning.         *)
(*                                                                         *)
(* A text is a sequence of one-character strings.                          *)
(***************************************************************************)
EXTENDS Integers, Sequences, FiniteSets, SequencesExt, FiniteSetsExt

CONSTANTS AddOn,    \* the add-on extensions (.gz, .bz2, ...)
          MAX_NUMERIC_FORMAT_LEN

ASSUME FormatAssumption == MAX_NUMERIC_FORMAT_LEN \in Nat \ {0}

(* The first position from i on that is not in set, strspn; s ends before  *)
(* Len(s) + 1.                                                             *)
SkipSpan(s, i, set) ==
  Min({k \in i .. Len(s) + 1 : k = Len(s) + 1 \/ s[k] \notin set})

(* The character at i, "" for the NUL behind the text.                     *)
At(s, i) == IF i \in DOMAIN s THEN s[i] ELSE ""

From(s, i) == SubSeq(s, i, Len(s))

-----------------------------------------------------------------------------
(* guess_file_extension.  Positions begin with 0.                          *)

Alnum == {"g", "z", "x", "1"}

Back(s, l) ==
  CHOOSE k \in 0 .. l : /\ k = 0 \/ s[k + 1] \notin Alnum
                        /\ \A i \in k + 2 .. l + 1 : s[i] \in Alnum

(* Back from l; prev_extension, the dot of the add-on found last, is l + 1 *)
(* unless l is the end of the text.                                        *)
ExtensionFrom(s, l0) ==
  LET n == Len(s)
      scan[l \in 0 .. n - 1] ==
        LET k == Back(s, l)
        IN  IF k > 0 /\ s[k + 1] = "."
            THEN IF SubSeq(s, k + 1, l + 1) \in AddOn THEN scan[k - 1] ELSE n - k
            ELSE n - (l + 1)
  IN  scan[l0]

ExtensionOnce(s) ==                       \* mutant: one add-on only
  LET n == Len(s)
      k == IF n = 0 THEN 0 ELSE Back(s, n - 1)
  IN  IF k > 0 /\ s[k + 1] = "." THEN n - k ELSE 0

guess_file_extension(s) == IF s = << >> THEN 0 ELSE ExtensionFrom(s, Len(s) - 1)

(* From a dot, not the first character, to the end: parts that each begin  *)
(* with a dot, all but the first of them add-ons.                          *)
IsExtension(s, from) ==
  LET dots == {i \in from .. Len(s) : s[i] = "."}
      part(i) == SubSeq(s, i, Min({j - 1 : j \in {d \in dots : d > i}} \cup {Len(s)}))
  IN  /\ from \in dots /\ from > 1
      /\ \A i \in from .. Len(s) : s[i] \in Alnum \cup {"."}
      /\ \A i \in dots \ {from} : part(i) \in AddOn

(* The extension is the longest such end of the name.                      *)
ExtensionRight(s) ==
  guess_file_extension(s) =
    Max({0} \cup {Len(s) + 1 - i : i \in {i \in DOMAIN s : IsExtension(s, i)}})

-----------------------------------------------------------------------------
(* extract_number.  The buffer is static: it keeps what was put into it    *)
(* for another field.  A number is <<n, d>> for n / 10^d; one too large for*)
(* its type (0 in the code) does not occur.                                *)

Value == [c \in {"0", "1", "7", "9", "a"} |->
            CASE c = "0" -> 0 [] c = "1" -> 1 [] c = "7" -> 7 [] c = "9" -> 9
              [] c = "a" -> 10]

Digits(base) == {c \in DOMAIN Value : Value[c] < base}

Types ==
  [natural  |-> [pattern |-> Digits(10), base |-> 10, fp |-> FALSE],
   integer  |-> [pattern |-> {"-", "+"} \cup Digits(10), base |-> 10, fp |-> FALSE],
   hex      |-> [pattern |-> Digits(16), base |-> 16, fp |-> FALSE],
   octal    |-> [pattern |-> Digits(8), base |-> 8, fp |-> FALSE],
   positive |-> [pattern |-> {"."} \cup Digits(10), base |-> 10, fp |-> TRUE],
   decimal  |-> [pattern |-> {"+", "-", "."} \cup Digits(10), base |-> 10,
                 fp |-> TRUE]]

Evaluate(digits, base) == FoldLeft(LAMBDA n, c : base * n + Value[c], 0, digits)

(* strtoll and strtold: what begins at i, up to the first character that   *)
(* is not part of a number; 0 if no digit is.                              *)
Parsed(s, type) ==
  LET t == Types[type]
      digits == Digits(t.base)
      sign == IF At(s, 1) \in {"-", "+"} THEN 1 ELSE 0
      int == SkipSpan(s, 1 + sign, digits)
      frac == IF t.fp /\ At(s, int) = "." THEN SkipSpan(s, int + 1, digits) ELSE int
      n == Evaluate(SubSeq(s, 1 + sign, int - 1) \o SubSeq(s, int + 1, frac - 1),
                    t.base)
  IN  <<IF At(s, 1) = "-" THEN -n ELSE n, IF frac > int THEN frac - int - 1 ELSE 0>>

CopiedUnended(buf, s) ==                  \* mutant: no NUL is put behind it
  s \o (IF buf = << >> THEN <<"">> ELSE From(buf, Len(s) + 1))

(* buf after the field was copied: a NUL behind it, then what was there.   *)
Copied(buf, s) == s \o <<"">> \o From(buf, Len(s) + 2)

(* The text in the buffer ends with its first NUL.                         *)
extract_number(buf, field, type) ==
  LET copy == Copied(buf, field)
      s    == SubSeq(copy, 1, Min({k \in DOMAIN copy : copy[k] = ""}) - 1)
      pat  == Types[type].pattern
      skip == Min({k \in 1 .. Len(s) + 1 : k = Len(s) + 1 \/ s[k] \in pat})
  IN  Parsed(SubSeq(s, skip, SkipSpan(s, skip, pat) - 1), type)

(* A number: a sign, digits and for the decimal types digits after a point.*)
IsNumeral(s, type) ==
  LET t == Types[type]
      points == {i \in DOMAIN s : s[i] = "."}
      figures == {i \in DOMAIN s : s[i] \in Digits(t.base)}
  IN  /\ figures # {} /\ Cardinality(points) <= IF t.fp THEN 1 ELSE 0
      /\ DOMAIN s \ (points \cup figures) \subseteq {1}
      /\ 1 \in DOMAIN s \ (points \cup figures) => s[1] \in {"-", "+"}

(* The value of a number times 10^d, for d digits after its point.         *)
IsValue(v, s, type) ==
  LET base == Types[type].base
      figures == {i \in DOMAIN s : s[i] \in Digits(base)}
      points == {i \in DOMAIN s : s[i] = "."}
      weight(i) == base ^ Cardinality({j \in figures : j > i})
      size == MapThenSumSet(LAMBDA i : Value[s[i]] * weight(i), figures)
  IN  /\ v[1] = IF s[1] = "-" THEN -size ELSE size
      /\ v[2] = Cardinality({j \in figures : \E i \in points : i < j})

(* The number read is the longest one at the first character a number of   *)
(* the type may have, 0 if there is none; whatever the buffer held.        *)
NumberRight(buf, field, type) ==
  LET v == extract_number(buf, field, type)
      starts == {i \in DOMAIN field : field[i] \in Types[type].pattern}
      i == Min(starts)
      ends == {e \in i .. Len(field) : IsNumeral(SubSeq(field, i, e), type)}
  IN  IF starts = {} \/ ends = {} THEN v[1] = 0
      ELSE IsValue(v, SubSeq(field, i, Max(ends)), type)

-----------------------------------------------------------------------------
(* validate_double_format, for --format.  A refused format is            *)
(* RefusedFormat, an accepted one gets an L before its type.               *)

RefusedFormat == <<"refused">>

Flags == {"-", "+", "#", "0", " ", "'"}
Number == {"0", "5"}
TypeChars == {"e", "f", "g", "a"}

(* The % of the first directive, Len(s) + 1 without one: %% is passed.     *)
FirstDirective(s) ==
  LET scan[i \in 1 .. Len(s) + 2] ==
        IF i > Len(s) THEN Len(s) + 1
        ELSE IF s[i] # "%" THEN scan[i + 1]
        ELSE IF At(s, i + 1) = "%" THEN scan[i + 2] ELSE i
  IN  scan[1]

TypeAt(s, i) ==
  LET width == SkipSpan(s, SkipSpan(s, i + 1, Flags), Number)
  IN  IF At(s, width) = "." THEN SkipSpan(s, width + 1, Number) ELSE width

FormatOnce(s) ==                          \* mutant: the rest is not looked at
  LET i == FirstDirective(s)
      k == TypeAt(s, i)
  IN  IF Len(s) > MAX_NUMERIC_FORMAT_LEN - 1 \/ i > Len(s) THEN RefusedFormat
      ELSE IF At(s, k) \notin TypeChars THEN RefusedFormat
      ELSE SubSeq(s, 1, k - 1) \o <<"L">> \o From(s, k)

validate_double_format(s) ==
  LET i == FirstDirective(s)
      k == TypeAt(s, i)
  IN  IF Len(s) > MAX_NUMERIC_FORMAT_LEN - 1 \/ i > Len(s) THEN RefusedFormat
      ELSE IF At(s, k) \notin TypeChars THEN RefusedFormat
      ELSE IF FirstDirective(From(s, k + 1)) <= Len(s) - k THEN RefusedFormat
      ELSE SubSeq(s, 1, k - 1) \o <<"L">> \o From(s, k)

(* Text without a directive: every % is one of a pair.                     *)
IsPlain(s) ==
  \A i, j \in DOMAIN s :
    (/\ i <= j /\ \A k \in i .. j : s[k] = "%"
     /\ At(s, i - 1) # "%" /\ At(s, j + 1) # "%") => (j - i) % 2 = 1

(* %, flags, digits, maybe a point and digits, a type.                     *)
IsDirective(s) ==
  /\ Len(s) >= 2 /\ s[1] = "%" /\ s[Len(s)] \in TypeChars
  /\ \E f \in 1 .. Len(s) - 1 : \E w \in f .. Len(s) - 1 :
       /\ \A i \in 2 .. f : s[i] \in Flags
       /\ \A i \in f + 1 .. w : s[i] \in Number
       /\ \A i \in w + 2 .. Len(s) - 1 : s[i] \in Number
       /\ w < Len(s) - 1 => s[w + 1] = "."

(* numeric_output_format has a byte more than MAX_NUMERIC_FORMAT_LEN; the  *)
(* L and the NUL are to fit too.                                           *)
HasRoomFor(s) == Len(s) + 2 <= MAX_NUMERIC_FORMAT_LEN + 1

(* A format is accepted exactly if it is one directive for a long double   *)
(* between text without any and has room in numeric_output_format, and     *)
(* only the L is added to it.                                              *)
FormatRight(s) ==
  LET parts == {p \in (DOMAIN s) \X (DOMAIN s) :
                  /\ p[1] < p[2] /\ IsDirective(SubSeq(s, p[1], p[2]))
                  /\ IsPlain(SubSeq(s, 1, p[1] - 1))
                  /\ IsPlain(From(s, p[2] + 1))}
  IN  validate_double_format(s) =
        IF parts = {} \/ ~HasRoomFor(s) THEN RefusedFormat
        ELSE LET k == (CHOOSE p \in parts : TRUE)[2]
             IN  SubSeq(s, 1, k - 1) \o <<"L">> \o From(s, k)

-----------------------------------------------------------------------------
(* decorate_roman_numerals: 0 is a numeral that is refused.                *)

RomanValue == [c \in {"M", "D", "C", "L", "X", "V", "I"} |->
                 CASE c = "M" -> 1000 [] c = "D" -> 500 [] c = "C" -> 100
                   [] c = "L" -> 50 [] c = "X" -> 10 [] c = "V" -> 5
                   [] c = "I" -> 1]

(* One character more; last is 0 after a subtraction.                      *)
RomanStep(m, c) ==
  LET cur == RomanValue[c]
  IN  IF m.last = 0 \/ m.last >= cur
      THEN [result |-> m.result + m.last, last |-> cur]
      ELSE [result |-> m.result + cur - m.last, last |-> 0]

decorate_roman_numerals(s) ==
  IF s = << >> \/ ~(Range(s) \subseteq DOMAIN RomanValue) THEN 0
  ELSE LET m == FoldLeft(RomanStep, [result |-> 0, last |-> 0], s)
       IN  m.result + m.last

(* The numeral of a digit with the letters for one, five and ten.          *)
RomanDigit(d, one, five, ten) ==
  CASE d = 0 -> << >> [] d = 1 -> <<one>> [] d = 2 -> <<one, one>>
    [] d = 3 -> <<one, one, one>> [] d = 4 -> <<one, five>> [] d = 5 -> <<five>>
    [] d = 6 -> <<five, one>> [] d = 7 -> <<five, one, one>>
    [] d = 8 -> <<five, one, one, one>> [] d = 9 -> <<one, ten>>

Roman(n) ==
  RomanDigit(n \div 1000, "M", "", "")
    \o RomanDigit((n \div 100) % 10, "C", "D", "M")
    \o RomanDigit((n \div 10) % 10, "X", "L", "C")
    \o RomanDigit(n % 10, "I", "V", "X")

(* The numeral of n is converted to n.                                     *)
RomanRight(n) == decorate_roman_numerals(Roman(n)) = n
=============================================================================
