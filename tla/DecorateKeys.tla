---------------------------- MODULE DecorateKeys ----------------------------
(***************************************************************************)
(* The sort keys of decorate: how a key of the command line is parsed,     *)
(* which text of a line is converted for it, which key sort is given in    *)
(* its place, and what remains when the conversions are removed again      *)
(* (decorate.c, key-compare.c).                                            *)
(*                                                                         *)
(* A run handles one line; how lines travel between the processes is       *)
(* DecoratePipe.  A line is a sequence of characters, followed in memory   *)
(* by the line delimiter.  Positions are those of C, the first is 0.       *)
(***************************************************************************)
EXTENDS SortKey, SequencesExt

(* Blank is the character isblank accepts, NoTab is TAB_DEFAULT (no -t).   *)
CONSTANTS EOL,        \* eol_delimiter
          SizeMax,    \* SIZE_MAX
          Digit,      \* Digit[n]: the last character of a converted number n
          Jobs,       \* the command lines: the separator and the keys
          Lines       \* the lines

(* A key -kF.Cb,E.Db:conv as it is written is a record with the fields f,  *)
(* c, b, e, d, eb, conv and other (it has other ordering flags).  Absent is*)
(* no .C or no ,E, AsText no :conv; .D of 0 and no .D are the same; counts *)
(* beyond size_t are SizeMax.                                              *)
Absent == None
AsText == ""

Converters == {"as-is", "strlen", "roman"}

KeyType ==
  [f : 0 .. SizeMax, c : 0 .. SizeMax \cup {Absent}, b : BOOLEAN,
   e : 0 .. SizeMax \cup {Absent}, d : 0 .. SizeMax, eb : BOOLEAN,
   other : BOOLEAN, conv : STRING]

ASSUME DecorateKeysAssumption ==
  /\ SizeMax \in Nat \ {0}
  /\ \A j \in Jobs : j.keys \in Seq(KeyType) \ {<< >>} /\ j.tab # EOL
  /\ \A l \in Lines : l \in Seq(Range(l)) /\ EOL \notin Range(l)

VARIABLES
  job, line,
  keylist,           \* the keys of the command line, then those for sort
  decorate_keylist,  \* the keys to convert
  length,            \* l.length of decorate_fields
  texts,             \* the texts handed to the conversions
  decorated,         \* what is printed before the line
  undecorated,       \* what comes back of the line
  status

vars == <<job, line, keylist, decorate_keylist, length, texts, decorated,
          undecorated, status>>

Plus(n, m) == (n + m) % (SizeMax + 1)

-----------------------------------------------------------------------------
(* begfield and limfield.  They never pass lim, the last position of a     *)
(* record of the given length, which is taken to hold the delimiter.       *)

Char(t, p) == t[p + 1]

Least(m, n) == IF m <= n THEN m ELSE n

Most(m, n) == IF m >= n THEN m ELSE n

(* The first position from p on, before lim, that does not satisfy In; or  *)
(* lim.                                                                    *)
Past(t, p, lim, In(_)) ==
  LET stops == {q \in p .. lim - 1 : ~In(Char(t, q))}
  IN  IF stops = {} THEN Most(p, lim)
      ELSE CHOOSE q \in stops : \A r \in stops : q <= r

IsBlank(c)  == c = Blank
NotBlank(c) == c # Blank

PastBlanks(t, p, lim) == Past(t, p, lim, IsBlank)

PastField(tab, t, p, lim) ==
  IF tab = NoTab THEN Past(t, PastBlanks(t, p, lim), lim, NotBlank)
  ELSE Past(t, p, lim, LAMBDA c : c # tab)

(* Over n fields from the start; a separator after a field is passed too,  *)
(* the one after the last only if over is true.                            *)
Fields(tab, t, lim, n, over) ==
  LET step[i \in 0 .. Least(n, Len(t))] ==
        IF i = 0 THEN 0
        ELSE LET q == PastField(tab, t, step[i - 1], lim)
             IN IF tab # NoTab /\ q < lim /\ (i < n \/ over) THEN q + 1 ELSE q
  IN  step[Least(n, Len(t))]

BegField(tab, t, len, key) ==
  LET lim == Most(len - 1, 0)
      p == Fields(tab, t, lim, key.sword, TRUE)
  IN  Least(lim, key.schar + IF key.skipsblanks THEN PastBlanks(t, p, lim) ELSE p)

LimFieldMore(tab, t, len, key) ==         \* mutant: the separator belongs to it
  LET lim == Most(len - 1, 0)
      eword == IF key.echar = 0 THEN Plus(key.eword, 1) ELSE key.eword
      p == Fields(tab, t, lim, eword, TRUE)
  IN  IF key.echar = 0 THEN p
      ELSE Least(lim, key.echar + IF key.skipeblanks THEN PastBlanks(t, p, lim)
                                  ELSE p)

(* Without an end the limit is SIZE_MAX, and one more makes it 0.          *)
LimField(tab, t, len, key) ==
  LET lim == Most(len - 1, 0)
      eword == IF key.echar = 0 THEN Plus(key.eword, 1) ELSE key.eword
      p == Fields(tab, t, lim, eword, key.echar # 0)
  IN  IF key.echar = 0 THEN p
      ELSE Least(lim, key.echar + IF key.skipeblanks THEN PastBlanks(t, p, lim)
                                  ELSE p)

-----------------------------------------------------------------------------
(* parse_key_arg                                                           *)

Pred(n) == IF n = 0 THEN SizeMax ELSE n - 1

BadPosition(arg) ==
  \/ arg.f = 0 \/ arg.c = 0 \/ arg.e = 0
  \/ arg.conv # AsText /\ (arg.b \/ arg.eb \/ arg.other)
  \/ arg.conv \notin Converters \cup {AsText}

KeyOf(arg) ==
  [sword |-> Pred(arg.f), schar |-> IF arg.c = Absent THEN 0 ELSE Pred(arg.c),
   eword |-> IF arg.e = Absent THEN SizeMax ELSE Pred(arg.e),
   echar |-> IF arg.e = Absent THEN 0 ELSE arg.d,
   skipsblanks |-> arg.b, skipeblanks |-> arg.e # Absent /\ arg.eb,
   conv |-> arg.conv]

ParseKey ==
  /\ status = "options" /\ Len(keylist) < Len(job.keys)
  /\ LET arg == job.keys[Len(keylist) + 1]
     IN  IF BadPosition(arg)
         THEN status' = "refused" /\ UNCHANGED keylist
         ELSE keylist' = Append(keylist, KeyOf(arg)) /\ UNCHANGED status
  /\ UNCHANGED <<job, line, decorate_keylist, length, texts, decorated,
                 undecorated>>

-----------------------------------------------------------------------------
(* adjust_key_fields                                                       *)

Converted(k) == k.conv # AsText

(* The keys to convert among the first n, in their order.                  *)
Saved(ks, n) ==
  LET saved[i \in 0 .. n] ==
        IF i = 0 THEN << >>
        ELSE IF Converted(ks[i]) THEN Append(saved[i - 1], ks[i])
        ELSE saved[i - 1]
  IN  saved[n]

Before(ks, i) == Len(Saved(ks, i - 1))

Count(ks) == Len(Saved(ks, Len(ks)))

MovedShort(ks, i) ==                      \* mutant: eword is not shifted
  LET k == ks[i] IN
  IF Converted(k)
  THEN LET idx == Before(ks, i)
       IN  [k EXCEPT !.sword = idx, !.conv = AsText,
                     !.eword = IF @ = SizeMax THEN @ ELSE idx]
  ELSE [k EXCEPT !.sword = Plus(@, Count(ks))]

(* The key for sort: a converted key is the field of its conversion, the   *)
(* others move behind all of them.                                         *)
Moved(ks, i) ==
  LET k == ks[i] IN
  IF Converted(k)
  THEN LET idx == Before(ks, i)
       IN  [k EXCEPT !.sword = idx, !.conv = AsText,
                     !.eword = IF @ = SizeMax THEN @ ELSE idx]
  ELSE [k EXCEPT !.sword = Plus(@, Count(ks)),
                 !.eword = IF @ = SizeMax THEN @ ELSE Plus(@, Count(ks))]

(* insert_decorate_key: blanks before a field are not converted.           *)
ToConvert(ks) ==
  LET saved == Saved(ks, Len(ks))
  IN  [i \in DOMAIN saved |-> [saved[i] EXCEPT !.skipsblanks = TRUE,
                                               !.skipeblanks = TRUE]]

AdjustKeys ==
  /\ status = "options" /\ Len(keylist) = Len(job.keys)
  /\ keylist' = [i \in DOMAIN keylist |-> Moved(keylist, i)]
  /\ decorate_keylist' = ToConvert(keylist)
  /\ status' = IF Count(keylist) = 0 THEN "refused" ELSE "decorating"
  /\ UNCHANGED <<job, line, length, texts, decorated, undecorated>>

-----------------------------------------------------------------------------
(* decorate_fields                                                         *)

Text == Append(line, EOL)

(* What is cut from the line for a key: from beg, to lim if that is behind.*)
Cut(beg, lim) == SubSeq(Text, beg + 1, Most(beg, lim))

(* The conversions: a text as it is, its length, a numeral without blanks  *)
(* and separators.  Numbers are printed with leading zeros.                *)
Fails(conv, t) ==
  conv = "roman" /\ (t = << >> \/ \E c \in Range(t) : c \in {Blank, job.tab, EOL})

Output(conv, t) == IF conv = "as-is" THEN t ELSE <<Digit[0], Digit[Len(t)]>>

Separator == IF job.tab = NoTab THEN Blank ELSE job.tab

Convert(t) ==
  LET conv == decorate_keylist[Len(texts) + 1].conv
  IN  /\ texts' = Append(texts, t)
      /\ IF Fails(conv, t) THEN status' = "failed" /\ UNCHANGED decorated
         ELSE /\ decorated' = decorated \o Append(Output(conv, t), Separator)
              /\ status' = IF Len(texts) + 1 = Len(decorate_keylist)
                           THEN "sorting" ELSE status

(* The first key: an empty text is taken for a key without a limit.        *)
ConvertFirst ==
  /\ status = "decorating" /\ texts = << >>
  /\ LET key == decorate_keylist[1]
         beg == BegField(job.tab, Text, length, key)
         lim == LimField(job.tab, Text, length, key)
         chomped == IF length > 0 /\ Char(Text, length - 1) = EOL
                    THEN length - 1 ELSE length
     IN  IF beg >= lim
         THEN length' = chomped /\ Convert(Cut(beg, chomped))
         ELSE length' = length /\ Convert(Cut(beg, lim))
  /\ UNCHANGED <<job, line, keylist, decorate_keylist, undecorated>>

ConvertNext ==
  /\ status = "decorating" /\ texts # << >>
  /\ LET key == decorate_keylist[Len(texts) + 1]
     IN  Convert(Cut(BegField(job.tab, Text, length, key),
                     IF key.eword = SizeMax THEN length - 1
                     ELSE LimField(job.tab, Text, length, key)))
  /\ UNCHANGED <<job, line, keylist, decorate_keylist, length, undecorated>>

-----------------------------------------------------------------------------
(* undecorate_file, without the delimiter, which begfield does not know.   *)

SkipKeyKeep(n) ==                         \* mutant: the separator stays
  [sword |-> n, schar |-> 0, eword |-> 0, echar |-> 0,
   skipsblanks |-> FALSE, skipeblanks |-> FALSE, conv |-> AsText]

SkipKey(n) == [sword |-> n, schar |-> 0, eword |-> 0, echar |-> 0,
               skipsblanks |-> TRUE, skipeblanks |-> FALSE, conv |-> AsText]

Undecorate ==
  /\ status = "sorting"
  /\ LET l == decorated \o line
         p == BegField(job.tab, l, Len(l), SkipKey(Len(decorate_keylist)))
     IN  undecorated' = SubSeq(l, p + 1, Len(l))
  /\ status' = "done"
  /\ UNCHANGED <<job, line, keylist, decorate_keylist, length, texts, decorated>>

Stopped == status \in {"refused", "failed", "done"} /\ UNCHANGED vars

Init ==
  /\ job \in Jobs /\ line \in Lines
  /\ keylist = << >> /\ decorate_keylist = << >>
  /\ length = Len(line) + 1
  /\ texts = << >> /\ decorated = << >> /\ undecorated = << >>
  /\ status = "options"

Next == ParseKey \/ AdjustKeys \/ ConvertFirst \/ ConvertNext \/ Undecorate
          \/ Stopped

Spec == Init /\ [][Next]_vars

-----------------------------------------------------------------------------
(* The keys of the command line as sort(1) means them.                     *)

Asked(i) == [job.keys[i] EXCEPT !.c = IF @ = Absent THEN 1 ELSE @]

ConvertedKeys == {i \in DOMAIN job.keys : job.keys[i].conv # AsText}

(* The key whose text is the i-th to be converted; blanks around it do not *)
(* belong to it.                                                           *)
Wanted(i) ==
  LET k == CHOOSE k \in ConvertedKeys :
             Cardinality({h \in ConvertedKeys : h < k}) = i - 1
  IN  [Asked(k) EXCEPT !.b = TRUE, !.eb = TRUE]

WantedText(i) == KeyText(job.tab, line, Wanted(i))

FirstIsWhole == Wanted(1).e = Absent

(* Each conversion is given the text of its key.  Two cases in which the   *)
(* code does something else are excepted: a first key whose text is empty  *)
(* (the rest of the line is converted), and the keys that reach the end of *)
(* the line after a first key that is empty or has no end (the last        *)
(* character is missing).  (decorate_fields, begfield, limfield)           *)
ConvertsTheKey ==
  \A i \in DOMAIN texts :
    \/ IF i = 1 THEN ~FirstIsWhole /\ WantedText(1) = << >>
       ELSE /\ FirstIsWhole \/ WantedText(1) = << >>
            /\ KeyEnd(job.tab, line, Wanted(i)) = Len(line)
    \/ texts[i] = WantedText(i)

(* What the comment in decorate_fields says: field ends before field       *)
(* starts are treated as empty fields.                                     *)
EmptyKeysAreEmpty ==
  \A i \in DOMAIN texts : WantedText(i) = << >> => texts[i] = << >>

(* Every conversion is one field: not empty, without a separator.          *)
Tidy ==
  \A i \in DOMAIN texts :
    LET text == Output(decorate_keylist[i].conv, texts[i])
    IN  text # << >> /\ Range(text) \cap {Blank, job.tab} = {}

(* A key as sort reads it from its command line (debug_keyfield).          *)
Printed(k) ==
  [f |-> Plus(k.sword, 1), c |-> Plus(k.schar, 1), b |-> k.skipsblanks,
   e |-> IF k.eword = SizeMax THEN Absent ELSE Plus(k.eword, 1),
   d |-> k.echar, eb |-> k.skipeblanks]

Sorted(i) == KeyText(job.tab, decorated \o line, Printed(keylist[i]))

Represented(i) ==
  /\ job.keys[i].f + Cardinality(ConvertedKeys) <= SizeMax
  /\ job.keys[i].e + Cardinality(ConvertedKeys) <= SizeMax

(* On the decorated line sort compares what the user asked for.  A key     *)
(* without a conversion selects the text it selects on the line itself;    *)
(* where blanks separate the fields the conversions put one more blank     *)
(* before the line, which only a key that begins with field 1 or counts    *)
(* characters of it can see.  A converted key with an end and without      *)
(* characters selects its conversion.  The numbers must not wrap when they *)
(* are moved.  (adjust_key_fields, debug_keyfield)                         *)
SortComparesTheKey ==
  status \in {"sorting", "done"} /\ Tidy =>
    \A i \in DOMAIN keylist :
      LET asked == Asked(i)
          front == IF job.tab = NoTab THEN <<Blank>> ELSE << >>
          n     == Cardinality({h \in ConvertedKeys : h <= i})
      IN  Represented(i) =>
          IF asked.conv = AsText
          THEN /\ Sorted(i) = KeyText(job.tab, front \o line, asked)
               /\ asked.f > 1 /\ ~(asked.e = 1 /\ asked.d > 0)
                    => Sorted(i) = KeyText(job.tab, line, asked)
          ELSE \/ asked.c > 1 \/ asked.d > 0 \/ asked.e = Absent
               \/ Sorted(i) = (IF n > 1 THEN front ELSE << >>)
                                \o Output(asked.conv, texts[n])

(* The line comes back without its leading blanks, unless nothing else is  *)
(* in it.  (undecorate_file)                                               *)
Restored ==
  LET text == SubSeq(line, AfterBlanks(line, 0) + 1, Len(line))
  IN  status = "done" /\ Tidy /\ text # << >> => undecorated = text
=============================================================================
