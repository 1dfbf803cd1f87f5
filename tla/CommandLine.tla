---------------------------- MODULE CommandLine ----------------------------
(***************************************************************************)
(* What the operands of datamash mean: commands with columns, ranges,      *)
(* pairs and parameters, how they are written, which of them are right and *)
(* what they ask for.  OpParser is held against this.                      *)
(***************************************************************************)
EXTENDS OpParser

(* An item of a list of columns; a and b are numbers or words.             *)
One(a) == [kind |-> "one", a |-> a, b |-> a]
Span(a, b) == [kind |-> "range", a |-> a, b |-> b]
Pair(a, b) == [kind |-> "pair", a |-> a, b |-> b]

(* mode: a word for a mode, "-g", or "" when the command begins with an    *)
(* operation.  limits: the options of check.                               *)
Command(mode, groups, ops, limits) ==
  [mode |-> mode, groups |-> groups, ops |-> ops, limits |-> limits]

Operation(op, params, items) == [op |-> op, params |-> params, items |-> items]

Limit(option, n, number_first) ==
  [option |-> option, n |-> n, number_first |-> number_first]
-----------------------------------------------------------------------------
(* How a command is written.                                               *)

ItemText(i) ==
  CASE i.kind = "one" -> <<i.a>>
    [] i.kind = "range" -> <<i.a, Dash, i.b>>
    [] i.kind = "pair" -> <<i.a, Colons, i.b>>

List(items) == Joined([k \in DOMAIN items |-> ItemText(items[k])], Comma)

OperationArgs(o) ==
  LET params == [k \in DOMAIN o.params |-> <<Colons, o.params[k]>>]
  IN << <<Word(o.op)>> \o FlattenSeq(params), List(o.items) >>

LimitArgs(l) ==
  IF l.number_first THEN << <<Number(l.n)>>, <<Word(l.option)>> >>
  ELSE << <<Word(l.option)>>, <<Number(l.n)>> >>

Args(c) ==
  (IF c.mode \in {"", "-g"} THEN << >> ELSE << <<Word(c.mode)>> >>)
  \o (IF c.mode = "-g" \/ c.groups = << >> THEN << >> ELSE <<List(c.groups)>>)
  \o FlattenSeq([k \in DOMAIN c.ops |-> OperationArgs(c.ops[k])])
  \o FlattenSeq([k \in DOMAIN c.limits |-> LimitArgs(c.limits[k])])

(* The command line that c is written as.                                  *)
Written(c, vnlog, input_header) ==
  [premode |-> c.mode = "-g",
   grouping |-> IF c.mode = "-g" THEN List(c.groups) ELSE << >>,
   argv |-> Args(c), vnlog |-> vnlog, input_header |-> input_header,
   means |-> {c}]

(* One that nobody meant anything by.                                      *)
Text(argv) ==
  [premode |-> FALSE, grouping |-> << >>, argv |-> argv, vnlog |-> FALSE,
   input_header |-> TRUE, means |-> {}]

-----------------------------------------------------------------------------
(* Which commands are right.                                               *)

Named(a) == a.tok = "IDENTIFIER" \/ job.vnlog

RightColumn(a) ==
  a.tok \in {"INTEGER", "IDENTIFIER"} /\ (Named(a) \/ a.n > 0)

RightGroup(i) ==
  /\ RightColumn(i.a) /\ RightColumn(i.b)
  /\ i.kind # "pair"
  /\ i.kind = "range" =>
       ~Named(i.a) /\ ~Named(i.b) /\ i.a.n <= i.b.n /\ i.b.n < IntMax

RightItem(op, i) ==
  /\ RightColumn(i.a) /\ RightColumn(i.b)
  /\ i.kind = "range" => ~Named(i.a) /\ ~Named(i.b) /\ i.a.n < i.b.n
  /\ i.kind = "pair" <=> NeedsPair(op)

ParamText(a) ==
  IF a.tok = "IDENTIFIER" THEN [num |-> 0, c |-> a.text]
  ELSE [num |-> a.tenths, c |-> ""]

DefaultParam(op) ==
  CASE op = "bin" -> ParamText(Number(100))
    [] op = "strbin" -> [num |-> 10, c |-> ""]
    [] op = "perc" -> ParamText(Number(95))
    [] op = "softmax" -> ParamText(Number(1))
    [] op = "getnum" -> ParamText(Word("p"))
    [] OTHER -> ParamText(Number(0))

Meant(o) ==
  IF o.params = << >> THEN DefaultParam(o.op)
  ELSE IF o.op = "strbin" THEN [num |-> o.params[1].n, c |-> ""]
       ELSE ParamText(o.params[1])

RightParams(o) ==
  o.params # << >> =>
    LET a == o.params[1]
    IN /\ Len(o.params) = 1
       /\ \/ o.op = "bin" /\ a.tok \in Numbers
          \/ o.op = "softmax" /\ a.tok \in Numbers
          \/ o.op = "strbin" /\ a.tok = "INTEGER" /\ a.n > 0
          \/ o.op = "perc" /\ a.tok \in Numbers /\ a.tenths <= 1000
          \/ o.op = "trimmean" /\ a.tok \in Numbers /\ a.tenths <= 5
          \/ o.op = "getnum" /\ a.tok = "IDENTIFIER" /\ a.text \in GetnumTypes

(* The mode that the operations of the command have to be for.             *)
WorkMode(c) == CASE c.mode = "" -> ModeOfOp[c.ops[1].op]
                 [] c.mode \in {"-g", "crosstab", "groupby"} -> "groupby"
                 [] OTHER -> "none"

GroupColumns(i) ==
  IF i.kind = "range"
  THEN [k \in 1 .. i.b.n - i.a.n + 1 |-> NumericGroup(i.a.n + k - 1)]
  ELSE IF Named(i.a) THEN <<NamedGroup(i.a.text)>> ELSE <<NumericGroup(i.a.n)>>

Groups(c) == FlattenSeq([k \in DOMAIN c.groups |-> GroupColumns(c.groups[k])])

AllNames(c) ==
  {a \in UNION {{c.groups[k].a, c.groups[k].b} : k \in DOMAIN c.groups}
     \cup UNION {UNION {{o.items[k].a, o.items[k].b} : k \in DOMAIN o.items}
                   : o \in {c.ops[k] : k \in DOMAIN c.ops}} : Named(a)}

WellFormed(c) ==
  /\ AllNames(c) # {} => job.input_header
  /\ \A k \in DOMAIN c.groups : RightGroup(c.groups[k])
  /\ \A k \in DOMAIN c.ops :
       LET o == c.ops[k]
       IN /\ o.op \in OpWords /\ ModeOfOp[o.op] = WorkMode(c)
          /\ RightParams(o)
          /\ o.items # << >>
          /\ \A n \in DOMAIN o.items : RightItem(o.op, o.items[n])
  /\ c.mode \in {"groupby", "crosstab", "rmdup", "-g"} <=> c.groups # << >>
  /\ c.mode \in {"groupby", "-g", ""} => c.ops # << >>
  /\ c.mode = "crosstab" =>
       /\ Len(Groups(c)) = 2 /\ Len(c.ops) <= 1
       /\ \A k \in DOMAIN c.ops :
            Len(c.ops[k].items) = 1 /\ c.ops[k].items[1].kind = "one"
  /\ c.limits # << >> => c.mode = "check"
  /\ \A k, n \in DOMAIN c.limits :
       c.limits[k].n > 0 /\ (k # n => c.limits[k].option # c.limits[n].option)

-----------------------------------------------------------------------------
(* What they ask for.                                                      *)

Single(o, by_name, num, name) ==
  [op |-> o.op, by_name |-> by_name, num |-> num, name |-> name,
   param |-> Meant(o), subordinate |-> FALSE, sub |-> 0]

Column(o, a) ==
  IF Named(a) THEN Single(o, TRUE, 0, a.text) ELSE Single(o, FALSE, a.n, "")

(* The operations of an item, when n of them come before.                  *)
Asked(o, i, n) ==
  CASE i.kind = "one" -> <<Column(o, i.a)>>
    [] i.kind = "range" ->
         [k \in 1 .. i.b.n - i.a.n + 1 |-> Single(o, FALSE, i.a.n + k - 1, "")]
    [] i.kind = "pair" -> <<[Column(o, i.a) EXCEPT !.subordinate = TRUE],
                            [Column(o, i.b) EXCEPT !.sub = n + 1]>>

AllAsked(c) ==
  LET items(o) == [n \in DOMAIN o.items |-> <<o, o.items[n]>>]
      all == FlattenSeq([k \in DOMAIN c.ops |-> items(c.ops[k])])
  IN FoldLeft(LAMBDA done, x : done \o Asked(x[1], x[2], Len(done)), << >>, all)

Limited(c, option) ==
  LET given == {k \in DOMAIN c.limits : c.limits[k].option = option}
  IN IF given = {} THEN 0 ELSE c.limits[CHOOSE k \in given : TRUE].n

Meaning(c) ==
  LET count == Operation("count", << >>, <<c.groups[1]>>)
      first == Groups(c)[1]
  IN [mode |-> CASE c.mode = "-g" -> "groupby"
                 [] c.mode = "" -> WorkMode(c) [] OTHER -> c.mode,
      header_required |-> AllNames(c) # {},
      grps |-> Groups(c),
      ops |-> IF c.mode = "crosstab" /\ c.ops = << >>
              THEN <<[Single(count, first.by_name, first.num, first.name)
                        EXCEPT !.param = NoParam]>>
              ELSE AllAsked(c),
      lines |-> Limited(c, "lines"), fields |-> Limited(c, "fields")]

-----------------------------------------------------------------------------
(* Properties                                                              *)

GroupType == [by_name : BOOLEAN, num : Nat, name : Strings]

FieldType == [by_name : BOOLEAN, num : Nat, name : Strings, range : BOOLEAN,
              pair : BOOLEAN]

OpType == [op : OpWords, by_name : BOOLEAN, num : Nat, name : Strings,
           param : [num : Nat, c : Strings], subordinate : BOOLEAN, sub : Nat]

DmType == [mode : ModeWords \cup {"per_line", "invalid"},
           header_required : BOOLEAN, grps : Seq(GroupType), ops : Seq(OpType),
           lines : Nat, fields : Nat]

Tokens == Numbers \cup {"IDENTIFIER", "COMMA", "DASH", "COLONS", "WHITESPACE",
                        "END", "DEAD"}

ScannerType == [text : Seq(PieceType), pos : Nat, have_peek : BOOLEAN, tok : Tokens,
                int : Nat, tenths : Nat, id : Strings, keep : BOOLEAN]

IsScanner(s) == s \in ScannerType /\ s.pos \in 1 .. Len(s.text) + 1

ParType == [used : Nat, type : Tokens, u : Nat, f : Nat, c : Strings]

Places == {"mode or op", "check", "mode column", "mode columns", "operations",
           "parameters", "column", "pair", "range", "columns", "create",
           "extra operand"}

(* The type invariant; the fields of an operation have room.               *)
TypeOK ==
  /\ ValidJob(job) /\ IsScanner(sc) /\ pc \in Places
  /\ dm \in DmType /\ par \in ParType
  /\ fields \in Seq(FieldType) /\ alloc_fields \in Nat
  /\ Len(fields) <= alloc_fields
  /\ fop \in OpWords \cup {"invalid"} /\ p \in Nat
  /\ dangling \in BOOLEAN /\ undefined \in BOOLEAN
  /\ status \in {"parsing", "accepted", "refused", "aborted"}

(* The commands that may come to read memory that was freed or never       *)
(* written: with a range whose end does not find room among the first      *)
(* fields, which then may move; with a parameter that is read as what its  *)
(* token was not.                                                          *)
Outgrows(o) ==
  \E n \in DOMAIN o.items :
    /\ o.items[n].kind = "range"
    /\ n + Cardinality({k \in 1 .. n : o.items[k].kind # "one"}) > FieldsRoom

Mistyped(o) ==
  /\ Len(o.params) = 1
  /\ \/ o.op = "strbin" /\ o.params[1].tok # "INTEGER"
     \/ o.op = "getnum" /\ o.params[1].tok # "IDENTIFIER"

ReadsAtRandom(c) ==
  undefined /\ \E k \in DOMAIN c.ops : Outgrows(c.ops[k]) \/ Mistyped(c.ops[k])

(* What was written down for a command is understood as the command: what  *)
(* the parser accepts is right, and datamash does what was asked for.      *)
(* Nothing undefined is read on the way, but for the two kinds of command  *)
(* above.                                                                  *)
UnderstoodAsMeant ==
  \A c \in job.means :
    status = "accepted" =>
      ReadsAtRandom(c) \/ (~undefined /\ WellFormed(c) /\ dm = Meaning(c))

(* And a command that is right is not refused, nor one because of memory   *)
(* it should not have read, with the same exceptions.                      *)
RightIsAccepted ==
  \A c \in job.means :
    status \in {"refused", "aborted"} =>
      ReadsAtRandom(c) \/ (~undefined /\ ~WellFormed(c))

(* Numbers that fit: what fills an int with them is exact.                 *)
NumbersFit ==
  LET texts == Joined(job.argv, Space) \o job.grouping
  IN \A k \in DOMAIN texts : texts[k].n <= IntMax

GroupsAreColumns ==
  \A k \in DOMAIN dm.grps : dm.grps[k].by_name \/ dm.grps[k].num > 0

(* What ValidJob of GroupBy and SortedInput takes for granted holds for    *)
(* any text, right or not: two groups and one operation for crosstab,      *)
(* operations of one mode, a subordinate right before its primary, and a   *)
(* header wanted for names; with numbers that fit, no column 0.  Only -g   *)
(* with nothing behind it leaves no operation, and a 0 behind a blank in   *)
(* the text of -g gets through: the next token has overwritten its value   *)
(* when parse_mode_column looks whether it is 0.                           *)
ResultFits ==
  status = "accepted" =>
    LET named == {k \in DOMAIN dm.grps : dm.grps[k].by_name}
          \cup {k \in DOMAIN dm.ops : dm.ops[k].by_name}
        zeros == {k \in DOMAIN job.grouping :
                    job.grouping[k].tok \in Numbers /\ job.grouping[k].n = 0}
    IN /\ dm.mode = "crosstab" => Len(dm.grps) = 2 /\ Len(dm.ops) = 1
       /\ dm.mode \in {"groupby", "per_line"} =>
            dm.ops # << >> \/ (job.premode /\ job.argv = << << >> >>)
       /\ \A k \in DOMAIN dm.ops :
            LET o == dm.ops[k]
            IN /\ dm.mode \in {"crosstab", ModeOfOp[o.op]}
               /\ dm.mode # "crosstab" \/ NumbersFit => o.by_name \/ o.num > 0
               /\ o.subordinate => k < Len(dm.ops) /\ dm.ops[k + 1].sub = k
               /\ o.sub # 0 => o.sub = k - 1 /\ dm.ops[k - 1].subordinate
       /\ dm.header_required <=> named # {}
       /\ NumbersFit =>
            /\ dm.mode = "rmdup" => dm.grps # << >>
            /\ ~job.premode \/ zeros = {} => GroupsAreColumns
=============================================================================
