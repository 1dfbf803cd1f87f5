----------------------------- MODULE OpParser ------------------------------
(***************************************************************************)
(* op-scanner.c, op-parser.c and the tables of op-defs.c: how the operands *)
(* of datamash become struct datamash_ops, up to the check of main on      *)
(* named columns.  A step parses one column, parameter, option or mode.    *)
(*                                                                         *)
(* The text that is scanned is a sequence of pieces: tokens, whitespace,   *)
(* and BAD, where a token that is none would begin.  Names stand for all   *)
(* their spellings in upper and lower case, and operations and modes are   *)
(* one of each kind.                                                       *)
(***************************************************************************)
EXTENDS Integers, SequencesExt

CONSTANTS Jobs,        \* the command lines
          IntMax,      \* the largest int
          FieldsRoom,  \* the fields that _fields has room for at first
          Leftover     \* what an uninitialized parameter may read as

Numbers == {"INTEGER", "FLOAT"}

Piece(tok, n, tenths, text) ==
  [tok |-> tok, n |-> n, tenths |-> tenths, text |-> text]

Number(n) == Piece("INTEGER", n, 10 * n, ToString(n))
Tenths(t) == Piece("FLOAT", t \div 10, t, "decimal")
Word(w) == Piece("IDENTIFIER", 0, 0, w)
Comma == Piece("COMMA", 0, 0, ",")
Dash == Piece("DASH", 0, 0, "-")
Colons == Piece("COLONS", 0, 0, ":")
Space == Piece("SPACE", 0, 0, "")
Bad == Piece("BAD", 0, 0, "")

Strings == STRING \cup {"", "p"}  \* STRING: no prover knows of a literal in it

AnyPiece == [tok : Numbers \cup {"IDENTIFIER", "COMMA", "DASH", "COLONS",
                                 "SPACE", "BAD"},
             n : Nat,       \* the integer that strtol reads
             tenths : Nat,  \* ten times the number that strtold reads
             text : Strings]

-----------------------------------------------------------------------------
(* op-defs.c                                                               *)

ModeOfOp == [count |-> "groupby", pcov |-> "groupby", perc |-> "groupby",
             trimmean |-> "groupby", softmax |-> "groupby",
             md5 |-> "per_line", bin |-> "per_line", strbin |-> "per_line",
             getnum |-> "per_line"]

OpWords == DOMAIN ModeOfOp

(* The words for modes; "line" is in the table too.                        *)
ModeWords == {"groupby", "crosstab", "transpose", "reverse", "noop", "rmdup",
              "check", "line"}

NeedsPair(op) == op = "pcov"

GetnumTypes == {"h", "o", "i", "n", "d", "p"}

(* No operation is spelled like a number.                                  *)
PieceType == {t \in AnyPiece : /\ t.tok = "SPACE" => t = Space
                               /\ t.tok = "BAD" => t = Bad
                               /\ t.tok \in Numbers => t.text \notin OpWords}

(* premode: -g was given, with the text grouping.  means: what the author  *)
(* of the command line had in mind; the parser does not see it.            *)
ValidJob(j) ==
  /\ j.premode \in BOOLEAN /\ j.vnlog \in BOOLEAN /\ j.input_header \in BOOLEAN
  /\ j.grouping \in Seq(PieceType)
  /\ j.argv \in Seq(Seq(PieceType)) /\ j.argv # << >>
  /\ j.vnlog => j.input_header

ASSUME OpParserAssumption ==
  /\ IntMax \in Nat /\ FieldsRoom \in Nat \ {0}
  /\ Leftover \subseteq [u : Nat, c : Strings]
  /\ \A j \in Jobs : ValidJob(j)

VARIABLES
  job,
  sc,        \* the scanner: text and scan_pos, have_peek with scan_peek, the
             \* values of the last number, and the last identifier
  pc,        \* which function parses next
  dm,        \* struct datamash_ops
  fop,       \* the operation being parsed
  fields,    \* _fields, those that create_field_ops has not consumed
  alloc_fields,
  p,         \* parse_operation_column: the first field of the column, and
  dangling,  \* whether the pointer to it may have been left behind
  par,       \* _params_used, and what is in _params[0]
  undefined, \* history: memory was used that was freed or never written
  status

vars == <<job, sc, pc, dm, fop, fields, alloc_fields, p, dangling, par,
          undefined, status>>

-----------------------------------------------------------------------------
(* scanner_get_token and scanner_peek_token.  DEAD: the scanner has died.  *)

Joined(ts, sep) ==
  FlattenSeq([k \in DOMAIN ts |-> IF k = 1 THEN ts[k] ELSE <<sep>> \o ts[k]])

(* scanner_set_input_from_argv *)
Open(s, text) == [s EXCEPT !.text = text, !.pos = 1, !.have_peek = FALSE]

PastSpaces(s) ==
  CHOOSE q \in s.pos .. Len(s.text) + 1 :
    /\ q \in DOMAIN s.text => s.text[q] # Space
    /\ \A r \in s.pos .. q - 1 : s.text[r] = Space

Token(s, t) ==
  [s EXCEPT !.pos = PastSpaces(s) + 1, !.tok = t.tok, !.id = t.text,
            !.int = IF t.tok \in Numbers THEN t.n ELSE @,
            !.tenths = IF t.tok = "FLOAT" THEN t.tenths ELSE @]

(* Trailing whitespace, no token, or a letter right behind a number.       *)
Malformed(s) ==
  LET q == PastSpaces(s)
  IN \/ q > Len(s.text)
     \/ s.text[q] = Bad
     \/ /\ s.text[q].tok \in Numbers /\ q < Len(s.text)
        /\ s.text[q + 1].tok = "IDENTIFIER"

Scan(s) ==
  CASE s.tok = "DEAD" -> s
    [] s.tok # "DEAD" /\ s.pos > Len(s.text) -> [s EXCEPT !.tok = "END"]
    [] s.tok # "DEAD" /\ s.pos < PastSpaces(s) /\ s.keep ->
         [s EXCEPT !.pos = PastSpaces(s),
                   !.tok = IF PastSpaces(s) > Len(s.text) THEN "END"
                           ELSE "WHITESPACE"]
    [] OTHER -> IF Malformed(s) THEN [s EXCEPT !.tok = "DEAD"]
                ELSE Token(s, s.text[PastSpaces(s)])

Get(s) == IF s.have_peek THEN [s EXCEPT !.have_peek = FALSE] ELSE Scan(s)

Peek(s) == IF s.have_peek THEN s ELSE [Scan(s) EXCEPT !.have_peek = TRUE]

-----------------------------------------------------------------------------
Init ==
  /\ job \in Jobs
  /\ sc = [text |-> IF job.premode THEN job.grouping
                    ELSE Joined(job.argv, Space),
           pos |-> 1, have_peek |-> FALSE, tok |-> "END", int |-> 0,
           tenths |-> 0, id |-> "", keep |-> FALSE]
  /\ pc = IF job.premode THEN "mode column" ELSE "mode or op"
  /\ dm = [mode |-> IF job.premode THEN "groupby" ELSE "invalid",
           header_required |-> FALSE, grps |-> << >>, ops |-> << >>,
           lines |-> 0, fields |-> 0]
  /\ fop = "invalid" /\ fields = << >> /\ alloc_fields = 0
  /\ p = 0 /\ dangling = FALSE
  /\ \E left \in Leftover :
       par = [used |-> 0, type |-> "INTEGER", u |-> left.u, f |-> 0, c |-> left.c]
  /\ undefined = FALSE
  /\ status = "parsing"

At(where) == status = "parsing" /\ pc = where

Stop(st) ==
  /\ status' = st
  /\ UNCHANGED <<job, sc, pc, dm, fop, fields, alloc_fields, p, dangling, par,
                 undefined>>

OperationUnchanged == UNCHANGED <<fop, fields, alloc_fields, p, dangling, par>>

(* A step that changes only the scanner, where to go on, and dm.           *)
Go(s, where, d) ==
  /\ sc' = s /\ pc' = where /\ dm' = d
  /\ OperationUnchanged
  /\ UNCHANGED <<job, undefined, status>>

-----------------------------------------------------------------------------
(* parse_mode_or_op and parse_mode.  "line" and no text at all fail an     *)
(* assertion.                                                              *)

AfterMode(m) ==
  CASE m \in {"groupby", "crosstab", "rmdup"} -> "mode column"
    [] m = "check" -> "check"
    [] m \in {"transpose", "reverse", "noop"} -> "extra operand"

ParseModeOrOp ==
  /\ At("mode or op")
  /\ LET s == Peek(sc)
         words == s.tok \notin {"DEAD", "END"}
     IN \/ /\ words /\ s.id \in ModeWords \ {"line"}
           /\ Go(Get(s), AfterMode(s.id), [dm EXCEPT !.mode = s.id])
        \/ /\ words /\ s.id \in OpWords
           /\ Go(s, "operations", [dm EXCEPT !.mode = ModeOfOp[s.id]])
        \/ /\ words /\ s.id \notin ModeWords \cup OpWords
           /\ Stop("refused")
        \/ s.tok = "DEAD" /\ Stop("refused")
        \/ /\ s.tok = "END" \/ (words /\ s.id = "line")
           /\ Stop("aborted")

-----------------------------------------------------------------------------
(* parse_mode_column and its list                                          *)

(* A number that is stored in an int.                                      *)
ToInt(n) == ((n + IntMax + 1) % (2 * IntMax + 2)) - (IntMax + 1)

NamedGroup(name) == [by_name |-> TRUE, num |-> 0, name |-> name]
NumericGroup(n) == [by_name |-> FALSE, num |-> n, name |-> ""]

AddGroups(gs) ==
  [dm EXCEPT !.grps = @ \o gs,
             !.header_required = @ \/ \E k \in DOMAIN gs : gs[k].by_name]

IsName(s) == s.tok \in {"IDENTIFIER"} \cup IF job.vnlog THEN {"INTEGER"} ELSE {}

ZeroToo(s) == IsName(s) \/ s.tok = "INTEGER"   \* mutant: 0 is a column

IsColumn(s) == IsName(s) \/ (s.tok = "INTEGER" /\ s.int > 0)

GroupRange(b, e) == [k \in 1 .. e - b + 1 |-> NumericGroup(b + k - 1)]

(* The number added is the one that the scanner holds after looking ahead. *)
ParseModeColumn ==
  /\ At("mode column")
  /\ LET g == Get(sc)
         s == Peek(g)
         e == Get(Get(s))
         begin == ToInt(g.int)
         ordered == e.tok = "INTEGER" /\ begin >= 0 /\ begin <= e.int
     IN \/ /\ IsName(g)
           /\ Go(s, "mode columns", AddGroups(<<NamedGroup(g.id)>>))
        \/ /\ IsColumn(g) /\ ~IsName(g) /\ s.tok # "DASH"
           /\ Go(s, "mode columns", AddGroups(<<NumericGroup(s.int)>>))
        \/ /\ IsColumn(g) /\ ~IsName(g) /\ s.tok = "DASH" /\ ordered
           /\ IF ToInt(e.int) = IntMax THEN Stop("aborted")   \* i++ overflows
              ELSE Go(Peek(e), "mode columns",
                      AddGroups(GroupRange(begin, ToInt(e.int))))
        \/ /\ IsColumn(g) /\ ~IsName(g) /\ s.tok = "DASH" /\ ~ordered
           /\ Stop("refused")
        \/ ~IsColumn(g) /\ Stop("refused")

MoreModeColumns ==
  /\ At("mode columns") /\ sc.tok = "COMMA"
  /\ Go(Get(sc), "mode column", dm)

ModeColumnsEnd ==
  /\ At("mode columns") /\ sc.tok # "COMMA"
  /\ IF \/ sc.tok \in {"DASH", "COLONS", "DEAD"}
        \/ dm.mode = "crosstab" /\ Len(dm.grps) # 2
     THEN Stop("refused")
     ELSE Go(IF job.premode THEN Open(sc, Joined(job.argv, Space)) ELSE sc,
             IF dm.mode = "rmdup" THEN "extra operand" ELSE "operations", dm)

-----------------------------------------------------------------------------
(* parse_mode_check: a number and an option, in either order.              *)

CheckOption ==
  /\ At("check") /\ Peek(sc).tok # "END"
  /\ LET g == Get(Peek(sc))
         s == Get(g)
         number_first == g.tok = "INTEGER"
         option == IF number_first THEN s.id ELSE g.id
         value == IF number_first THEN g.int ELSE s.int
     IN IF /\ g.tok # "DEAD" /\ s.tok # "DEAD"
           /\ option \in {"lines", "fields"}
           /\ number_first \/ s.tok = "INTEGER"
           /\ value > 0 /\ dm[option] = 0
        THEN Go(s, "check", [dm EXCEPT ![option] = value])
        ELSE Stop("refused")

CheckEnds ==
  /\ At("check") /\ Peek(sc).tok = "END"
  /\ Go(Peek(sc), "extra operand", dm)

-----------------------------------------------------------------------------
(* parse_operations and parse_operation                                    *)

AlwaysKeep(s, yes) == [s EXCEPT !.keep = TRUE]     \* mutant: never reset

KeepWhitespace(s, yes) == [s EXCEPT !.keep = yes]

compatible_operation_modes(current, added) ==
  <<current, added>> = <<"crosstab", "groupby">> \/ current = added

ParseOperation ==
  /\ At("operations") /\ Peek(sc).tok # "END"
  /\ LET g == Get(Peek(sc))
     IN IF /\ g.tok # "DEAD" /\ g.id \in OpWords
           /\ compatible_operation_modes(dm.mode, ModeOfOp[g.id])
        THEN /\ fop' = g.id /\ fields' = << >> /\ par' = [par EXCEPT !.used = 0]
             /\ sc' = Peek(KeepWhitespace(g, TRUE)) /\ pc' = "parameters"
             /\ UNCHANGED <<job, dm, alloc_fields, p, dangling, undefined, status>>
        ELSE Stop("refused")

FieldOp(op, f, num, param) ==
  [op |-> op, by_name |-> f.by_name, num |-> num, name |-> f.name,
   param |-> param, subordinate |-> FALSE, sub |-> 0]

NoParam == [num |-> 0, c |-> ""]

(* crosstab counts when no operation is given.                             *)
OperationsEnd ==
  /\ At("operations") /\ Peek(sc).tok = "END"
  /\ LET none == dm.ops = << >>
     IN IF \/ none /\ dm.mode = "groupby" /\ ~job.premode
           \/ Len(dm.ops) > 1 /\ dm.mode = "crosstab"
        THEN Stop("refused")
        ELSE Go(Peek(sc), "extra operand",
                IF none /\ dm.mode = "crosstab"
                THEN [dm EXCEPT !.ops = <<FieldOp("count", dm.grps[1],
                                                  dm.grps[1].num, NoParam)>>]
                ELSE dm)

-----------------------------------------------------------------------------
(* parse_operation_params.  Only the first parameter is ever read; a value *)
(* that its token does not set keeps what the memory held.                 *)

Store(s) ==
  [par EXCEPT !.used = @ + 1,
     !.type = IF par.used = 0 THEN s.tok ELSE @,
     !.u = IF par.used = 0 /\ s.tok = "INTEGER" THEN s.int ELSE @,
     !.f = IF par.used # 0 \/ s.tok = "IDENTIFIER" THEN @
           ELSE IF s.tok = "INTEGER" THEN 10 * s.int ELSE s.tenths,
     !.c = IF par.used = 0 /\ s.tok = "IDENTIFIER" THEN s.id ELSE @]

ParseParam ==
  /\ At("parameters") /\ sc.tok = "COLONS"
  /\ LET g == Get(Get(sc))
     IN IF g.tok \in Numbers \cup IF fop = "getnum" THEN {"IDENTIFIER"} ELSE {}
        THEN /\ par' = Store(g)
             /\ sc' = Peek(g)
             /\ UNCHANGED <<job, pc, dm, fop, fields, alloc_fields, p, dangling,
                            undefined, status>>
        ELSE Stop("refused")

ParamsEnd ==
  /\ At("parameters") /\ sc.tok # "COLONS"
  /\ Go(KeepWhitespace(IF sc.tok = "WHITESPACE" THEN Get(sc) ELSE sc, FALSE),
        "column", dm)

-----------------------------------------------------------------------------
(* parse_operation_column and its list                                     *)

Field(s) ==
  [by_name |-> IsName(s), num |-> IF IsName(s) THEN 0 ELSE s.int,
   name |-> IF IsName(s) THEN s.id ELSE "", range |-> FALSE, pair |-> FALSE]

Full == Len(fields) = alloc_fields

(* alloc_next_field: x2nrealloc *)
MakeRoom ==
  alloc_fields' = CASE ~Full -> alloc_fields
                    [] Full /\ alloc_fields = 0 -> FieldsRoom
                    [] OTHER -> alloc_fields + alloc_fields \div 2 + 1

(* Growing may move the fields away from under the pointer p.              *)
MayMove == dangling' \in (IF Full THEN {TRUE, dangling} ELSE {dangling})

ParseColumn ==
  /\ At("column")
  /\ LET g == Get(sc)
     IN IF IsColumn(g)
        THEN /\ MakeRoom
             /\ fields' = Append(fields, Field(g))
             /\ p' = Len(fields) + 1 /\ dangling' = FALSE
             /\ sc' = Peek(g) /\ pc' = "pair"
             /\ UNCHANGED <<job, dm, fop, par, undefined, status>>
        ELSE Stop("refused")

ParsePair ==
  /\ At("pair") /\ sc.tok = "COLONS"
  /\ LET g == Get(Get(sc))
     IN IF IsColumn(g)
        THEN /\ MakeRoom /\ MayMove
             /\ fields' = Append([fields EXCEPT ![p].pair = TRUE], Field(g))
             /\ sc' = Peek(g) /\ pc' = "range"
             /\ UNCHANGED <<job, dm, fop, p, par, undefined, status>>
        ELSE Stop("refused")

InOrder(f, t) == ~f.by_name /\ f.num < t.num

(* Through a dangling pointer the mark may be lost and the comparison may  *)
(* come out either way.                                                    *)
ParseRange ==
  /\ At("pair") \/ At("range")
  /\ sc.tok = "DASH"
  /\ LET g == Get(Get(sc))
         f == fields[p]
     IN \/ ~IsColumn(g) /\ Stop("refused")
        \/ /\ IsColumn(g) /\ ~IsName(g)
           /\ MakeRoom /\ MayMove
           /\ dangling' \/ InOrder(f, Field(g))
           /\ \E kept \in {TRUE, ~dangling} :
                fields' = Append([fields EXCEPT ![p].range = kept], Field(g))
           /\ sc' = Peek(g) /\ pc' = "columns"
           /\ undefined' = (undefined \/ dangling')
           /\ UNCHANGED <<job, dm, fop, p, par, status>>
        \/ /\ IsColumn(g)
           /\ IsName(g) \/ dangling \/ Full \/ ~InOrder(f, Field(g))
           /\ status' = "refused"
           /\ undefined' = (undefined \/ dangling \/ Full)
           /\ UNCHANGED <<job, sc, pc, dm, fop, fields, alloc_fields, p, dangling,
                          par>>

MoreColumns ==
  /\ At("pair") \/ At("range") \/ At("columns")
  /\ sc.tok = "COMMA"
  /\ Go(Get(sc), "column", dm)

ColumnsEnd ==
  /\ \/ At("pair") /\ sc.tok \notin {"COLONS", "DASH", "COMMA"}
     \/ At("range") /\ sc.tok \notin {"DASH", "COMMA"}
     \/ At("columns") /\ sc.tok # "COMMA"
  /\ Go(sc, "create", dm)

-----------------------------------------------------------------------------
(* create_field_ops, one pass of its loop                                  *)

TakesParam == {"bin", "strbin", "perc", "softmax", "trimmean", "getnum"}

(* set_op_params: numbers in tenths, but for strbin.                       *)
Param(op, ps) ==
  LET given(x, default) == IF ps.used = 1 THEN x ELSE default
  IN CASE op = "bin" -> [NoParam EXCEPT !.num = given(ps.f, 1000)]
       [] op = "strbin" -> [NoParam EXCEPT !.num = given(ps.u, 10)]
       [] op = "perc" -> [NoParam EXCEPT !.num = given(ps.f, 950)]
       [] op = "softmax" -> [NoParam EXCEPT !.num = given(ps.f, 10)]
       [] op = "trimmean" -> [NoParam EXCEPT !.num = given(ps.f, 0)]
       [] op = "getnum" -> [NoParam EXCEPT !.c = given(ps.c, "p")]
       [] OTHER -> NoParam

ParamRefused(op, ps) ==
  \/ ps.used > IF op \in TakesParam THEN 1 ELSE 0
  \/ op = "strbin" /\ Param(op, ps).num = 0
  \/ op = "perc" /\ Param(op, ps).num > 1000
  \/ op = "trimmean" /\ Param(op, ps).num > 5
  \/ op = "getnum" /\ Param(op, ps).c \notin GetnumTypes

(* The parameter is read as what its token was not.                        *)
ReadsLeftover(op, ps) ==
  /\ ps.used = 1
  /\ \/ op = "strbin" /\ ps.type # "INTEGER"
     \/ op = "getnum" /\ ps.type # "IDENTIFIER"

SkipOne(f) == IF f.pair THEN 2 ELSE 1   \* mutant: a range end is not skipped

(* The fields that one pass consumes.                                      *)
Consumed(f) == 1 + (IF f.range THEN 1 ELSE 0) + (IF f.pair THEN 1 ELSE 0)

Created(f) ==
  LET op(g, num) == FieldOp(fop, g, num, Param(fop, par))
      to == IF f.range THEN fields[2].num ELSE f.num
      row == <<op(f, f.num)>> \o [k \in 1 .. to - f.num |-> op(f, f.num + k)]
      other == fields[Consumed(f)]
      sub == Len(dm.ops) + Len(row)
  IN IF f.pair
     THEN [row EXCEPT ![Len(row)].subordinate = TRUE]
          \o <<[op(other, other.num) EXCEPT !.sub = sub]>>
     ELSE row

CreateFieldOps ==
  /\ At("create")
  /\ LET f == Head(fields)
         new == Created(f)
         rest == SubSeq(fields, Consumed(f) + 1, Len(fields))
     IN IF ParamRefused(fop, par) \/ NeedsPair(fop) # f.pair
        THEN Stop("refused")
        ELSE /\ dm' = [dm EXCEPT !.ops = @ \o new,
                         !.header_required =
                           @ \/ \E k \in DOMAIN new : new[k].by_name]
             /\ fields' = rest
             /\ pc' = IF rest = << >> THEN "operations" ELSE "create"
             /\ undefined' = (undefined \/ ReadsLeftover(fop, par))
             /\ UNCHANGED <<job, sc, fop, alloc_fields, p, dangling, par, status>>

-----------------------------------------------------------------------------
(* The end of parse_mode, and the check of main on named columns.  After   *)
(* -g, or with no word for a mode, the operations ended at the end.        *)
Finish ==
  /\ At("extra operand")
  /\ IF Peek(sc).tok # "END" \/ (dm.header_required /\ ~job.input_header)
     THEN Stop("refused") ELSE Stop("accepted")

Stopped == status # "parsing" /\ UNCHANGED vars

Next ==
  \/ ParseModeOrOp
  \/ ParseModeColumn \/ MoreModeColumns \/ ModeColumnsEnd
  \/ CheckOption \/ CheckEnds
  \/ ParseOperation \/ OperationsEnd
  \/ ParseParam \/ ParamsEnd
  \/ ParseColumn \/ ParsePair \/ ParseRange \/ MoreColumns \/ ColumnsEnd
  \/ CreateFieldOps
  \/ Finish
  \/ Stopped

Spec == Init /\ [][Next]_vars
=============================================================================
