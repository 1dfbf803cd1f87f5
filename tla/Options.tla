------------------------------ MODULE Options -------------------------------
(***************************************************************************)
(* The command line of datamash, from main: what a sequence of options     *)
(* leaves in the settings of text-options.c and datamash.c, the checks     *)
(* that follow, and the sort command that open_input builds from it.       *)
(*                                                                         *)
(* An option is its name, as in long_options, and its argument: a sequence *)
(* of characters arg, or a number num for --round and -S.  Of              *)
(* getopt_long only this is modelled: -S takes an argument, and --seed,    *)
(* being no_argument in long_options, does not.  --help, --version and the *)
(* options that print one thing and exit are left out.                     *)
(***************************************************************************)
EXTENDS TextFunctions

(* The delimiters that are no character of an argument.                    *)
Whitespace == "TAB_WHITESPACE"
Tab        == "\t"
Nothing    == "-1"                       \* explicit_output_delimiter unset

Defaults ==
  [status |-> "parsing",
   skip_comments |-> FALSE, missing_field_filler |-> <<"N", "/", "A">>,
   print_full_line |-> FALSE, premode |-> FALSE, case_sensitive |-> TRUE,
   vnlog |-> FALSE, eolchar |-> "\n", input_header |-> FALSE,
   output_header |-> FALSE, numeric_output_format |-> <<"%", ".", 14, "L", "g">>,
   pipe_through_sort |-> FALSE, seed |-> 0, strict |-> TRUE,
   remove_na_values |-> FALSE, in_tab |-> Tab, out_tab |-> Tab,
   explicit_output_delimiter |-> Nothing, collapse_separator |-> ","]

(* --round takes 1 to 50 digits, -S no negative number, a delimiter is *)
(* one character.                                                          *)
BadArgument(o) ==
  \/ o.name = "round" /\ o.num \notin 1 .. 50
  \/ o.name = "S" /\ o.num < 0
  \/ o.name = "format" /\ validate_double_format(o.arg) = RefusedFormat
  \/ /\ o.name \in {"field-separator", "output-delimiter", "collapse-delimiter"}
     /\ Len(o.arg) # 1

VnlogFormat(s) ==
  [s EXCEPT !.vnlog = TRUE, !.skip_comments = TRUE, !.input_header = TRUE,
            !.output_header = TRUE, !.missing_field_filler = <<"-">>,
            !.in_tab = Whitespace, !.out_tab = " "]

(* One round of the loop in main.                                          *)
Accept(s, o) ==
  CASE o.name = "skip-comments" -> [s EXCEPT !.skip_comments = TRUE]
    [] o.name = "filler"     -> [s EXCEPT !.missing_field_filler = o.arg]
    [] o.name = "full"       -> [s EXCEPT !.print_full_line = TRUE]
    [] o.name = "group"      -> [s EXCEPT !.premode = TRUE]
    [] o.name = "ignore-case" -> [s EXCEPT !.case_sensitive = FALSE]
    [] o.name = "vnlog"      -> VnlogFormat(s)
    [] o.name = "zero-terminated" -> [s EXCEPT !.eolchar = "NUL"]
    [] o.name = "header-in"  -> [s EXCEPT !.input_header = TRUE]
    [] o.name = "header-out" -> [s EXCEPT !.output_header = TRUE]
    [] o.name = "headers"    -> [s EXCEPT !.input_header = TRUE,
                                          !.output_header = TRUE]
    [] o.name = "round"      -> [s EXCEPT !.numeric_output_format =
                                            <<"%", ".", o.num, "L", "f">>]
    [] o.name = "format"     -> [s EXCEPT !.numeric_output_format =
                                            validate_double_format(o.arg)]
    [] o.name = "sort"       -> [s EXCEPT !.pipe_through_sort = TRUE]
    [] o.name = "S"          -> [s EXCEPT !.seed = o.num]
    [] o.name = "no-strict"  -> [s EXCEPT !.strict = FALSE]
    [] o.name = "narm"       -> [s EXCEPT !.remove_na_values = TRUE]
    [] o.name = "field-separator"  -> [s EXCEPT !.in_tab = o.arg[1],
                                                !.out_tab = o.arg[1]]
    [] o.name = "output-delimiter" -> [s EXCEPT !.explicit_output_delimiter = o.arg[1]]
    [] o.name = "whitespace"       -> [s EXCEPT !.in_tab = Whitespace, !.out_tab = Tab]
    [] o.name = "collapse-delimiter" -> [s EXCEPT !.collapse_separator = o.arg[1]]

(* --seed passes the null pointer to strtol.                               *)
Option(s, o) ==
  IF s.status # "parsing" THEN s
  ELSE IF o.name = "seed" THEN [s EXCEPT !.status = "undefined"]
  ELSE IF BadArgument(o) THEN [s EXCEPT !.status = "bad argument"]
  ELSE Accept(s, o)

DelimitedIfTab(s) ==             \* mutant: only the default is overridden
  IF s.explicit_output_delimiter = Nothing \/ s.out_tab # Tab THEN s
  ELSE [s EXCEPT !.out_tab = s.explicit_output_delimiter]

(* --output-delimiter overrides every other output delimiter.              *)
Delimited(s) ==
  IF s.explicit_output_delimiter = Nothing THEN s
  ELSE [s EXCEPT !.out_tab = s.explicit_output_delimiter]

(* What the checks of vnlog want.                                          *)
KeepsVnlog(s) ==
  /\ s.skip_comments /\ s.input_header /\ s.output_header
  /\ s.missing_field_filler = <<"-">>
  /\ s.in_tab = Whitespace /\ s.out_tab = " "
  /\ s.explicit_output_delimiter = Nothing
  /\ s.eolchar = "\n"

(* The rest of main up to open_input.  Of the operations, whether there    *)
(* are any, whether one names a column, and how many keys there are; what  *)
(* the parser refuses is in OpParser.                                      *)
Checked(s, operations) ==
  IF s.status # "parsing" THEN s
  ELSE IF ~operations.present THEN [s EXCEPT !.status = "usage"]
  ELSE LET d == Delimited(s)
       IN  [d EXCEPT !.status =
              IF operations.header_required /\ ~d.input_header THEN "no header"
              ELSE IF d.vnlog /\ ~KeepsVnlog(d) THEN "not vnlog"
              ELSE "ready"]

main(options, operations) ==
  Checked(FoldLeft(Option, Defaults, options), operations)

(* open_input: the arguments of the sort command, but for its keys; none   *)
(* when the input is read as it is.                                        *)
SortArguments(s, operations) ==
  IF ~s.pipe_through_sort \/ operations.num_grps = 0 THEN {}
  ELSE {<<"-s">>}
         \cup (IF s.eolchar = "NUL" THEN {<<"-z">>} ELSE {})
         \cup (IF s.case_sensitive THEN {} ELSE {<<"-f">>})
         \cup (IF s.in_tab = Whitespace THEN {} ELSE {<<"-t", s.in_tab>>})

-----------------------------------------------------------------------------
(* What the options mean, said of the whole command line.                  *)

Given(options, names) == {i \in DOMAIN options : options[i].name \in names}

(* Of the options with one of these names the last decides.                *)
LastOf(options, names) == options[Max(Given(options, names))]

Decided(options, names, default, ValueOf(_)) ==
  IF Given(options, names) = {} THEN default ELSE ValueOf(LastOf(options, names))

TabNames    == {"field-separator", "whitespace", "vnlog"}
FillerNames == {"filler", "vnlog"}
FormatNames == {"round", "format"}

InTabOf(o)  == IF o.name = "field-separator" THEN o.arg[1] ELSE Whitespace
OutTabOf(o) == IF o.name = "field-separator" THEN o.arg[1]
               ELSE IF o.name = "vnlog" THEN " " ELSE Tab
FillerOf(o) == IF o.name = "filler" THEN o.arg ELSE <<"-">>
FormatOf(o) == IF o.name = "round" THEN <<"%", ".", o.num, "L", "f">>
               ELSE validate_double_format(o.arg)
CharOf(o)   == o.arg[1]
NumOf(o)    == o.num

InputTab(options) == Decided(options, TabNames, Tab, InTabOf)

OutputTab(options) ==
  Decided(options, {"output-delimiter"},
          Decided(options, TabNames, Tab, OutTabOf), CharOf)

(* What no delimiter and no argument of sort depends on.                   *)
OthersMean(options, s) ==
  LET Has(names) == Given(options, names) # {}
  IN  /\ s.missing_field_filler =
           Decided(options, FillerNames, <<"N", "/", "A">>, FillerOf)
      /\ s.numeric_output_format =
           Decided(options, FormatNames, <<"%", ".", 14, "L", "g">>, FormatOf)
      /\ s.seed = Decided(options, {"S"}, 0, NumOf)
      /\ s.collapse_separator = Decided(options, {"collapse-delimiter"}, ",", CharOf)
      /\ s.print_full_line <=> Has({"full"})
      /\ s.premode <=> Has({"group"})
      /\ s.case_sensitive <=> ~Has({"ignore-case"})
      /\ s.vnlog <=> Has({"vnlog"})
      /\ s.eolchar = "NUL" <=> Has({"zero-terminated"})
      /\ s.strict <=> ~Has({"no-strict"})
      /\ s.remove_na_values <=> Has({"narm"})
      /\ s.skip_comments <=> Has({"skip-comments", "vnlog"})
      /\ s.input_header <=> Has({"header-in", "headers", "vnlog"})
      /\ s.output_header <=> Has({"header-out", "headers", "vnlog"})

(* The program that begins to read has every setting as the options say,   *)
(* in whatever order they came: of those that set the same thing the last  *)
(* decides, and no other changes it.  sort ends lines, splits them and     *)
(* compares letters as datamash does; vnlog in is vnlog out.  It refuses   *)
(* to begin only with a reason.                                            *)
OptionsMean(options, operations) ==
  LET s    == main(options, operations)
      sort == SortArguments(s, operations)
      Has(name) == Given(options, {name}) # {}
  IN  /\ s.status = "ready" =>
           /\ Given(options, {"seed"}) = {}
           /\ ~\E i \in DOMAIN options : BadArgument(options[i])
           /\ s.in_tab = InputTab(options) /\ s.out_tab = OutputTab(options)
           /\ OthersMean(options, s)
           /\ sort # {} =>
                /\ <<"-z">> \in sort <=> Has("zero-terminated")
                /\ <<"-f">> \in sort <=> Has("ignore-case")
                /\ {a[2] : a \in {b \in sort : Len(b) = 2}}
                     = {InputTab(options)} \ {Whitespace}
           /\ sort # {} <=> Has("sort") /\ operations.num_grps > 0
           /\ Has("vnlog") =>
                /\ s.in_tab = Whitespace /\ s.out_tab = " " /\ s.eolchar = "\n"
                /\ s.input_header /\ s.output_header /\ s.skip_comments
                /\ s.missing_field_filler = <<"-">>
           /\ operations.header_required => s.input_header
      /\ s.status = "not vnlog" =>
           Has("vnlog") /\ Given(options, {"filler", "field-separator",
             "whitespace", "output-delimiter", "zero-terminated"}) # {}
=============================================================================
