---------------------------- MODULE MCOpParser -----------------------------
(***************************************************************************)
(* OpParser for TLC: commands, right and wrong, and any short text behind  *)
(* the word of a mode or operation.                                        *)
(***************************************************************************)
EXTENDS CommandLine

N1 == Number(1)
N2 == Number(2)
N3 == Number(3)
X == Word("x")

Items == {One(N1), One(N2), One(X), One(Number(0)), Span(N1, N3), Span(N2, N2),
          Span(N3, N1), Span(X, N2), Pair(N1, N2), Pair(X, N3)}

Upto(S, n) == UNION {[1 .. k -> S] : k \in 0 .. n}

Params == { << >>, <<N2>>, <<Number(101)>>, <<Tenths(4)>>, <<Word("h")>>,
            <<Word("z")>>, <<N1, N2>> }

Sums(items) == <<Operation("count", << >>, items)>>

(* Lists of groups; lists of columns; parameters; several operations.      *)
Commands ==
  {Command(m, g, Sums(<<One(N2)>>), << >>) :
     m \in {"groupby", "crosstab", "-g"}, g \in Upto(Items, 2) \ {<< >>}}
  \cup {Command(m, g, << >>, << >>) :
          m \in {"crosstab", "rmdup"}, g \in Upto(Items, 2) \ {<< >>}}
  \cup {Command("", << >>, <<Operation(op, << >>, is)>>, << >>) :
          op \in {"count", "pcov"}, is \in Upto(Items, 2) \ {<< >>}}
  \cup {Command("", << >>, <<Operation(op, ps, <<One(N1)>>)>>, << >>) :
          op \in OpWords \ {"pcov"}, ps \in Params}
  \cup {Command(m, IF m = "" THEN << >> ELSE <<One(X)>>,
                <<Operation(o1, << >>, is), Operation(o2, <<N2>>, <<Span(N1, N2)>>)>>,
                << >>) :
          m \in {"", "groupby", "crosstab"}, o1 \in {"md5", "count"},
          o2 \in {"bin", "perc"}, is \in {<<One(N1)>>, <<One(N1), One(X)>>}}
  \cup {Command("", << >>, <<Operation("bin", <<N2>>, <<One(N1)>>),
                              Operation(op, ps, <<One(N1)>>)>>, << >>) :
          op \in {"getnum", "strbin", "md5"}, ps \in Params}
  \cup {Command("", << >>,
                <<Operation("pcov", << >>, <<Pair(N1, N2)>>),
                  Operation(op, << >>, is)>>, << >>) :
          op \in {"pcov", "count"},
          is \in {<<Pair(N2, N3), Pair(X, N1)>>,
                  <<One(N1), One(N2), One(N3), Span(N1, N3)>>,
                  <<One(N1), One(N2), Span(N1, N2), Span(N1, N3)>>}}
  \cup {Command(m, << >>, << >>, ls) :
          m \in {"check"},
          ls \in Upto({Limit(o, n, f) : o \in {"lines", "fields"},
                                        n \in {0, 2, 3}, f \in BOOLEAN}, 2)}
  \cup {Command(m, << >>, << >>, << >>) : m \in {"transpose", "noop", "reverse"}}

(* What a column of a text may be made of; 8 and 10 do not fit into an int.*)
Pieces == {N1, N2, X, Comma, Dash, Colons, Space}
Other == {Number(8), Number(10), Tenths(15), Bad, Word("count"), Word("lines")}

Tails == Upto(Pieces, 3) \cup {<<a, b>> : a, b \in Pieces \cup Other}
           \cup {<<a, b, c>> : a, c \in Pieces \cup Other, b \in {Dash, Space}}

(* No two pieces that would be scanned as one.                             *)
Apart(t) ==
  \A k \in 1 .. Len(t) - 1 :
    /\ t[k].tok = "IDENTIFIER" => t[k + 1].tok \notin {"IDENTIFIER"} \cup Numbers
    /\ t[k].tok \in Numbers => t[k + 1].tok \notin Numbers

ShortTexts == {t \in Tails : Apart(t)}

Texts ==
  {Text(<< <<Word(w)>>, t >>) : w \in {"rmdup", "pcov", "check"}, t \in ShortTexts}
  \cup {Text(<< <<Word("groupby")>>, t, <<Word("count")>>, <<N1>> >>) : t \in ShortTexts}
  \cup {Text(<< <<Word("strbin")>> \o t, <<N1>> >>) : t \in Upto(Pieces, 2)}
  \cup {Text(<<t>>) : t \in {<< >>, <<Space>>, <<X>>, <<N1>>, <<Word("line")>>}}
  \cup {[Text(<<a>>) EXCEPT !.premode = TRUE, !.grouping = t] :
          a \in {<< >>, <<Word("count"), Space, N1>>},
          t \in {t \in Upto(Pieces \cup {Number(0)}, 3) : Apart(t)}}
  \cup {Text(<< <<Word("crosstab")>>, <<a, b, c>> >>) :
          a, c \in {Number(0), N1, Number(16), Number(17)}, b \in {Comma, Dash}}

MCJobs ==
  {Written(c, FALSE, header) : c \in Commands, header \in BOOLEAN}
  \cup {Written(c, TRUE, TRUE) : c \in Commands}
  \cup Texts

MCLeftover == {[u |-> 0, c |-> "z"], [u |-> 3, c |-> "h"]}
=============================================================================
