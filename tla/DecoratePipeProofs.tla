------------------------- MODULE DecoratePipeProofs -------------------------
(***************************************************************************)
(* Proofs about DecoratePipe: for every input, every number of header      *)
(* lines and every size of the pipes, whatever the three processes do      *)
(* before, after or instead of each other.                                 *)
(***************************************************************************)
EXTENDS DecoratePipe, SequenceTheorems, FiniteSetTheorems, TLAPS

-----------------------------------------------------------------------------
(* The inductive invariant, in eight parts.                                *)

MainPlaces == {"fork-1", "fork-2", "set up", "copy", "fclose", "close",
               "wait undec", "wait sort", "exit", "gone"}

SortPlaces == {"none", "set up", "copy", "write", "gone"}

UndecPlaces == {"none", "set up", "copy", "exit", "gone"}

Unsorted == pc["sort"] \in {"none", "set up", "copy"}

(* Where the processes are, and what each has done there.                  *)
Control ==
  /\ pc["main"] \in MainPlaces
  /\ pc["sort"] \in SortPlaces
  /\ pc["undec"] \in UndecPlaces
  /\ code["main"] = "running" <=> pc["main"] \notin {"exit", "gone"}
  /\ code["sort"] = "ok" => pc["sort"] = "gone"
  /\ pc["main"] = "fork-1" => pc["undec"] = "none"
  /\ pc["main"] \in {"fork-1", "fork-2"} => pc["sort"] = "none"
  /\ pc["main"] \notin {"fork-1", "gone"} => pc["undec"] # "none"
  /\ pc["main"] \notin {"fork-1", "fork-2", "gone"} => pc["sort"] # "none"
  /\ pc["main"] = "wait sort" => pc["undec"] = "gone"
  /\ code["main"] = "ok" => pc["undec"] = "gone" /\ pc["sort"] = "gone"

(* The writing ends that are open.                                         *)
Open ==
  /\ pc["main"] \in {"fork-1", "fork-2", "set up"} => fd["main"] = WithPipes
  /\ pc["main"] \in {"copy", "fclose", "close"} => fd["main"]["ds_w"] = "ds_w"
  /\ pc["sort"] \in {"set up", "copy", "write"} => fd["sort"]["su_w"] = "su_w"

(* What is done when a process goes on.                                    *)
Done ==
  /\ pc["main"] \in {"fclose", "close", "wait undec", "wait sort"} \/ code["main"] = "ok" =>
       pos = Len(input)
  /\ pc["main"] \in {"close", "wait undec", "wait sort"} \/ code["main"] = "ok" =>
       stdout["main"] = << >>
  /\ pc["main"] = "gone" /\ code["main"] = "ok" => header_out = << >>
  /\ pc["undec"] \in {"exit", "gone"} =>
       /\ pc["sort"] = "gone" \/ (pc["sort"] = "none" /\ pc["main"] = "gone")
       /\ pipe["su"] = << >>
  /\ pc["undec"] = "gone" => stdout["undec"] = << >>

HeadersRead == IF pos < HeaderCount THEN pos ELSE HeaderCount

(* How many header lines are in the output.                                *)
HeadersOut == HeadersRead - Len(header_out)

NoHeader(q, count) == \A k \in 1 .. Len(q) : q[k] = 0 \/ q[k] > count

Headers ==
  /\ skip_header_lines = IF pos < job.header THEN job.header - pos ELSE 0
  /\ skip_header_lines = 0 => header_out = << >>
  /\ Len(header_out) <= HeadersRead
  /\ \A i \in 1 .. Len(header_out) : header_out[i] = HeadersOut + i
  /\ HeadersOut <= Len(output)
  /\ \A i \in 1 .. Len(output) :
       IF i <= HeadersOut THEN output[i].line = i
       ELSE output[i].line = 0 \/ output[i].line > HeaderCount

Carried ==
  /\ NoHeader(stdout["main"], HeaderCount) /\ NoHeader(pipe["ds"], HeaderCount)
  /\ NoHeader(held, HeaderCount) /\ NoHeader(pipe["su"], HeaderCount)
  /\ NoHeader(stdout["undec"], HeaderCount)
  /\ pos <= HeaderCount =>
       stdout["main"] = << >> /\ pipe["ds"] = << >> /\ held = << >>
  /\ pos <= HeaderCount \/ Unsorted =>
       /\ pipe["su"] = << >> /\ stdout["undec"] = << >>
       /\ Len(output) = HeadersOut

(* The lines behind the header on their way, before and after sort.        *)
Before == (held \o pipe["ds"]) \o stdout["main"]

Written == [i \in 1 .. Len(output) - HeadersOut |-> output[HeadersOut + i].line]

After == (Written \o stdout["undec"]) \o (pipe["su"] \o held)

(* KeyOf, InOrder and StandsIn, of the lines of the input that is given.   *)
KeyIn(lines, n) == IF n = 0 THEN 0 ELSE lines[n].key

Ordered(unique, lines, ns) ==
  \A i, k \in 1 .. Len(ns) : i < k =>
    /\ KeyIn(lines, ns[i]) <= KeyIn(lines, ns[k])
    /\ unique => KeyIn(lines, ns[i]) # KeyIn(lines, ns[k])

(* Every line of S is one of T, or with -u there is another for it.        *)
AllIn(unique, lines, S, T) ==
  \A n \in S \ T : \E m \in T : unique /\ KeyIn(lines, m) = KeyIn(lines, n)

DataRead == IF pos < HeaderCount THEN 0 ELSE pos - HeaderCount

(* No line has come out of sort.                                           *)
Nothing ==
  pipe["su"] = << >> /\ stdout["undec"] = << >> /\ Len(output) = HeadersOut

(* sort has put the lines in order, whatever became of it then.            *)
Sorted == pc["sort"] = "write" \/ code["sort"] = "ok" \/ ~Nothing

Converted == \A n \in HeaderCount + 1 .. pos : input[n].key # 0

Waiting ==
  Len(Before) = DataRead /\ \A i \in 1 .. Len(Before) : Before[i] = HeaderCount + i

WaitedFor == pc["main"] \in {"wait undec", "wait sort", "exit", "gone"}

Through ==
  /\ Range(After) \subseteq HeaderCount + 1 .. Len(input)
  /\ AllIn(job.unique, input, HeaderCount + 1 .. Len(input), Range(After))
  /\ IsInjective(After)
  /\ Ordered(job.unique, input, After)

Flow ==
  code["main"] \in {"running", "ok"} =>
    /\ Converted
    /\ ~job.check => (Unsorted => Waiting) /\ (Sorted => WaitedFor /\ Through)
    /\ code["sort"] = "ok" => held = << >>

(* sort --check writes nothing.                                            *)
Checked ==
  job.check => Nothing /\ (pc["sort"] = "write" => held = << >>)

IInv == /\ TypeOK /\ Control /\ Open /\ Done
        /\ Headers /\ Carried /\ Flow /\ Checked

-----------------------------------------------------------------------------
(* Types.                                                                  *)

Places == {"none", "fork-1", "fork-2", "set up", "copy", "fclose", "close",
           "wait undec", "wait sort", "write", "exit", "gone"}

Codes == {"running", "ok", "error", "signal"}

ShowsTo(n) == [line : 0 .. n, text : Text]

Shows == ShowsTo(pos)

(* The values behind the variables.                                        *)
LEMMA Types ==
  ASSUME TypeOK
  PROVE  /\ job \in JobType /\ job.header \in Nat /\ job.check \in BOOLEAN
         /\ input \in Seq(Line) /\ Len(input) \in Nat
         /\ \A n \in 1 .. Len(input) : input[n].key \in Nat /\ input[n].text \in Text
         /\ pos \in Nat /\ pos <= Len(input)
         /\ skip_header_lines \in Nat
         /\ stdout["main"] \in Seq(0 .. pos) /\ stdout["undec"] \in Seq(0 .. pos)
         /\ pipe["ds"] \in Seq(0 .. pos) /\ pipe["su"] \in Seq(0 .. pos)
         /\ held \in Seq(0 .. pos) /\ header_out \in Seq(1 .. pos)
         /\ output \in Seq(Shows)
PROOF
  <1>1. job \in JobType /\ input \in Seq(Line)
    BY DecoratePipeAssumption DEF TypeOK
  <1>2. Len(input) \in Nat /\ \A n \in 1 .. Len(input) : input[n] \in Line
    BY <1>1
  <1>3. \A n \in 1 .. Len(input) : input[n].key \in Nat /\ input[n].text \in Text
    BY <1>2 DEF Line
  <1>4. job.header \in Nat /\ job.check \in BOOLEAN
    BY <1>1 DEF JobType
  <1>5. pos \in 0 .. Len(input) /\ skip_header_lines \in 0 .. job.header
    BY DEF TypeOK
  <1>6. pos \in Nat /\ pos <= Len(input) /\ skip_header_lines \in Nat
    BY <1>2, <1>4, <1>5
  <1>7. /\ stdout["main"] \in Seq(0 .. pos) /\ stdout["undec"] \in Seq(0 .. pos)
        /\ pipe["ds"] \in Seq(0 .. pos) /\ pipe["su"] \in Seq(0 .. pos)
        /\ held \in Seq(0 .. pos) /\ header_out \in Seq(1 .. pos)
    BY DEF TypeOK, Pipe
  <1>8. output \in Seq(Shows)
    BY DEF TypeOK, Shows, ShowsTo
  <1> QED BY <1>1, <1>2, <1>3, <1>4, <1>6, <1>7, <1>8

ControlType ==
  /\ pc \in [Proc -> Places] /\ code \in [Proc -> Codes] /\ fd \in [Proc -> [Fd -> End]]

LEMMA AfterSetUpType ==
  ASSUME ControlType, NEW p \in Proc
  PROVE  AfterSetUp(p) \in [Fd -> End]
PROOF
  <1>1. ASSUME NEW n \in Fd, n \in DOMAIN Redirect[p]
        PROVE  Redirect[p][n] \in End
    <2>1. CASE p = "main"
      BY <1>1, <2>1 DEF Redirect, End
    <2>2. CASE p = "sort"
      BY <1>1, <2>2 DEF Redirect, End
    <2>3. CASE p = "undec"
      BY <1>1, <2>3 DEF Redirect, End
    <2> QED BY <2>1, <2>2, <2>3 DEF Proc
  <1>2. \A n \in Fd : fd[p][n] \in End
    BY DEF ControlType
  <1>3. "closed" \in End
    BY DEF End
  <1> QED BY <1>1, <1>2, <1>3 DEF AfterSetUp

(* What the steps of a process change of the three.                        *)
LEMMA EndsFacts ==
  ASSUME ControlType, NEW p \in Proc, NEW c \in Codes, Ends(p, c)
  PROVE  /\ ControlType'
         /\ pc'[p] = "gone" /\ code'[p] = c /\ fd'[p] = NoFds
         /\ \A q \in Proc \ {p} : pc'[q] = pc[q] /\ code'[q] = code[q] /\ fd'[q] = fd[q]
PROOF
  <1>1. NoFds \in [Fd -> End] /\ "gone" \in Places
    BY DEF NoFds, End, Places
  <1> HIDE DEF NoFds
  <1> QED BY <1>1 DEF Ends, ControlType

LEMMA ExitFacts ==
  ASSUME ControlType, NEW p \in Proc, NEW c \in Codes, Exit(p, c)
  PROVE  /\ ControlType'
         /\ pc'[p] = "exit" /\ code'[p] = c /\ fd' = fd
         /\ \A q \in Proc \ {p} : pc'[q] = pc[q] /\ code'[q] = code[q]
PROOF
  <1>1. "exit" \in Places
    BY DEF Places
  <1> QED BY <1>1 DEF Exit, ControlType

LEMMA GoToFacts ==
  ASSUME ControlType, NEW p \in Proc, NEW where \in Places, GoTo(p, where)
  PROVE  /\ ControlType'
         /\ pc'[p] = where /\ code' = code /\ fd' = fd
         /\ \A q \in Proc \ {p} : pc'[q] = pc[q]
PROOF
  BY DEF GoTo, ControlType

LEMMA SetUpFacts ==
  ASSUME ControlType, NEW p \in Proc, SetUp(p)
  PROVE  /\ ControlType'
         /\ pc[p] = "set up"
         /\ \A q \in Proc \ {p} : pc'[q] = pc[q] /\ code'[q] = code[q] /\ fd'[q] = fd[q]
         /\ \/ pc'[p] = "copy" /\ code' = code /\ fd'[p] = AfterSetUp(p)
            \/ /\ p = "sort" /\ pc'[p] = "gone" /\ code'[p] = "error"
               /\ fd'[p] = NoFds
PROOF
  <1>1. CASE p = "sort" /\ Ends("sort", "error")
    <2>1. "sort" \in Proc /\ "error" \in Codes
      BY DEF Proc, Codes
    <2> QED BY <1>1, <2>1, EndsFacts DEF SetUp
  <1>2. CASE /\ pc' = [pc EXCEPT ![p] = "copy"]
             /\ fd' = [fd EXCEPT ![p] = AfterSetUp(p)]
             /\ UNCHANGED code
    <2>1. AfterSetUp(p) \in [Fd -> End] /\ "copy" \in Places
      BY AfterSetUpType DEF Places
    <2> QED BY <1>2, <2>1 DEF SetUp, ControlType
  <1> QED BY <1>1, <1>2 DEF SetUp

LEMMA SetUpOf ==
  ASSUME ControlType
  PROVE  /\ SetUp("main") =>
              /\ pc["main"] = "set up" /\ pc'["main"] = "copy" /\ code' = code
              /\ fd'["main"] = AfterSetUp("main")
              /\ pc'["sort"] = pc["sort"] /\ fd'["sort"] = fd["sort"]
              /\ pc'["undec"] = pc["undec"] /\ fd'["undec"] = fd["undec"]
         /\ SetUp("sort") =>
              /\ pc["sort"] = "set up"
              /\ \/ /\ pc'["sort"] = "copy" /\ code'["sort"] = code["sort"]
                    /\ fd'["sort"] = AfterSetUp("sort")
                 \/ pc'["sort"] = "gone" /\ code'["sort"] = "error"
              /\ pc'["main"] = pc["main"] /\ fd'["main"] = fd["main"]
              /\ pc'["undec"] = pc["undec"] /\ fd'["undec"] = fd["undec"]
              /\ code'["main"] = code["main"]
         /\ SetUp("undec") =>
              /\ pc["undec"] = "set up" /\ pc'["undec"] = "copy" /\ code' = code
              /\ pc'["main"] = pc["main"] /\ fd'["main"] = fd["main"]
              /\ pc'["sort"] = pc["sort"] /\ fd'["sort"] = fd["sort"]
PROOF
  <1> DEFINE others(p) == \A q \in Proc \ {p} :
                            pc'[q] = pc[q] /\ code'[q] = code[q] /\ fd'[q] = fd[q]
             done(p) == \/ pc'[p] = "copy" /\ code' = code /\ fd'[p] = AfterSetUp(p)
                        \/ /\ p = "sort" /\ pc'[p] = "gone" /\ code'[p] = "error"
                           /\ fd'[p] = NoFds
  <1>1. \A p \in Proc : SetUp(p) => pc[p] = "set up" /\ others(p) /\ done(p)
    BY SetUpFacts, Zenon
  <1>2. "main" \in Proc /\ "sort" \in Proc /\ "undec" \in Proc
    BY DEF Proc
  <1>3. SetUp("main") => pc["main"] = "set up" /\ others("main") /\ done("main")
    BY <1>1, <1>2, Zenon
  <1>4. SetUp("sort") => pc["sort"] = "set up" /\ others("sort") /\ done("sort")
    BY <1>1, <1>2, Zenon
  <1>5. SetUp("undec") => pc["undec"] = "set up" /\ others("undec") /\ done("undec")
    BY <1>1, <1>2, Zenon
  <1> HIDE DEF SetUp
  <1> QED BY <1>2, <1>3, <1>4, <1>5

LEMMA ForkFacts ==
  ASSUME ControlType, NEW at, NEW child \in {"sort", "undec"}, NEW next \in Places,
         Fork(at, child, next)
  PROVE  /\ ControlType'
         /\ pc["main"] = at
         /\ \/ /\ pc'["main"] = next /\ pc'[child] = "set up"
               /\ fd'[child] = fd["main"] /\ code' = code
               /\ \A q \in Proc \ {child, "main"} : pc'[q] = pc[q]
               /\ \A q \in Proc \ {child} : fd'[q] = fd[q]
            \/ /\ pc'["main"] = "gone" /\ code'["main"] = "error"
               /\ \A q \in Proc \ {"main"} :
                    pc'[q] = pc[q] /\ code'[q] = code[q] /\ fd'[q] = fd[q]
PROOF
  <1>1. CASE Ends("main", "error")
    <2>1. "main" \in Proc /\ "error" \in Codes
      BY DEF Proc, Codes
    <2> QED BY <1>1, <2>1, EndsFacts DEF Fork
  <1>2. CASE /\ pc' = [pc EXCEPT !["main"] = next, ![child] = "set up"]
             /\ fd' = [fd EXCEPT ![child] = fd["main"]]
             /\ UNCHANGED code
    <2>1. "main" \in Proc /\ child \in Proc /\ child # "main" /\ "set up" \in Places
      BY DEF Proc, Places
    <2> QED BY <1>2, <2>1 DEF Fork, ControlType
  <1> QED BY <1>1, <1>2 DEF Fork

(* A step that changes no line, no buffer and no pipe.                     *)
DataSame ==
  UNCHANGED <<job, input, pos, skip_header_lines, stdout, full, header_out,
              pipe, held, output>>

Rests ==
  \/ ForkUndecorate \/ ForkSort \/ SetUp("main") \/ SetUp("sort") \/ SetUp("undec")
  \/ EndOfInput \/ CloseStdout \/ CloseWriteEnd \/ Wait
  \/ SortExits \/ SortBreaks \/ EndOfSorted \/ ExitUndecorate
  \/ WriteToSort /\ ~IsOpen("ds_r")
  \/ SortWrites /\ ~IsOpen("su_r")

(* The steps that move a line.                                             *)
Moves ==
  \/ CopyHeader \/ Decorate \/ ExitMain
  \/ WriteToSort /\ IsOpen("ds_r")
  \/ SortReads \/ SortSorts
  \/ SortWrites /\ IsOpen("su_r")
  \/ Undecorate \/ WriteToUser

LEMMA StepKinds == Next => Rests \/ Moves
BY DEF Next, Main, Sort, Undec, Rests, Moves

LEMMA RestsSame == Rests => DataSame
PROOF
  <1> SUFFICES ASSUME Rests PROVE DataSame
    OBVIOUS
  <1>1. CASE ForkUndecorate \/ ForkSort
    BY <1>1 DEF ForkUndecorate, ForkSort, Fork, DataSame
  <1>2. CASE SetUp("main") \/ SetUp("sort") \/ SetUp("undec")
    BY <1>2 DEF SetUp, DataSame
  <1>3. CASE EndOfInput \/ CloseStdout \/ CloseWriteEnd \/ Wait
    BY <1>3 DEF EndOfInput, CloseStdout, CloseWriteEnd, Wait, DataSame
  <1>4. CASE SortExits \/ SortBreaks \/ EndOfSorted \/ ExitUndecorate
    BY <1>4 DEF SortExits, SortBreaks, EndOfSorted, ExitUndecorate, DataSame
  <1>5. CASE WriteToSort /\ ~IsOpen("ds_r")
    BY <1>5 DEF WriteToSort, DataSame
  <1>6. CASE SortWrites /\ ~IsOpen("su_r")
    BY <1>6 DEF SortWrites, DataSame
  <1> QED BY <1>1, <1>2, <1>3, <1>4, <1>5, <1>6 DEF Rests

LEMMA Names ==
  /\ "main" \in Proc /\ "sort" \in Proc /\ "undec" \in Proc
  /\ {"ok", "error", "signal", "running"} \subseteq Codes
  /\ {"none", "fork-1", "fork-2", "set up", "copy", "fclose", "close", "wait undec",
      "wait sort", "write", "exit", "gone"} \subseteq Places
BY DEF Proc, Codes, Places

(* Closing a descriptor of the main process.                               *)
LEMMA CloseFacts ==
  ASSUME ControlType, NEW next \in Places, NEW n \in Fd,
         pc' = [pc EXCEPT !["main"] = next],
         fd' = [fd EXCEPT !["main"][n] = "closed"], code' = code
  PROVE  /\ ControlType'
         /\ pc'["main"] = next
         /\ \A m \in Fd \ {n} : fd'["main"][m] = fd["main"][m]
         /\ \A q \in Proc \ {"main"} : pc'[q] = pc[q] /\ fd'[q] = fd[q]
PROOF
  <1>1. "closed" \in End /\ "main" \in Proc
    BY DEF End, Proc
  <1>2. fd["main"] \in [Fd -> End]
    BY <1>1 DEF ControlType
  <1>3. fd' = [fd EXCEPT !["main"] = [fd["main"] EXCEPT ![n] = "closed"]]
    OBVIOUS
  <1> DEFINE g == [fd["main"] EXCEPT ![n] = "closed"]
  <1>4. g \in [Fd -> End] /\ \A m \in Fd \ {n} : g[m] = fd["main"][m]
    BY <1>1, <1>2
  <1>5. fd' = [fd EXCEPT !["main"] = g]
    BY <1>3
  <1> HIDE DEF g
  <1> QED BY <1>1, <1>4, <1>5 DEF ControlType

LEMMA ControlTypeStep == ControlType /\ [Next]_vars => ControlType'
PROOF
  <1> SUFFICES ASSUME ControlType, [Next]_vars PROVE ControlType'
    OBVIOUS
  <1> USE Names
  <1>1. CASE ForkUndecorate
    BY <1>1, ForkFacts DEF ForkUndecorate
  <1>2. CASE ForkSort
    BY <1>2, ForkFacts DEF ForkSort
  <1>3. CASE SetUp("main") \/ SetUp("sort") \/ SetUp("undec")
    BY <1>3, SetUpFacts
  <1>4. CASE EndOfInput
    BY <1>4, GoToFacts DEF EndOfInput
  <1>5. CASE CloseStdout
    BY <1>5, CloseFacts DEF CloseStdout, Fd
  <1>6. CASE CloseWriteEnd
    BY <1>6, CloseFacts DEF CloseWriteEnd, Fd
  <1>7. CASE Wait
    BY <1>7, GoToFacts, ExitFacts DEF Wait
  <1>8. CASE SortExits
    BY <1>8, EndsFacts DEF SortExits
  <1>9. CASE SortBreaks
    BY <1>9, EndsFacts DEF SortBreaks
  <1>10. CASE EndOfSorted
    BY <1>10, ExitFacts DEF EndOfSorted
  <1>11. CASE ExitUndecorate
    <2>1. code["undec"] \in Codes
      BY DEF ControlType
    <2> QED BY <1>11, <2>1, EndsFacts DEF ExitUndecorate
  <1>12. CASE WriteToSort
    <2>1. Ends("main", "signal") \/ UNCHANGED <<pc, code, fd>>
      BY <1>12 DEF WriteToSort
    <2> QED BY <2>1, EndsFacts DEF ControlType
  <1>13. CASE SortWrites
    <2>1. Ends("sort", "signal") \/ UNCHANGED <<pc, code, fd>>
      BY <1>13 DEF SortWrites
    <2> QED BY <2>1, EndsFacts DEF ControlType
  <1>14. CASE Decorate
    <2>1. Exit("main", "error") \/ UNCHANGED <<pc, code, fd>>
      BY <1>14 DEF Decorate
    <2> QED BY <2>1, ExitFacts DEF ControlType
  <1>15. CASE ExitMain
    <2>1. code["main"] \in Codes
      BY DEF ControlType
    <2> QED BY <1>15, <2>1, EndsFacts DEF ExitMain
  <1>16. CASE SortReads
    <2>1. Ends("sort", "error") \/ UNCHANGED <<pc, code, fd>>
      BY <1>16 DEF SortReads
    <2> QED BY <2>1, EndsFacts DEF ControlType
  <1>17. CASE SortSorts
    BY <1>17, GoToFacts DEF SortSorts
  <1>18. CASE CopyHeader \/ Undecorate \/ WriteToUser \/ UNCHANGED vars
    <2>1. UNCHANGED <<pc, code, fd>>
      BY <1>18 DEF CopyHeader, Undecorate, WriteToUser, vars
    <2> QED BY <2>1 DEF ControlType
  <1> QED BY <1>1, <1>2, <1>3, <1>4, <1>5, <1>6, <1>7, <1>8, <1>9, <1>10, <1>11,
             <1>12, <1>13, <1>14, <1>15, <1>16, <1>17, <1>18
          DEF Next, Main, Sort, Undec

-----------------------------------------------------------------------------
(* Queues of lines.                                                        *)

LEMMA Longer ==
  ASSUME NEW S, NEW q \in Seq(S), NEW x \in S
  PROVE  /\ Append(q, x) \in Seq(S) /\ Len(Append(q, x)) = Len(q) + 1
         /\ \A k \in 1 .. Len(q) : Append(q, x)[k] = q[k]
         /\ Append(q, x)[Len(q) + 1] = x
         /\ Append(q, x) # << >>
         /\ Append(q, x) = q \o <<x>> /\ <<x>> \in Seq(S)
PROOF
  <1>1. Append(q, x) = q \o <<x>>
    BY AppendIsConcat
  <1> QED BY <1>1, AppendProperties

LEMMA Shorter ==
  ASSUME NEW S, NEW q \in Seq(S), q # << >>
  PROVE  /\ Head(q) \in S /\ Tail(q) \in Seq(S) /\ Len(Tail(q)) = Len(q) - 1
         /\ Len(q) \in Nat \ {0} /\ Head(q) = q[1]
         /\ \A k \in 1 .. Len(q) - 1 : Tail(q)[k] = q[k + 1]
         /\ <<Head(q)>> \in Seq(S) /\ q = <<Head(q)>> \o Tail(q)
PROOF
  <1>1. /\ Len(q) \in Nat \ {0} /\ Head(q) \in S /\ Head(q) = q[1] /\ Tail(q) \in Seq(S)
        /\ Len(Tail(q)) = Len(q) - 1
        /\ \A k \in 1 .. Len(q) - 1 : Tail(q)[k] = q[k + 1]
    OBVIOUS
  <1> DEFINE h == Head(q)
             t == Tail(q)
  <1>2. h \in S /\ h = q[1]
    BY <1>1
  <1>3. t \in Seq(S)
    BY <1>1
  <1>9. Len(t) = Len(q) - 1 /\ \A k \in 1 .. Len(q) - 1 : t[k] = q[k + 1]
    BY <1>1
  <1> HIDE DEF h, t
  <1>4. <<h>> \in Seq(S) /\ Len(<<h>>) = 1 /\ <<h>>[1] = h
    BY <1>2
  <1> DEFINE u == <<h>>
             r == u \o t
  <1>5. u \in Seq(S)
    BY <1>4
  <1>10. Len(u) = 1 /\ u[1] = h
    BY <1>4
  <1> HIDE DEF u
  <1>6. /\ r \in Seq(S) /\ Len(r) = Len(q)
        /\ \A i \in 1 .. Len(q) : r[i] = IF i <= 1 THEN u[i] ELSE t[i - 1]
    <2>1. /\ r \in Seq(S) /\ Len(r) = Len(u) + Len(t)
          /\ \A i \in 1 .. Len(u) + Len(t) :
               r[i] = IF i <= Len(u) THEN u[i] ELSE t[i - Len(u)]
      BY ONLY <1>3, <1>5, ConcatProperties
    <2>2. Len(u) + Len(t) = Len(q)
      BY <1>1, <1>9, <1>10
    <2> HIDE DEF r
    <2> QED BY <1>10, <2>1, <2>2
  <1> HIDE DEF r
  <1>7. \A i \in 1 .. Len(q) : r[i] = q[i]
    <2> SUFFICES ASSUME NEW i \in 1 .. Len(q) PROVE r[i] = q[i]
      OBVIOUS
    <2>1. CASE i = 1
      BY <1>2, <1>10, <1>6, <2>1
    <2>2. CASE i # 1
      <3>1. i - 1 \in 1 .. Len(q) - 1 /\ ~(i <= 1) /\ i - 1 + 1 = i
        BY <1>1, <2>2
      <3> QED BY <1>9, <1>6, <3>1
    <2> QED BY <2>1, <2>2
  <1>8. q = r
    BY <1>6, <1>7, SeqEqual
  <1> QED BY <1>1, <1>4, <1>8 DEF h, t, r, u

(* A line goes from one queue to the next.                                 *)
LEMMA MoveOne ==
  ASSUME NEW S, NEW a \in Seq(S), NEW b \in Seq(S), b # << >>
  PROVE  Append(a, Head(b)) \o Tail(b) = a \o b
PROOF
  <1> DEFINE h == <<Head(b)>>
             t == Tail(b)
  <1>1. h \in Seq(S) /\ t \in Seq(S) /\ b = h \o t /\ Append(a, Head(b)) = a \o h
    BY Shorter, Longer
  <1> HIDE DEF h, t
  <1>2. (a \o h) \o t = a \o (h \o t)
    BY <1>1, ConcatAssociative
  <1> QED BY <1>1, <1>2 DEF t

Three(a, b, c) == (a \o b) \o c

Four(a, b, c, d) == (a \o b) \o (c \o d)

LEMMA MoveBetween ==
  ASSUME NEW S, NEW a, NEW b, NEW c, NEW d,
         a \in Seq(S), b \in Seq(S), c \in Seq(S), d \in Seq(S), c # << >>
  PROVE  Four(a, Append(b, Head(c)), Tail(c), d) = Four(a, b, c, d)
PROOF
  <1> DEFINE h == <<Head(c)>>
             t == Tail(c)
  <1>1. c = h \o t /\ Append(b, Head(c)) = b \o h
    BY Shorter, Longer
  <1>2. h \in Seq(S) /\ t \in Seq(S)
    BY Shorter
  <1> HIDE DEF h, t
  <1>3. (a \o b) \o h = a \o (b \o h)
    BY ONLY <1>2, a \in Seq(S), b \in Seq(S), ConcatAssociative
  <1> DEFINE ab == a \o b
             td == t \o d
  <1>4. ab \in Seq(S)
    BY ONLY a \in Seq(S), b \in Seq(S), ConcatProperties
  <1>5. td \in Seq(S)
    BY ONLY <1>2, d \in Seq(S), ConcatProperties
  <1>6. (h \o t) \o d = h \o td
    BY ONLY <1>2, d \in Seq(S), ConcatAssociative
  <1> HIDE DEF ab, td
  <1>7. (ab \o h) \o td = ab \o (h \o td)
    <2>1. h \in Seq(S)
      BY <1>2
    <2> QED BY ONLY <2>1, <1>4, <1>5, ConcatAssociative
  <1> QED BY <1>1, <1>3, <1>6, <1>7 DEF t, ab, td, Four

LEMMA Grown ==
  ASSUME NEW n \in Nat, NEW m \in Nat, n <= m
  PROVE  /\ Seq(0 .. n) \subseteq Seq(0 .. m)
         /\ Seq(1 .. n) \subseteq Seq(1 .. m)
         /\ Seq(ShowsTo(n)) \subseteq Seq(ShowsTo(m))
PROOF
  <1>1. 0 .. n \subseteq 0 .. m /\ 1 .. n \subseteq 1 .. m
    OBVIOUS
  <1>2. ShowsTo(n) \subseteq ShowsTo(m)
    BY DEF ShowsTo
  <1> QED BY <1>1, <1>2, SeqMonotonic

LEMMA AsIsFacts ==
  ASSUME TypeOK, NEW n \in Nat, n <= Len(input), NEW ns \in Seq(1 .. n)
  PROVE  /\ AsIs(ns) \in Seq(ShowsTo(n)) /\ Len(AsIs(ns)) = Len(ns)
         /\ \A i \in 1 .. Len(ns) : AsIs(ns)[i].line = ns[i]
PROOF
  <1>1. Len(ns) \in Nat /\ DOMAIN ns = 1 .. Len(ns) /\ \A i \in 1 .. Len(ns) : ns[i] \in 1 .. n
    OBVIOUS
  <1>2. \A i \in 1 .. Len(ns) : input[ns[i]].text \in Text
    <2>1. \A k \in 1 .. Len(input) : input[k].text \in Text
      BY Types
    <2>2. \A i \in 1 .. Len(ns) : ns[i] \in 1 .. Len(input)
      BY <1>1, Types
    <2> QED BY <2>1, <2>2
  <1>3. \A i \in 1 .. Len(ns) : Shown(ns[i], input[ns[i]].text) \in ShowsTo(n)
    BY <1>1, <1>2 DEF Shown, ShowsTo
  <1>4. AsIs(ns) = [i \in 1 .. Len(ns) |-> Shown(ns[i], input[ns[i]].text)]
    BY <1>1 DEF AsIs
  <1>5. AsIs(ns) \in [1 .. Len(ns) -> ShowsTo(n)]
    BY <1>3, <1>4
  <1>6. AsIs(ns) \in Seq(ShowsTo(n)) /\ Len(AsIs(ns)) = Len(ns)
    <2>1. Len(ns) \in Nat /\ DOMAIN AsIs(ns) = 1 .. Len(ns)
      BY <1>1, <1>4
    <2>2. AsIs(ns) \in Seq(ShowsTo(n))
      BY ONLY <2>1, <1>5, SeqDef
    <2> QED BY ONLY <2>1, <2>2, LenProperties
  <1> QED BY <1>4, <1>6 DEF Shown

(* What undecorate writes.                                                 *)
Cleaned(ns) == [i \in DOMAIN ns |-> Shown(ns[i], Undecorated(ns[i]))]

LEMMA CleanedFacts ==
  ASSUME TypeOK, NEW ns \in Seq(0 .. pos)
  PROVE  /\ Cleaned(ns) \in Seq(Shows) /\ Len(Cleaned(ns)) = Len(ns)
         /\ \A i \in 1 .. Len(ns) : Cleaned(ns)[i].line = ns[i]
PROOF
  <1>1. Len(ns) \in Nat /\ DOMAIN ns = 1 .. Len(ns) /\ \A i \in 1 .. Len(ns) : ns[i] \in 0 .. pos
    BY LenProperties, ElementOfSeq
  <1>2. ASSUME NEW n \in 0 .. pos PROVE Undecorated(n) \in Text
    <2>1. n # 0 => input[n].text \in Text
      BY Types
    <2>2. Empty \in Body
      BY DecoratePipeAssumption
    <2> QED BY <2>1, <2>2 DEF Undecorated, Text
  <1>3. \A i \in 1 .. Len(ns) : Shown(ns[i], Undecorated(ns[i])) \in Shows
    BY <1>1, <1>2 DEF Shown, Shows, ShowsTo
  <1>4. Cleaned(ns) = [i \in 1 .. Len(ns) |-> Shown(ns[i], Undecorated(ns[i]))]
    BY <1>1 DEF Cleaned
  <1>5. Cleaned(ns) \in [1 .. Len(ns) -> Shows]
    BY <1>3, <1>4
  <1>6. Cleaned(ns) \in Seq(Shows) /\ Len(Cleaned(ns)) = Len(ns)
    BY <1>1, <1>5, IsASeq, LenProperties
  <1> QED BY <1>4, <1>6 DEF Shown

(* sort loses no line and makes none up.                                   *)
LEMMA SortingFacts ==
  ASSUME NEW n \in Nat, NEW ns \in Seq(0 .. n), NEW s \in Sortings(ns)
  PROVE  /\ s \in Seq(0 .. n) /\ InOrder(s)
         /\ Range(s) \subseteq Range(ns) /\ IsInjective(s)
         /\ AllIn(job.unique, input, Range(ns), Range(s))
PROOF
  <1>0. PICK R \in Kept(ns) : s \in SetToSeqs(R) /\ InOrder(s)
    BY DEF Sortings
  <1> DEFINE m == Cardinality(R)
  <1>1. R \subseteq 0 .. n /\ R \subseteq Range(ns)
    BY <1>0 DEF Kept, Range
  <1>2. IsFiniteSet(R)
    <2>1. IsFiniteSet(0 .. n)
      BY FS_Interval
    <2> QED BY <1>1, <2>1, FS_Subset
  <1>3. m \in Nat
    BY <1>2, FS_CardinalityType
  <1>4. s \in [1 .. m -> R] /\ \A i, j \in 1 .. m : i # j => s[i] # s[j]
    BY <1>0 DEF SetToSeqs
  <1>5. InOrder(s)
    BY <1>0
  <1>6. s \in Injection(1 .. m, R)
    BY <1>4 DEF Injection, IsInjective
  <1>7. Cardinality(1 .. m) = m
    <2> HIDE DEF m
    <2>1. Cardinality(1 .. m) = IF 1 > m THEN 0 ELSE m - 1 + 1
      BY <1>3, FS_Interval
    <2> QED BY <1>3, <2>1
  <1>8. s \in Surjection(1 .. m, R)
    BY <1>2, <1>6, <1>7, FS_Injection
  <1> HIDE DEF m
  <1>9. \A y \in R : \E x \in 1 .. m : s[x] = y
    BY <1>8 DEF Surjection
  <1>10. DOMAIN s = 1 .. m /\ Range(s) = R
    BY <1>4, <1>9 DEF Range
  <1>11. s \in Seq(R) /\ Len(s) = m
    BY <1>3, <1>4, IsASeq, LenProperties
  <1>12. s \in Seq(0 .. n)
    BY <1>1, <1>11, SeqMonotonic
  <1>13. IsInjective(s)
    BY <1>4, <1>10 DEF IsInjective
  <1>14. AllIn(job.unique, input, Range(ns), R)
    BY <1>0 DEF Kept, AllIn, StandsIn, KeyOf, KeyIn
  <1> QED BY <1>1, <1>5, <1>10, <1>12, <1>13, <1>14

-----------------------------------------------------------------------------
(* The type invariant.                                                     *)

DataType ==
  /\ job \in Jobs /\ input \in Inputs
  /\ pos \in 0 .. Len(input)
  /\ skip_header_lines \in 0 .. job.header
  /\ stdout \in [{"main", "undec"} -> Seq(0 .. pos)]
  /\ full \in [{"main", "undec"} -> BOOLEAN]
  /\ header_out \in Seq(1 .. pos)
  /\ pipe \in [Pipe -> Seq(0 .. pos)]
  /\ \A i \in Pipe : Len(pipe[i]) <= PipeSize
  /\ held \in Seq(0 .. pos)
  /\ output \in Seq(Shows)

LEMMA TypeParts == TypeOK <=> ControlType /\ DataType
PROOF
  BY DEF TypeOK, ControlType, DataType, Shows, ShowsTo, Places, Codes

LEMMA DecorateType ==
  ASSUME TypeOK, Decorate
  PROVE  DataType'
PROOF
  <1>1. /\ pos < Len(input) /\ pos' = pos + 1
        /\ UNCHANGED <<job, input, skip_header_lines, header_out, pipe, held, output>>
        /\ full' = full \/ \E is_full \in BOOLEAN : full' = [full EXCEPT !["main"] = is_full]
        /\ \E n \in {0, pos + 1} :
             stdout' = [stdout EXCEPT !["main"] = Append(stdout["main"], n)]
    BY DEF Decorate
  <1>2. pos \in Nat /\ Len(input) \in Nat /\ DataType
    BY Types, TypeParts
  <1>3. pos' \in 0 .. Len(input)
    BY <1>1, <1>2
  <1>4. /\ Seq(0 .. pos) \subseteq Seq(0 .. pos') /\ Seq(1 .. pos) \subseteq Seq(1 .. pos')
        /\ Seq(ShowsTo(pos)) \subseteq Seq(ShowsTo(pos'))
    <2>1. pos + 1 \in Nat /\ pos <= pos + 1
      BY <1>2
    <2> QED BY <1>1, <1>2, <2>1, Grown
  <1>5. stdout' \in [{"main", "undec"} -> Seq(0 .. pos')]
    <2>1. PICK n \in {0, pos + 1} :
            stdout' = [stdout EXCEPT !["main"] = Append(stdout["main"], n)]
      BY <1>1
    <2>2. n \in 0 .. pos'
      BY <1>1, <1>2
    <2>3. stdout["main"] \in Seq(0 .. pos') /\ stdout["undec"] \in Seq(0 .. pos')
      BY <1>4, Types
    <2> DEFINE q == Append(stdout["main"], n)
    <2>4. q \in Seq(0 .. pos')
      BY <2>2, <2>3, Longer
    <2>5. stdout' = [stdout EXCEPT !["main"] = q]
      BY <2>1
    <2> HIDE DEF q
    <2> QED BY <1>2, <2>3, <2>4, <2>5 DEF DataType
  <1>6. full' \in [{"main", "undec"} -> BOOLEAN]
    <2>1. full \in [{"main", "undec"} -> BOOLEAN]
      BY <1>2 DEF DataType
    <2> QED BY <1>1, <2>1
  <1>7. pipe' \in [Pipe -> Seq(0 .. pos')]
    BY <1>1, <1>2, <1>4 DEF DataType
  <1>8. header_out' \in Seq(1 .. pos') /\ held' \in Seq(0 .. pos') /\ output' \in Seq(Shows')
    BY <1>1, <1>2, <1>4 DEF DataType, Shows
  <1> QED BY <1>1, <1>2, <1>3, <1>5, <1>6, <1>7, <1>8 DEF DataType

LEMMA CopyHeaderType ==
  ASSUME TypeOK, CopyHeader
  PROVE  DataType'
PROOF
  <1> DEFINE lines == Append(header_out, pos + 1)
  <1>1. /\ pos < Len(input) /\ pos' = pos + 1 /\ skip_header_lines > 0
        /\ skip_header_lines' = skip_header_lines - 1
        /\ UNCHANGED <<job, input, stdout, full, pipe, held>>
        /\ \/ header_out' = << >> /\ output' = output \o AsIs(lines)
           \/ header_out' = lines /\ output' = output
    BY DEF CopyHeader
  <1>2. pos \in Nat /\ Len(input) \in Nat /\ DataType /\ pos + 1 \in Nat
    BY Types, TypeParts
  <1>3. pos' \in 0 .. Len(input) /\ pos + 1 <= Len(input)
    BY <1>1, <1>2
  <1>4. /\ Seq(0 .. pos) \subseteq Seq(0 .. pos') /\ Seq(1 .. pos) \subseteq Seq(1 .. pos')
        /\ Seq(ShowsTo(pos)) \subseteq Seq(ShowsTo(pos'))
    <2>1. pos <= pos + 1
      BY <1>2
    <2> QED BY <1>1, <1>2, <2>1, Grown
  <1>5. lines \in Seq(1 .. pos + 1)
    <2>1. header_out \in Seq(1 .. pos + 1)
      BY <1>1, <1>2, <1>4 DEF DataType
    <2>2. pos + 1 \in 1 .. pos + 1
      BY <1>2
    <2> QED BY <2>1, <2>2, Longer
  <1> HIDE DEF lines
  <1>6. AsIs(lines) \in Seq(ShowsTo(pos + 1))
    BY <1>2, <1>3, <1>5, AsIsFacts
  <1>7. output \in Seq(ShowsTo(pos + 1))
    BY <1>1, <1>2, <1>4 DEF DataType, Shows
  <1>8. output \o AsIs(lines) \in Seq(ShowsTo(pos + 1))
    BY <1>6, <1>7, ConcatProperties
  <1>9. output' \in Seq(Shows')
    BY <1>1, <1>7, <1>8 DEF Shows
  <1>10. header_out' \in Seq(1 .. pos')
    BY <1>1, <1>5, EmptySeq
  <1>11. skip_header_lines' \in 0 .. job.header
    <2>1. skip_header_lines \in 0 .. job.header /\ job.header \in Nat
      BY <1>2, Types DEF DataType
    <2> QED BY <1>1, <2>1
  <1>12. stdout' \in [{"main", "undec"} -> Seq(0 .. pos')] /\ pipe' \in [Pipe -> Seq(0 .. pos')]
    BY <1>1, <1>2, <1>4 DEF DataType
  <1>13. held' \in Seq(0 .. pos')
    BY <1>1, <1>2, <1>4 DEF DataType
  <1> QED BY <1>1, <1>2, <1>3, <1>9, <1>10, <1>11, <1>12, <1>13 DEF DataType

(* The moves that read no line.                                            *)
LEMMA WriteToSortType ==
  ASSUME TypeOK, WriteToSort, IsOpen("ds_r")
  PROVE  DataType'
PROOF
  <1>1. /\ stdout["main"] # << >> /\ Len(pipe["ds"]) < PipeSize
        /\ pipe' = [pipe EXCEPT !["ds"] = Append(pipe["ds"], Head(stdout["main"]))]
        /\ stdout' = [stdout EXCEPT !["main"] = Tail(stdout["main"])]
        /\ full' = [full EXCEPT !["main"] = full["main"] /\ Len(stdout["main"]) > 1]
        /\ UNCHANGED <<job, input, pos, skip_header_lines, header_out, held, output>>
    BY DEF WriteToSort, Flushing
  <1>2. DataType /\ PipeSize \in Nat
    BY TypeParts, DecoratePipeAssumption
  <1>3. stdout["main"] \in Seq(0 .. pos) /\ pipe["ds"] \in Seq(0 .. pos)
    BY Types
  <1> DEFINE t == Tail(stdout["main"])
             p == Append(pipe["ds"], Head(stdout["main"]))
             f == full["main"] /\ Len(stdout["main"]) > 1
  <1>4. /\ Head(stdout["main"]) \in 0 .. pos /\ t \in Seq(0 .. pos)
    BY <1>1, <1>3, Shorter
  <1>5. p \in Seq(0 .. pos) /\ Len(p) = Len(pipe["ds"]) + 1
    BY <1>3, <1>4, Longer
  <1>6. Len(pipe["ds"]) \in Nat /\ Len(p) <= PipeSize
    BY <1>1, <1>2, <1>3, <1>5, LenProperties
  <1>7. f \in BOOLEAN
    OBVIOUS
  <1> HIDE DEF t, p, f
  <1>8. /\ pipe' = [pipe EXCEPT !["ds"] = p] /\ stdout' = [stdout EXCEPT !["main"] = t]
        /\ full' = [full EXCEPT !["main"] = f]
    BY <1>1 DEF t, p, f
  <1>9. /\ stdout' \in [{"main", "undec"} -> Seq(0 .. pos)]
        /\ pipe' \in [Pipe -> Seq(0 .. pos)]
        /\ \A i \in Pipe : Len(pipe'[i]) <= PipeSize
    BY <1>2, <1>4, <1>5, <1>6, <1>8 DEF DataType, Pipe
  <1>10. full' \in [{"main", "undec"} -> BOOLEAN]
    BY <1>2, <1>7, <1>8 DEF DataType
  <1> QED BY <1>1, <1>2, <1>9, <1>10 DEF DataType, Shows

LEMMA SortReadsType ==
  ASSUME TypeOK, SortReads
  PROVE  DataType'
PROOF
  <1>1. /\ pipe["ds"] # << >>
        /\ held' = Append(held, Head(pipe["ds"]))
        /\ pipe' = [pipe EXCEPT !["ds"] = Tail(pipe["ds"])]
        /\ UNCHANGED <<job, input, pos, skip_header_lines, stdout, full, header_out, output>>
    BY DEF SortReads
  <1>2. DataType /\ PipeSize \in Nat
    BY TypeParts, DecoratePipeAssumption
  <1>3. held \in Seq(0 .. pos) /\ pipe["ds"] \in Seq(0 .. pos)
    BY Types
  <1> DEFINE t == Tail(pipe["ds"])
  <1>4. /\ Head(pipe["ds"]) \in 0 .. pos /\ t \in Seq(0 .. pos)
        /\ Len(t) = Len(pipe["ds"]) - 1
    BY <1>1, <1>3, Shorter
  <1>5. held' \in Seq(0 .. pos)
    BY <1>1, <1>3, <1>4, Longer
  <1>6. Len(t) <= PipeSize
    <2>1. Len(pipe["ds"]) \in Nat /\ Len(pipe["ds"]) <= PipeSize
      BY <1>2, <1>3, LenProperties DEF DataType, Pipe
    <2> HIDE DEF t
    <2> QED BY <1>2, <1>4, <2>1
  <1>7. pipe' = [pipe EXCEPT !["ds"] = t]
    BY <1>1
  <1> HIDE DEF t
  <1>8. pipe' \in [Pipe -> Seq(0 .. pos)] /\ \A i \in Pipe : Len(pipe'[i]) <= PipeSize
    BY <1>2, <1>4, <1>6, <1>7 DEF DataType, Pipe
  <1> QED BY <1>1, <1>2, <1>5, <1>8 DEF DataType, Shows

LEMMA SortSortsType ==
  ASSUME TypeOK, SortSorts
  PROVE  DataType'
PROOF
  <1>1. /\ held' = << >> \/ held' \in Sortings(held)
        /\ UNCHANGED <<job, input, pos, skip_header_lines, stdout, full, header_out,
                       pipe, output>>
    BY DEF SortSorts
  <1>2. held' \in Seq(0 .. pos)
    <2>1. held \in Seq(0 .. pos) /\ pos \in Nat
      BY Types
    <2>2. << >> \in Seq(0 .. pos)
      BY EmptySeq
    <2>3. ASSUME held' \in Sortings(held) PROVE held' \in Seq(0 .. pos)
      BY <2>1, <2>3, SortingFacts
    <2> QED BY <1>1, <2>2, <2>3
  <1>3. DataType
    BY TypeParts
  <1> QED BY <1>1, <1>2, <1>3 DEF DataType, Shows

LEMMA SortWritesType ==
  ASSUME TypeOK, SortWrites, IsOpen("su_r")
  PROVE  DataType'
PROOF
  <1>1. /\ held # << >> /\ Len(pipe["su"]) < PipeSize
        /\ pipe' = [pipe EXCEPT !["su"] = Append(pipe["su"], Head(held))]
        /\ held' = Tail(held)
        /\ UNCHANGED <<job, input, pos, skip_header_lines, stdout, full, header_out, output>>
    BY DEF SortWrites
  <1>2. DataType /\ PipeSize \in Nat
    BY TypeParts, DecoratePipeAssumption
  <1>3. held \in Seq(0 .. pos) /\ pipe["su"] \in Seq(0 .. pos)
    BY Types
  <1> DEFINE p == Append(pipe["su"], Head(held))
  <1>4. Head(held) \in 0 .. pos /\ held' \in Seq(0 .. pos)
    BY <1>1, <1>3, Shorter
  <1>5. p \in Seq(0 .. pos) /\ Len(p) = Len(pipe["su"]) + 1
    BY <1>3, <1>4, Longer
  <1>6. Len(p) <= PipeSize
    <2>1. Len(pipe["su"]) \in Nat
      BY <1>3, LenProperties
    <2> QED BY <1>1, <1>2, <1>5, <2>1
  <1>7. pipe' = [pipe EXCEPT !["su"] = p]
    BY <1>1
  <1> HIDE DEF p
  <1>8. pipe' \in [Pipe -> Seq(0 .. pos)] /\ \A i \in Pipe : Len(pipe'[i]) <= PipeSize
    BY <1>2, <1>5, <1>6, <1>7 DEF DataType, Pipe
  <1> QED BY <1>1, <1>2, <1>4, <1>8 DEF DataType, Shows

LEMMA UndecorateType ==
  ASSUME TypeOK, Undecorate
  PROVE  DataType'
PROOF
  <1>1. /\ pipe["su"] # << >>
        /\ stdout' = [stdout EXCEPT !["undec"] = Append(stdout["undec"], Head(pipe["su"]))]
        /\ pipe' = [pipe EXCEPT !["su"] = Tail(pipe["su"])]
        /\ \E is_full \in BOOLEAN : full' = [full EXCEPT !["undec"] = is_full]
        /\ UNCHANGED <<job, input, pos, skip_header_lines, header_out, held, output>>
    BY DEF Undecorate
  <1>2. DataType /\ PipeSize \in Nat
    BY TypeParts, DecoratePipeAssumption
  <1>3. stdout["undec"] \in Seq(0 .. pos) /\ pipe["su"] \in Seq(0 .. pos)
    BY Types
  <1> DEFINE t == Tail(pipe["su"])
             u == Append(stdout["undec"], Head(pipe["su"]))
  <1>4. /\ Head(pipe["su"]) \in 0 .. pos /\ t \in Seq(0 .. pos)
        /\ Len(t) = Len(pipe["su"]) - 1
    BY <1>1, <1>3, Shorter
  <1>5. u \in Seq(0 .. pos)
    BY <1>3, <1>4, Longer
  <1>6. Len(t) <= PipeSize
    <2>1. Len(pipe["su"]) \in Nat /\ Len(pipe["su"]) <= PipeSize
      BY <1>2, <1>3, LenProperties DEF DataType, Pipe
    <2> HIDE DEF t
    <2> QED BY <1>2, <1>4, <2>1
  <1>7. pipe' = [pipe EXCEPT !["su"] = t] /\ stdout' = [stdout EXCEPT !["undec"] = u]
    BY <1>1
  <1> HIDE DEF t, u
  <1>8. pipe' \in [Pipe -> Seq(0 .. pos)] /\ \A i \in Pipe : Len(pipe'[i]) <= PipeSize
    BY <1>2, <1>4, <1>6, <1>7 DEF DataType, Pipe
  <1>9. stdout' \in [{"main", "undec"} -> Seq(0 .. pos)]
    BY <1>2, <1>5, <1>7 DEF DataType
  <1>10. full' \in [{"main", "undec"} -> BOOLEAN]
    BY <1>1, <1>2 DEF DataType
  <1> QED BY <1>1, <1>2, <1>8, <1>9, <1>10 DEF DataType, Shows

LEMMA WriteToUserType ==
  ASSUME TypeOK, WriteToUser
  PROVE  DataType'
PROOF
  <1>1. /\ output' = output \o Cleaned(stdout["undec"])
        /\ stdout' = [stdout EXCEPT !["undec"] = << >>]
        /\ full' = [full EXCEPT !["undec"] = FALSE]
        /\ UNCHANGED <<job, input, pos, skip_header_lines, header_out, pipe, held>>
    BY DEF WriteToUser, Cleaned
  <1>2. DataType
    BY TypeParts
  <1>3. output' \in Seq(Shows)
    <2>1. Cleaned(stdout["undec"]) \in Seq(Shows) /\ output \in Seq(Shows)
      BY Types, CleanedFacts
    <2> HIDE DEF Cleaned
    <2> QED BY <1>1, <2>1, ConcatProperties
  <1>4. << >> \in Seq(0 .. pos)
    BY EmptySeq
  <1>5. stdout' \in [{"main", "undec"} -> Seq(0 .. pos)]
    BY <1>1, <1>2, <1>4 DEF DataType
  <1>6. full' \in [{"main", "undec"} -> BOOLEAN]
    BY <1>1, <1>2 DEF DataType
  <1> QED BY <1>1, <1>2, <1>3, <1>5, <1>6 DEF DataType, Shows

LEMMA ExitMainType ==
  ASSUME TypeOK, ExitMain
  PROVE  DataType'
PROOF
  <1>1. /\ output' = output \o AsIs(header_out) /\ header_out' = << >>
        /\ UNCHANGED <<job, input, pos, skip_header_lines, stdout, full, pipe, held>>
    BY DEF ExitMain
  <1>2. DataType
    BY TypeParts
  <1>3. output' \in Seq(Shows)
    <2>1. AsIs(header_out) \in Seq(Shows) /\ output \in Seq(Shows)
      BY Types, AsIsFacts DEF Shows
    <2> QED BY <1>1, <2>1, ConcatProperties
  <1>4. << >> \in Seq(1 .. pos)
    BY EmptySeq
  <1> QED BY <1>1, <1>2, <1>3, <1>4 DEF DataType, Shows

LEMMA TypeStep == TypeOK /\ [Next]_vars => TypeOK'
PROOF
  <1> SUFFICES ASSUME TypeOK, [Next]_vars PROVE TypeOK'
    OBVIOUS
  <1>1. ControlType' /\ DataType
    BY TypeParts, ControlTypeStep
  <1>2. DataType'
    <2>1. CASE Rests \/ UNCHANGED vars
      <3>1. DataSame
        BY <2>1, RestsSame DEF DataSame, vars
      <3> QED BY <1>1, <3>1 DEF DataType, DataSame, Shows
    <2>2. CASE Moves
      BY <2>2, CopyHeaderType, DecorateType, ExitMainType, WriteToSortType, SortReadsType,
         SortSortsType, SortWritesType, UndecorateType, WriteToUserType DEF Moves
    <2> QED BY <2>1, <2>2, StepKinds
  <1> QED BY <1>1, <1>2 DEF TypeOK, ControlType, DataType, Shows, ShowsTo, Places, Codes

-----------------------------------------------------------------------------
(* Where the processes are.                                                *)

(* A process holds every descriptor that it has not closed.                *)
LEMMA OpenFacts ==
  ASSUME NEW p \in Proc, NEW n \in Fd
  PROVE  IsOpen(fd[p][n])
PROOF
  BY DEF IsOpen

LEMMA ControlStep == TypeOK /\ Control /\ Open /\ [Next]_vars => Control'
PROOF
  <1> SUFFICES ASSUME TypeOK, Control, Open, [Next]_vars PROVE Control'
    OBVIOUS
  <1> USE Names DEF MainPlaces, SortPlaces, UndecPlaces
  <1>0. ControlType
    BY TypeParts
  <1>1. CASE ForkUndecorate
    <2>1. /\ pc["main"] = "fork-1" /\ pc'["sort"] = pc["sort"] /\ code'["sort"] = code["sort"]
          /\ \/ /\ pc'["main"] = "fork-2" /\ pc'["undec"] = "set up" /\ code' = code
             \/ /\ pc'["main"] = "gone" /\ code'["main"] = "error"
                /\ pc'["undec"] = pc["undec"]
      BY <1>0, <1>1, ForkFacts DEF ForkUndecorate
    <2> QED BY <2>1 DEF Control
  <1>2. CASE ForkSort
    <2>1. /\ pc["main"] = "fork-2" /\ pc'["undec"] = pc["undec"]
          /\ \/ /\ pc'["main"] = "set up" /\ pc'["sort"] = "set up" /\ code' = code
             \/ /\ pc'["main"] = "gone" /\ code'["main"] = "error"
                /\ pc'["sort"] = pc["sort"] /\ code'["sort"] = code["sort"]
      BY <1>0, <1>2, ForkFacts DEF ForkSort
    <2>2. code["main"] = "running"
      BY <2>1 DEF Control
    <2>3. code["sort"] # "ok" \/ pc'["sort"] = pc["sort"]
      BY <2>1 DEF Control
    <2> QED BY <2>1, <2>2, <2>3 DEF Control
  <1>3. CASE SetUp("main")
    BY <1>0, <1>3, SetUpOf DEF Control
  <1>4. CASE SetUp("sort")
    BY <1>0, <1>4, SetUpOf DEF Control
  <1>5. CASE SetUp("undec")
    BY <1>0, <1>5, SetUpOf DEF Control
  <1>6. CASE EndOfInput
    BY <1>0, <1>6, GoToFacts DEF EndOfInput, Copying, Control
  <1>7. CASE CloseStdout
    BY <1>0, <1>7, CloseFacts DEF CloseStdout, Fd, Control
  <1>8. CASE CloseWriteEnd
    BY <1>0, <1>8, CloseFacts DEF CloseWriteEnd, Fd, Control
  <1>9. CASE Wait
    <2>1. CASE pc["main"] = "wait undec" /\ Gone("undec") /\ GoTo("main", "wait sort")
      BY <1>0, <2>1, GoToFacts DEF Gone, Control
    <2>2. CASE pc["main"] = "wait sort" /\ Gone("sort") /\ Exit("main", "ok")
      BY <1>0, <2>2, ExitFacts DEF Gone, Control
    <2> QED BY <1>9, <2>1, <2>2 DEF Wait
  <1>10. CASE SortExits
    BY <1>0, <1>10, EndsFacts DEF SortExits, Control
  <1>11. CASE SortBreaks
    BY <1>0, <1>11, EndsFacts DEF SortBreaks, Control
  <1>12. CASE EndOfSorted
    BY <1>0, <1>12, ExitFacts DEF EndOfSorted, Copying, Control
  <1>13. CASE ExitUndecorate
    <2>1. code["undec"] \in Codes
      BY <1>0 DEF ControlType
    <2> QED BY <1>0, <1>13, <2>1, EndsFacts DEF ExitUndecorate, Control
  <1>14. CASE WriteToSort
    <2>1. Ends("main", "signal") \/ UNCHANGED <<pc, code, fd>>
      BY <1>14 DEF WriteToSort
    <2>2. CASE Ends("main", "signal")
      BY <1>0, <2>2, EndsFacts DEF Control
    <2> QED BY <2>1, <2>2 DEF Control
  <1>15. CASE SortWrites
    <2>1. pc["sort"] = "write" /\ (Ends("sort", "signal") \/ UNCHANGED <<pc, code, fd>>)
      BY <1>15 DEF SortWrites
    <2>2. CASE Ends("sort", "signal")
      BY <1>0, <2>1, <2>2, EndsFacts DEF Control
    <2> QED BY <2>1, <2>2 DEF Control
  <1>16. CASE Decorate
    <2>1. pc["main"] = "copy" /\ (Exit("main", "error") \/ UNCHANGED <<pc, code, fd>>)
      BY <1>16 DEF Decorate, Copying
    <2>2. CASE Exit("main", "error")
      BY <1>0, <2>1, <2>2, ExitFacts DEF Control
    <2> QED BY <2>1, <2>2 DEF Control
  <1>17. CASE ExitMain
    <2>1. code["main"] \in Codes
      BY <1>0 DEF ControlType
    <2> QED BY <1>0, <1>17, <2>1, EndsFacts DEF ExitMain, Control
  <1>18. CASE SortReads
    <2>1. pc["sort"] = "copy" /\ (Ends("sort", "error") \/ UNCHANGED <<pc, code, fd>>)
      BY <1>18 DEF SortReads
    <2>2. CASE Ends("sort", "error")
      BY <1>0, <2>1, <2>2, EndsFacts DEF Control
    <2> QED BY <2>1, <2>2 DEF Control
  <1>19. CASE SortSorts
    BY <1>0, <1>19, GoToFacts DEF SortSorts, Control
  <1>20. CASE CopyHeader \/ Undecorate \/ WriteToUser \/ UNCHANGED vars
    <2>1. UNCHANGED <<pc, code, fd>>
      BY <1>20 DEF CopyHeader, Undecorate, WriteToUser, vars
    <2> QED BY <2>1 DEF Control
  <1> QED BY <1>1, <1>2, <1>3, <1>4, <1>5, <1>6, <1>7, <1>8, <1>9, <1>10, <1>11,
             <1>12, <1>13, <1>14, <1>15, <1>16, <1>17, <1>18, <1>19, <1>20
          DEF Next, Main, Sort, Undec

LEMMA OpenStep == TypeOK /\ Control /\ Open /\ [Next]_vars => Open'
PROOF
  <1> SUFFICES ASSUME TypeOK, Control, Open, [Next]_vars PROVE Open'
    OBVIOUS
  <1> USE Names
  <1>0. ControlType
    BY TypeParts
  <1>a. WithPipes["su_w"] = "su_w" /\ WithPipes["ds_w"] = "ds_w"
    BY DEF WithPipes, Fd
  <1> HIDE DEF WithPipes
  <1>1. CASE ForkUndecorate
    <2>1. /\ pc["main"] = "fork-1" /\ pc'["sort"] = pc["sort"] /\ fd'["sort"] = fd["sort"]
          /\ \/ pc'["main"] = "fork-2" /\ fd'["main"] = fd["main"]
             \/ pc'["main"] = "gone"
      BY <1>0, <1>1, ForkFacts DEF ForkUndecorate
    <2> QED BY <2>1 DEF Open
  <1>2. CASE ForkSort
    <2>1. /\ pc["main"] = "fork-2"
          /\ \/ /\ pc'["main"] = "set up" /\ fd'["main"] = fd["main"]
                /\ pc'["sort"] = "set up" /\ fd'["sort"] = fd["main"]
             \/ /\ pc'["main"] = "gone"
                /\ pc'["sort"] = pc["sort"] /\ fd'["sort"] = fd["sort"]
      BY <1>0, <1>2, ForkFacts DEF ForkSort
    <2> QED BY <1>a, <2>1 DEF Open
  <1>3. CASE SetUp("main")
    <2>1. AfterSetUp("main")["ds_w"] = fd["main"]["ds_w"]
      BY DEF AfterSetUp, Closing, Redirect, Fd
    <2> HIDE DEF AfterSetUp
    <2>2. /\ pc["main"] = "set up" /\ pc'["main"] = "copy" /\ fd'["main"] = AfterSetUp("main")
          /\ pc'["sort"] = pc["sort"] /\ fd'["sort"] = fd["sort"]
      BY <1>0, <1>3, SetUpOf
    <2>3. fd["main"]["ds_w"] = "ds_w"
      BY <1>a, <2>2 DEF Open
    <2> QED BY <2>1, <2>2, <2>3 DEF Open
  <1>4. CASE SetUp("sort")
    <2>1. AfterSetUp("sort")["su_w"] = fd["sort"]["su_w"]
      BY DEF AfterSetUp, Closing, Redirect, Fd
    <2> HIDE DEF AfterSetUp
    <2> QED BY <1>0, <1>4, <2>1, SetUpOf DEF Open
  <1>5. CASE SetUp("undec")
    BY <1>0, <1>5, SetUpOf DEF Open
  <1>6. CASE EndOfInput
    BY <1>0, <1>6, GoToFacts DEF EndOfInput, Copying, Open
  <1>7. CASE CloseStdout
    <2>1. /\ pc["main"] = "fclose" /\ pc'["main"] = "close"
          /\ \A m \in Fd \ {"out"} : fd'["main"][m] = fd["main"][m]
          /\ pc'["sort"] = pc["sort"] /\ fd'["sort"] = fd["sort"]
      BY <1>0, <1>7, CloseFacts DEF CloseStdout, Fd
    <2>2. fd'["main"]["ds_w"] = fd["main"]["ds_w"]
      BY <2>1 DEF Fd
    <2> QED BY <2>1, <2>2 DEF Open
  <1>8. CASE CloseWriteEnd
    <2>1. /\ pc'["main"] = "wait undec"
          /\ pc'["sort"] = pc["sort"] /\ fd'["sort"] = fd["sort"]
      BY <1>0, <1>8, CloseFacts DEF CloseWriteEnd, Fd
    <2> QED BY <2>1 DEF Open
  <1>9. CASE Wait
    <2>1. CASE GoTo("main", "wait sort")
      BY <1>0, <2>1, GoToFacts DEF Open
    <2>2. CASE Exit("main", "ok")
      BY <1>0, <2>2, ExitFacts DEF Open
    <2> QED BY <1>9, <2>1, <2>2 DEF Wait
  <1>10. CASE SortExits \/ SortBreaks
    <2>1. PICK c \in Codes : Ends("sort", c)
      BY <1>10 DEF SortExits, SortBreaks
    <2> QED BY <1>0, <2>1, EndsFacts DEF Open
  <1>11. CASE EndOfSorted
    BY <1>0, <1>11, ExitFacts DEF EndOfSorted, Open
  <1>12. CASE ExitUndecorate
    <2>1. code["undec"] \in Codes
      BY <1>0 DEF ControlType
    <2> QED BY <1>0, <1>12, <2>1, EndsFacts DEF ExitUndecorate, Open
  <1>13. CASE WriteToSort
    <2>1. Ends("main", "signal") \/ UNCHANGED <<pc, code, fd>>
      BY <1>13 DEF WriteToSort
    <2> QED BY <1>0, <2>1, EndsFacts DEF Open
  <1>14. CASE SortWrites
    <2>1. Ends("sort", "signal") \/ UNCHANGED <<pc, code, fd>>
      BY <1>14 DEF SortWrites
    <2> QED BY <1>0, <2>1, EndsFacts DEF Open
  <1>15. CASE Decorate
    <2>1. Exit("main", "error") \/ UNCHANGED <<pc, code, fd>>
      BY <1>15 DEF Decorate
    <2> QED BY <1>0, <2>1, ExitFacts DEF Open
  <1>16. CASE ExitMain
    <2>1. code["main"] \in Codes
      BY <1>0 DEF ControlType
    <2> QED BY <1>0, <1>16, <2>1, EndsFacts DEF ExitMain, Open
  <1>17. CASE SortReads
    <2>1. Ends("sort", "error") \/ UNCHANGED <<pc, code, fd>>
      BY <1>17 DEF SortReads
    <2> QED BY <1>0, <2>1, EndsFacts DEF Open
  <1>18. CASE SortSorts
    BY <1>0, <1>18, GoToFacts DEF SortSorts, Open
  <1>19. CASE CopyHeader \/ Undecorate \/ WriteToUser \/ UNCHANGED vars
    <2>1. UNCHANGED <<pc, code, fd>>
      BY <1>19 DEF CopyHeader, Undecorate, WriteToUser, vars
    <2> QED BY <2>1 DEF Open
  <1> QED BY <1>1, <1>2, <1>3, <1>4, <1>5, <1>6, <1>7, <1>8, <1>9, <1>10, <1>11,
             <1>12, <1>13, <1>14, <1>15, <1>16, <1>17, <1>18, <1>19
          DEF Next, Main, Sort, Undec

-----------------------------------------------------------------------------
(* From where to where each process may go.                                *)

MainPath ==
  \/ pc'["main"] = pc["main"] /\ code'["main"] = code["main"]
  \/ /\ \/ pc["main"] = "fork-1" /\ pc'["main"] = "fork-2"
        \/ pc["main"] = "fork-2" /\ pc'["main"] = "set up"
        \/ pc["main"] = "set up" /\ pc'["main"] = "copy"
        \/ pc["main"] = "copy" /\ pc'["main"] = "fclose" /\ EndOfInput
        \/ pc["main"] = "fclose" /\ pc'["main"] = "close" /\ CloseStdout
        \/ pc["main"] = "close" /\ pc'["main"] = "wait undec"
        \/ pc["main"] = "wait undec" /\ pc'["main"] = "wait sort"
        \/ pc["main"] = "exit" /\ pc'["main"] = "gone" /\ ExitMain
     /\ code'["main"] = code["main"]
  \/ pc["main"] = "wait sort" /\ pc'["main"] = "exit" /\ code'["main"] = "ok"
  \/ /\ pc'["main"] \in {"exit", "gone"} /\ code'["main"] \in {"error", "signal"}
     /\ pc["main"] = "gone" => pc'["main"] = "gone"

SortPath ==
  \/ pc'["sort"] = pc["sort"] /\ code'["sort"] = code["sort"]
  \/ /\ \/ pc["sort"] = "none" /\ pc'["sort"] = "set up" /\ pc["main"] = "fork-2"
        \/ pc["sort"] = "set up" /\ pc'["sort"] = "copy"
        \/ pc["sort"] = "copy" /\ pc'["sort"] = "write" /\ SortSorts
     /\ code'["sort"] = code["sort"]
  \/ pc["sort"] = "write" /\ pc'["sort"] = "gone" /\ code'["sort"] = "ok" /\ SortExits
  \/ /\ pc["sort"] \in {"set up", "copy", "write"} /\ pc'["sort"] = "gone"
     /\ code'["sort"] \in {"error", "signal"}

UndecPath ==
  \/ pc'["undec"] = pc["undec"]
  \/ pc["undec"] = "none" /\ pc'["undec"] = "set up"
  \/ pc["undec"] = "set up" /\ pc'["undec"] = "copy"
  \/ pc["undec"] = "copy" /\ pc'["undec"] = "exit" /\ EndOfSorted
  \/ pc["undec"] = "exit" /\ pc'["undec"] = "gone" /\ ExitUndecorate

LEMMA EndsOf ==
  ASSUME ControlType, NEW c \in Codes
  PROVE  /\ Ends("main", c) =>
              /\ pc'["main"] = "gone" /\ code'["main"] = c
              /\ pc'["sort"] = pc["sort"] /\ code'["sort"] = code["sort"]
              /\ pc'["undec"] = pc["undec"]
         /\ Ends("sort", c) =>
              /\ pc'["sort"] = "gone" /\ code'["sort"] = c
              /\ pc'["main"] = pc["main"] /\ code'["main"] = code["main"]
              /\ pc'["undec"] = pc["undec"]
         /\ Exit("main", c) =>
              /\ pc'["main"] = "exit" /\ code'["main"] = c
              /\ pc'["sort"] = pc["sort"] /\ code'["sort"] = code["sort"]
              /\ pc'["undec"] = pc["undec"]
PROOF
  <1> DEFINE others(p) == \A q \in Proc \ {p} : pc'[q] = pc[q] /\ code'[q] = code[q]
  <1>1. "main" \in Proc /\ "sort" \in Proc /\ "undec" \in Proc
    BY Names
  <1>2. Ends("main", c) => pc'["main"] = "gone" /\ code'["main"] = c /\ others("main")
    BY <1>1, EndsFacts, Zenon
  <1>3. Ends("sort", c) => pc'["sort"] = "gone" /\ code'["sort"] = c /\ others("sort")
    BY <1>1, EndsFacts, Zenon
  <1>4. Exit("main", c) => pc'["main"] = "exit" /\ code'["main"] = c /\ others("main")
    BY <1>1, ExitFacts, Zenon
  <1> HIDE DEF Ends, Exit
  <1> QED BY <1>1, <1>2, <1>3, <1>4

LEMMA Paths ==
  ASSUME TypeOK, Control, [Next]_vars
  PROVE  MainPath /\ SortPath /\ UndecPath
PROOF
  <1> USE Names
  <1>0. ControlType
    BY TypeParts
  <1>a. "ok" \in Codes /\ "error" \in Codes /\ "signal" \in Codes
    BY Names
  <1> DEFINE mainStays == pc'["main"] = pc["main"] /\ code'["main"] = code["main"]
             sortStays == pc'["sort"] = pc["sort"] /\ code'["sort"] = code["sort"]
             undecStays == pc'["undec"] = pc["undec"]
  <1>1. CASE ForkUndecorate
    <2>1. /\ pc["main"] = "fork-1" /\ sortStays
          /\ \/ /\ pc'["main"] = "fork-2" /\ pc'["undec"] = "set up" /\ code' = code
             \/ pc'["main"] = "gone" /\ code'["main"] = "error" /\ undecStays
      BY <1>0, <1>1, ForkFacts DEF ForkUndecorate
    <2> QED BY <2>1 DEF Control, MainPath, SortPath, UndecPath
  <1>2. CASE ForkSort
    <2>1. /\ pc["main"] = "fork-2" /\ undecStays
          /\ \/ /\ pc'["main"] = "set up" /\ pc'["sort"] = "set up" /\ code' = code
             \/ pc'["main"] = "gone" /\ code'["main"] = "error" /\ sortStays
      BY <1>0, <1>2, ForkFacts DEF ForkSort
    <2> QED BY <2>1 DEF Control, MainPath, SortPath, UndecPath
  <1>3. CASE SetUp("main")
    BY <1>0, <1>3, SetUpOf DEF MainPath, SortPath, UndecPath
  <1>4. CASE SetUp("sort")
    BY <1>0, <1>4, SetUpOf DEF MainPath, SortPath, UndecPath
  <1>5. CASE SetUp("undec")
    BY <1>0, <1>5, SetUpOf DEF MainPath, SortPath, UndecPath
  <1>6. CASE EndOfInput
    <2>1. /\ pc["main"] = "copy" /\ pc'["main"] = "fclose" /\ code' = code
          /\ sortStays /\ undecStays
      BY <1>0, <1>6, GoToFacts DEF EndOfInput, Copying
    <2> QED BY <1>6, <2>1 DEF MainPath, SortPath, UndecPath
  <1>7. CASE CloseStdout
    <2>1. /\ pc["main"] = "fclose" /\ pc'["main"] = "close" /\ code' = code
          /\ sortStays /\ undecStays
      BY <1>0, <1>7, CloseFacts DEF CloseStdout, Fd
    <2> QED BY <1>7, <2>1 DEF MainPath, SortPath, UndecPath
  <1>8. CASE CloseWriteEnd
    <2>1. /\ pc["main"] = "close" /\ pc'["main"] = "wait undec" /\ code' = code
          /\ sortStays /\ undecStays
      BY <1>0, <1>8, CloseFacts DEF CloseWriteEnd, Fd
    <2> QED BY <2>1 DEF MainPath, SortPath, UndecPath
  <1>9. CASE Wait
    <2>1. CASE pc["main"] = "wait undec" /\ Gone("undec") /\ GoTo("main", "wait sort")
      BY <1>0, <2>1, GoToFacts DEF MainPath, SortPath, UndecPath
    <2>2. CASE pc["main"] = "wait sort" /\ Gone("sort") /\ Exit("main", "ok")
      <3>1. /\ pc'["main"] = "exit" /\ code'["main"] = "ok" /\ sortStays /\ undecStays
        BY <1>0, <1>a, <2>2, EndsOf, Zenon
      <3> QED BY <2>2, <3>1 DEF MainPath, SortPath, UndecPath
    <2> QED BY <1>9, <2>1, <2>2 DEF Wait
  <1>10. CASE SortExits
    <2>1. /\ pc["sort"] = "write" /\ pc'["sort"] = "gone" /\ code'["sort"] = "ok"
          /\ mainStays /\ undecStays
      BY <1>0, <1>a, <1>10, EndsOf, Zenon DEF SortExits
    <2> QED BY <1>10, <2>1 DEF MainPath, SortPath, UndecPath
  <1>11. CASE SortBreaks
    <2>1. /\ pc["sort"] \in {"copy", "write"} /\ pc'["sort"] = "gone" /\ code'["sort"] = "error"
          /\ mainStays /\ undecStays
      BY <1>0, <1>a, <1>11, EndsOf, Zenon DEF SortBreaks
    <2> QED BY <2>1 DEF MainPath, SortPath, UndecPath
  <1>12. CASE EndOfSorted
    <2>1. /\ pc["undec"] = "copy" /\ pc'["undec"] = "exit" /\ mainStays /\ sortStays
      BY <1>0, <1>12, ExitFacts DEF EndOfSorted, Copying
    <2> QED BY <1>12, <2>1 DEF MainPath, SortPath, UndecPath
  <1>13. CASE ExitUndecorate
    <2>1. code["undec"] \in Codes
      BY <1>0 DEF ControlType
    <2>2. /\ pc["undec"] = "exit" /\ pc'["undec"] = "gone" /\ mainStays /\ sortStays
      BY <1>0, <1>13, <2>1, EndsFacts DEF ExitUndecorate
    <2> QED BY <1>13, <2>2 DEF MainPath, SortPath, UndecPath
  <1>14. CASE WriteToSort
    <2>1. Ends("main", "signal") \/ UNCHANGED <<pc, code, fd>>
      BY <1>14 DEF WriteToSort
    <2>2. CASE Ends("main", "signal")
      <3>1. /\ pc'["main"] = "gone" /\ code'["main"] = "signal" /\ sortStays /\ undecStays
        BY <1>0, <1>a, <2>2, EndsOf, Zenon
      <3> QED BY <3>1 DEF MainPath, SortPath, UndecPath
    <2> QED BY <2>1, <2>2 DEF MainPath, SortPath, UndecPath
  <1>15. CASE SortWrites
    <2>1. pc["sort"] = "write" /\ (Ends("sort", "signal") \/ UNCHANGED <<pc, code, fd>>)
      BY <1>15 DEF SortWrites
    <2>2. CASE Ends("sort", "signal")
      <3>1. /\ pc'["sort"] = "gone" /\ code'["sort"] = "signal" /\ mainStays /\ undecStays
        BY <1>0, <1>a, <2>2, EndsOf, Zenon
      <3> QED BY <2>1, <3>1 DEF MainPath, SortPath, UndecPath
    <2> QED BY <2>1, <2>2 DEF MainPath, SortPath, UndecPath
  <1>16. CASE Decorate
    <2>1. pc["main"] = "copy" /\ (Exit("main", "error") \/ UNCHANGED <<pc, code, fd>>)
      BY <1>16 DEF Decorate, Copying
    <2>2. CASE Exit("main", "error")
      <3>1. /\ pc'["main"] = "exit" /\ code'["main"] = "error" /\ sortStays /\ undecStays
        BY <1>0, <1>a, <2>2, EndsOf, Zenon
      <3> QED BY <2>1, <3>1 DEF MainPath, SortPath, UndecPath
    <2> QED BY <2>1, <2>2 DEF MainPath, SortPath, UndecPath
  <1>17. CASE ExitMain
    <2>1. code["main"] \in Codes
      BY <1>0 DEF ControlType
    <2>2. /\ pc["main"] = "exit" /\ pc'["main"] = "gone" /\ code'["main"] = code["main"]
          /\ sortStays /\ undecStays
      BY <1>0, <1>17, <2>1, EndsOf, Zenon DEF ExitMain
    <2> QED BY <1>17, <2>2 DEF MainPath, SortPath, UndecPath
  <1>18. CASE SortReads
    <2>1. pc["sort"] = "copy" /\ (Ends("sort", "error") \/ UNCHANGED <<pc, code, fd>>)
      BY <1>18 DEF SortReads
    <2>2. CASE Ends("sort", "error")
      <3>1. /\ pc'["sort"] = "gone" /\ code'["sort"] = "error" /\ mainStays /\ undecStays
        BY <1>0, <1>a, <2>2, EndsOf, Zenon
      <3> QED BY <2>1, <3>1 DEF MainPath, SortPath, UndecPath
    <2> QED BY <2>1, <2>2 DEF MainPath, SortPath, UndecPath
  <1>19. CASE SortSorts
    <2>1. /\ pc["sort"] = "copy" /\ pc'["sort"] = "write" /\ code' = code
          /\ mainStays /\ undecStays
      BY <1>0, <1>19, GoToFacts DEF SortSorts
    <2> QED BY <1>19, <2>1 DEF MainPath, SortPath, UndecPath
  <1>20. CASE CopyHeader \/ Undecorate \/ WriteToUser \/ UNCHANGED vars
    <2>1. UNCHANGED <<pc, code, fd>>
      BY <1>20 DEF CopyHeader, Undecorate, WriteToUser, vars
    <2> QED BY <2>1 DEF MainPath, SortPath, UndecPath
  <1>21. \/ ForkUndecorate \/ ForkSort \/ SetUp("main") \/ SetUp("sort") \/ SetUp("undec")
         \/ EndOfInput \/ CloseStdout \/ CloseWriteEnd \/ Wait
         \/ SortExits \/ SortBreaks \/ EndOfSorted \/ ExitUndecorate
         \/ WriteToSort \/ SortWrites \/ Decorate \/ ExitMain \/ SortReads \/ SortSorts
         \/ (CopyHeader \/ Undecorate \/ WriteToUser \/ UNCHANGED vars)
    BY Zenon DEF Next, Main, Sort, Undec
  <1> QED BY <1>1, <1>2, <1>3, <1>4, <1>5, <1>6, <1>7, <1>8, <1>9, <1>10, <1>11,
             <1>12, <1>13, <1>14, <1>15, <1>16, <1>17, <1>18, <1>19, <1>20, <1>21

(* Which steps change what.                                                *)
Frames ==
  /\ UNCHANGED <<job, input>>
  /\ UNCHANGED <<pos, skip_header_lines>> \/ CopyHeader \/ Decorate
  /\ header_out' = header_out \/ CopyHeader \/ ExitMain
  /\ stdout'["main"] = stdout["main"] \/ Decorate \/ (WriteToSort /\ IsOpen("ds_r"))
  /\ pipe'["ds"] = pipe["ds"] \/ (WriteToSort /\ IsOpen("ds_r")) \/ SortReads
  /\ held' = held \/ SortReads \/ SortSorts \/ (SortWrites /\ IsOpen("su_r"))
  /\ pipe'["su"] = pipe["su"] \/ (SortWrites /\ IsOpen("su_r")) \/ Undecorate
  /\ stdout'["undec"] = stdout["undec"] \/ Undecorate \/ WriteToUser
  /\ output' = output \/ CopyHeader \/ WriteToUser \/ ExitMain

LEMMA FramesHold == TypeOK /\ [Next]_vars => Frames
PROOF
  <1> SUFFICES ASSUME TypeOK, [Next]_vars PROVE Frames
    OBVIOUS
  <1>0. /\ stdout \in [{"main", "undec"} -> Seq(0 .. pos)]
        /\ pipe \in [{"ds", "su"} -> Seq(0 .. pos)]
    BY DEF TypeOK, Pipe
  <1>1. CASE Rests \/ UNCHANGED vars
    <2>1. DataSame
      BY <1>1, RestsSame DEF DataSame, vars
    <2> QED BY <2>1 DEF DataSame, Frames
  <1>2. CASE CopyHeader
    <2>1. UNCHANGED <<job, input, stdout, pipe, held>>
      BY <1>2 DEF CopyHeader
    <2> QED BY <1>2, <2>1 DEF Frames
  <1>3. CASE Decorate
    <2>1. /\ UNCHANGED <<job, input, header_out, pipe, held, output>>
          /\ \E n : stdout' = [stdout EXCEPT !["main"] = n]
      BY <1>3 DEF Decorate
    <2> QED BY <1>0, <1>3, <2>1 DEF Frames
  <1>4. CASE ExitMain
    <2>1. UNCHANGED <<job, input, pos, skip_header_lines, stdout, pipe, held>>
      BY <1>4 DEF ExitMain
    <2> QED BY <1>4, <2>1 DEF Frames
  <1>5. CASE WriteToSort /\ IsOpen("ds_r")
    <2>1. /\ UNCHANGED <<job, input, pos, skip_header_lines, header_out, held, output>>
          /\ \E n : stdout' = [stdout EXCEPT !["main"] = n]
          /\ \E n : pipe' = [pipe EXCEPT !["ds"] = n]
      BY <1>5 DEF WriteToSort
    <2> QED BY <1>0, <1>5, <2>1 DEF Frames
  <1>6. CASE SortReads
    <2>1. /\ UNCHANGED <<job, input, pos, skip_header_lines, stdout, header_out, output>>
          /\ \E n : pipe' = [pipe EXCEPT !["ds"] = n]
      BY <1>6 DEF SortReads
    <2> QED BY <1>0, <1>6, <2>1 DEF Frames
  <1>7. CASE SortSorts
    <2>1. UNCHANGED <<job, input, pos, skip_header_lines, stdout, pipe, header_out, output>>
      BY <1>7 DEF SortSorts
    <2> QED BY <1>7, <2>1 DEF Frames
  <1>8. CASE SortWrites /\ IsOpen("su_r")
    <2>1. /\ UNCHANGED <<job, input, pos, skip_header_lines, stdout, header_out, output>>
          /\ \E n : pipe' = [pipe EXCEPT !["su"] = n]
      BY <1>8 DEF SortWrites
    <2> QED BY <1>0, <1>8, <2>1 DEF Frames
  <1>9. CASE Undecorate
    <2>1. /\ UNCHANGED <<job, input, pos, skip_header_lines, held, header_out, output>>
          /\ \E n : pipe' = [pipe EXCEPT !["su"] = n]
          /\ \E n : stdout' = [stdout EXCEPT !["undec"] = n]
      BY <1>9 DEF Undecorate
    <2> QED BY <1>0, <1>9, <2>1 DEF Frames
  <1>10. CASE WriteToUser
    <2>1. /\ UNCHANGED <<job, input, pos, skip_header_lines, held, header_out, pipe>>
          /\ \E n : stdout' = [stdout EXCEPT !["undec"] = n]
      BY <1>10 DEF WriteToUser
    <2> QED BY <1>0, <1>10, <2>1 DEF Frames
  <1> QED BY <1>1, <1>2, <1>3, <1>4, <1>5, <1>6, <1>7, <1>8, <1>9, <1>10, StepKinds
          DEF Moves

-----------------------------------------------------------------------------
(* What is done when a process goes on.                                    *)

LEMMA DoneStep ==
  ASSUME TypeOK, Control, Open, Done, [Next]_vars
  PROVE  Done'
PROOF
  <1>0. MainPath /\ SortPath /\ UndecPath /\ Frames
    BY Paths, FramesHold
  <1> DEFINE onward == pc["main"] \in {"close", "wait undec", "wait sort"} \/ code["main"] = "ok"
  <1>1. onward \/ pc["main"] = "fclose" => pos = Len(input)
    BY DEF Done
  <1>2. onward' \/ pc'["main"] = "fclose" => pos' = Len(input')
    <2> SUFFICES ASSUME onward' \/ pc'["main"] = "fclose" PROVE pos' = Len(input')
      OBVIOUS
    <2>1. pc["main"] # "copy" \/ EndOfInput
      BY <1>0 DEF MainPath, Control
    <2>2. CASE EndOfInput
      <3>1. pos = Len(input) /\ UNCHANGED <<pos, input>>
        BY <2>2 DEF EndOfInput
      <3> QED BY <3>1
    <2>3. CASE pc["main"] # "copy"
      <3>1. UNCHANGED <<pos, input>>
        BY <1>0, <2>3 DEF Frames, CopyHeader, Decorate, Copying
      <3>2. onward \/ pc["main"] = "fclose"
        BY <1>0, <2>3 DEF MainPath, EndOfInput, Copying
      <3> QED BY <1>1, <3>1, <3>2
    <2> QED BY <2>1, <2>2, <2>3
  <1>3. onward' => stdout'["main"] = << >>
    <2> SUFFICES ASSUME onward' PROVE stdout'["main"] = << >>
      OBVIOUS
    <2>1. onward \/ CloseStdout
      BY <1>0 DEF MainPath
    <2>2. stdout["main"] = << >>
      BY <2>1 DEF Done, CloseStdout
    <2>3. ~Decorate
      BY <1>0, <2>1 DEF Decorate, Copying, CloseStdout, Control
    <2>4. ~WriteToSort
      BY <2>2 DEF WriteToSort, Flushing
    <2> QED BY <1>0, <2>2, <2>3, <2>4 DEF Frames
  <1>4. pc'["main"] = "gone" /\ code'["main"] = "ok" => header_out' = << >>
    <2> SUFFICES ASSUME pc'["main"] = "gone", code'["main"] = "ok"
                 PROVE  header_out' = << >>
      OBVIOUS
    <2>1. CASE ExitMain
      BY <2>1 DEF ExitMain
    <2>2. CASE ~ExitMain
      <3>1. pc["main"] = "gone" /\ code["main"] = "ok"
        BY <1>0, <2>2 DEF MainPath
      <3> QED BY <1>0, <2>2, <3>1 DEF Frames, CopyHeader, Copying, Done
    <2> QED BY <2>1, <2>2
  <1> DEFINE finished == pc["sort"] = "gone" \/ (pc["sort"] = "none" /\ pc["main"] = "gone")
  <1>5. pc'["undec"] \in {"exit", "gone"} => finished' /\ pipe'["su"] = << >>
    <2> SUFFICES ASSUME pc'["undec"] \in {"exit", "gone"}
                 PROVE  finished' /\ pipe'["su"] = << >>
      OBVIOUS
    <2>1. pc["undec"] \in {"exit", "gone"} \/ EndOfSorted
      BY <1>0 DEF UndecPath
    <2>2. pipe["su"] = << >>
      BY <2>1 DEF Done, EndOfSorted
    <2>3. finished
      <3>1. CASE pc["undec"] \in {"exit", "gone"}
        BY <3>1 DEF Done
      <3>2. CASE EndOfSorted
        <4>1. ~IsOpen("su_w")
          BY <3>2 DEF EndOfSorted
        <4>2. fd["sort"]["su_w"] # "su_w" /\ fd["main"]["su_w"] # "su_w"
          BY <4>1, OpenFacts DEF Proc, Fd
        <4>3. WithPipes["su_w"] = "su_w"
          BY DEF WithPipes, Fd
        <4> HIDE DEF WithPipes
        <4> QED BY <4>2, <4>3 DEF Open, Control, SortPlaces
      <3> QED BY <2>1, <3>1, <3>2
    <2>4. finished'
      BY <1>0, <2>3 DEF MainPath, SortPath
    <2>5. ~SortWrites
      BY <2>3 DEF SortWrites
    <2>6. ~Undecorate
      BY <2>2 DEF Undecorate
    <2> QED BY <1>0, <2>2, <2>4, <2>5, <2>6 DEF Frames
  <1>6. pc'["undec"] = "gone" => stdout'["undec"] = << >>
    <2> SUFFICES ASSUME pc'["undec"] = "gone" PROVE stdout'["undec"] = << >>
      OBVIOUS
    <2>1. pc["undec"] = "gone" \/ ExitUndecorate
      BY <1>0 DEF UndecPath
    <2>2. stdout["undec"] = << >> /\ pc["undec"] # "copy"
      BY <2>1 DEF Done, ExitUndecorate
    <2>3. ~Undecorate /\ ~WriteToUser
      BY <2>2 DEF Undecorate, Copying, WriteToUser, Flushing
    <2> QED BY <1>0, <2>2, <2>3 DEF Frames
  <1> QED BY <1>2, <1>3, <1>4, <1>5, <1>6 DEF Done

-----------------------------------------------------------------------------
(* The header lines come first.                                            *)

LEMMA Counts ==
  ASSUME TypeOK
  PROVE  /\ HeaderCount \in Nat /\ HeaderCount <= Len(input) /\ HeaderCount <= job.header
         /\ HeadersRead \in Nat /\ HeadersRead <= HeaderCount /\ HeadersRead <= pos
         /\ pos \in Nat /\ pos <= Len(input) /\ Len(input) \in Nat /\ job.header \in Nat
         /\ Len(header_out) \in Nat /\ Len(output) \in Nat /\ HeadersOut \in Int
         /\ HeadersOut = HeadersRead - Len(header_out)
PROOF
  <1>1. /\ pos \in Nat /\ pos <= Len(input) /\ Len(input) \in Nat /\ job.header \in Nat
        /\ Len(header_out) \in Nat /\ Len(output) \in Nat
    BY Types
  <1> QED BY <1>1 DEF HeaderCount, HeadersRead, HeadersOut

LEMMA CountSame ==
  /\ UNCHANGED <<job, input>> => HeaderCount' = HeaderCount
  /\ UNCHANGED <<job, input, pos>> => HeadersRead' = HeadersRead
  /\ UNCHANGED <<job, input, pos, header_out>> => HeadersOut' = HeadersOut
PROOF
  <1>1. UNCHANGED <<job, input>> => HeaderCount' = HeaderCount
    BY DEF HeaderCount
  <1>2. UNCHANGED <<job, input, pos>> => HeadersRead' = HeadersRead
    BY <1>1 DEF HeadersRead
  <1>3. HeadersOut' = HeadersRead' - Len(header_out')
    BY Zenon DEF HeadersOut
  <1>4. HeadersOut = HeadersRead - Len(header_out)
    BY Zenon DEF HeadersOut
  <1> QED BY <1>1, <1>2, <1>3, <1>4, Zenon

LEMMA NoHeaderGrows ==
  ASSUME NEW n \in Nat, NEW q \in Seq(0 .. n), NEW x \in 0 .. n, NEW count \in Nat,
         NoHeader(q, count), x = 0 \/ x > count
  PROVE  NoHeader(Append(q, x), count)
PROOF
  <1> DEFINE r == Append(q, x)
  <1>1. /\ Len(r) = Len(q) + 1 /\ r[Len(q) + 1] = x
        /\ \A k \in 1 .. Len(q) : r[k] = q[k]
    BY Longer
  <1>2. Len(q) \in Nat
    OBVIOUS
  <1> HIDE DEF r
  <1>3. ASSUME NEW k \in 1 .. Len(r) PROVE r[k] = 0 \/ r[k] > count
    <2>1. CASE k = Len(q) + 1
      BY <1>1, <2>1
    <2>2. CASE k # Len(q) + 1
      <3>1. k \in 1 .. Len(q)
        BY <1>1, <1>2, <2>2
      <3> QED BY <1>1, <3>1 DEF NoHeader
    <2> QED BY <2>1, <2>2
  <1> QED BY <1>3 DEF NoHeader, r

LEMMA NoHeaderShrinks ==
  ASSUME NEW n \in Nat, NEW q \in Seq(0 .. n), q # << >>, NEW count \in Nat, NoHeader(q, count)
  PROVE  /\ NoHeader(Tail(q), count) /\ Head(q) \in 0 .. n
         /\ Head(q) = 0 \/ Head(q) > count
PROOF
  <1> DEFINE t == Tail(q)
  <1>1. /\ Head(q) \in 0 .. n /\ Len(t) = Len(q) - 1 /\ Len(q) \in Nat \ {0} /\ Head(q) = q[1]
        /\ \A k \in 1 .. Len(q) - 1 : t[k] = q[k + 1]
    BY Shorter
  <1> HIDE DEF t
  <1>2. ASSUME NEW k \in 1 .. Len(t) PROVE t[k] = 0 \/ t[k] > count
    <2>1. k \in 1 .. Len(q) - 1 /\ k + 1 \in 1 .. Len(q)
      BY <1>1
    <2> QED BY <1>1, <2>1 DEF NoHeader
  <1>3. 1 \in 1 .. Len(q)
    BY <1>1
  <1> QED BY <1>1, <1>2, <1>3 DEF NoHeader, t

LEMMA NoHeaderMoved ==
  ASSUME NEW n \in Nat, NEW a \in Seq(0 .. n), NEW b \in Seq(0 .. n), b # << >>,
         NEW count \in Nat, NoHeader(a, count), NoHeader(b, count)
  PROVE  NoHeader(Append(a, Head(b)), count) /\ NoHeader(Tail(b), count)
PROOF
  <1> DEFINE h == Head(b)
  <1>1. h \in 0 .. n /\ (h = 0 \/ h > count) /\ NoHeader(Tail(b), count)
    BY NoHeaderShrinks
  <1> HIDE DEF h
  <1>2. NoHeader(Append(a, h), count)
    BY <1>1, NoHeaderGrows
  <1> QED BY <1>1, <1>2 DEF h

LEMMA NoHeaderIn ==
  ASSUME NEW n \in Nat, NEW q \in Seq(0 .. n), NEW s \in Seq(0 .. n),
         Range(s) \subseteq Range(q), NEW count \in Nat, NoHeader(q, count)
  PROVE  NoHeader(s, count)
PROOF
  <1>1. Len(q) \in Nat /\ DOMAIN q = 1 .. Len(q) /\ DOMAIN s = 1 .. Len(s)
    BY LenProperties
  <1>2. ASSUME NEW k \in 1 .. Len(s) PROVE s[k] = 0 \/ s[k] > count
    <2>1. s[k] \in Range(q)
      BY <1>1 DEF Range
    <2>2. PICK j \in 1 .. Len(q) : q[j] = s[k]
      BY <1>1, <2>1 DEF Range
    <2> QED BY <2>2 DEF NoHeader
  <1> QED BY <1>2 DEF NoHeader

LEMMA CopyHeaderFacts ==
  ASSUME TypeOK, Headers, Carried, CopyHeader
  PROVE  /\ pos < HeaderCount /\ pos' = pos + 1 /\ HeaderCount' = HeaderCount
         /\ HeadersRead = pos /\ HeadersRead' = pos + 1
         /\ skip_header_lines' = IF pos' < job'.header THEN job'.header - pos' ELSE 0
         /\ Len(output) = HeadersOut /\ HeadersOut \in Nat
         /\ \/ /\ header_out' = << >> /\ Len(output') = pos + 1 /\ HeadersOut' = pos + 1
               /\ \A i \in 1 .. pos + 1 : output'[i].line = i
            \/ /\ Len(header_out') = Len(header_out) + 1 /\ HeadersOut' = HeadersOut
               /\ \A i \in 1 .. Len(header_out') : header_out'[i] = HeadersOut + i
               /\ output' = output /\ skip_header_lines' # 0
PROOF
  <1> DEFINE lines == Append(header_out, pos + 1)
  <1>1. /\ pos < Len(input) /\ pos' = pos + 1 /\ skip_header_lines > 0
        /\ skip_header_lines' = skip_header_lines - 1
        /\ UNCHANGED <<job, input, stdout, full, pipe, held>>
        /\ \/ header_out' = << >> /\ output' = output \o AsIs(lines)
           \/ header_out' = lines /\ output' = output /\ skip_header_lines' # 0
    BY DEF CopyHeader, Flushes
  <1>2. /\ pos \in Nat /\ Len(input) \in Nat /\ job.header \in Nat /\ HeaderCount \in Nat
        /\ Len(header_out) \in Nat /\ Len(output) \in Nat
        /\ HeadersOut = HeadersRead - Len(header_out) /\ header_out \in Seq(1 .. pos)
        /\ output \in Seq(Shows)
    BY Counts, Types
  <1>3. skip_header_lines = IF pos < job.header THEN job.header - pos ELSE 0
    BY DEF Headers
  <1>4. pos < job.header
    BY <1>1, <1>3
  <1>5. pos < HeaderCount /\ HeaderCount' = HeaderCount
    BY <1>1, <1>2, <1>4 DEF HeaderCount
  <1>6. HeadersRead = pos
    BY <1>5 DEF HeadersRead
  <1>7. HeadersRead' = pos + 1
    <2>1. HeadersRead' = IF pos' < HeaderCount' THEN pos' ELSE HeaderCount'
      BY DEF HeadersRead
    <2> QED BY <1>1, <1>2, <1>5, <2>1
  <1>8. skip_header_lines' = IF pos' < job'.header THEN job'.header - pos' ELSE 0
    BY <1>1, <1>2, <1>3, <1>4
  <1>9. Len(output) = HeadersOut /\ HeadersOut \in Nat
    BY <1>2, <1>5 DEF Carried
  <1>10. HeadersOut' = (pos + 1) - Len(header_out')
    <2>1. HeadersOut' = HeadersRead' - Len(header_out')
      BY Zenon DEF HeadersOut
    <2> QED BY <1>7, <2>1, Zenon
  <1>11. /\ lines \in Seq(1 .. pos + 1) /\ Len(lines) = Len(header_out) + 1
         /\ \A i \in 1 .. Len(header_out) : lines[i] = header_out[i]
         /\ lines[Len(header_out) + 1] = pos + 1
    <2>1. header_out \in Seq(1 .. pos + 1)
      BY <1>2, Grown
    <2>2. pos + 1 \in 1 .. pos + 1
      BY <1>2
    <2> QED BY <2>1, <2>2, Longer
  <1> HIDE DEF lines
  <1>12. \A i \in 1 .. Len(header_out) + 1 : lines[i] = HeadersOut + i
    <2> SUFFICES ASSUME NEW i \in 1 .. Len(header_out) + 1 PROVE lines[i] = HeadersOut + i
      OBVIOUS
    <2>1. CASE i = Len(header_out) + 1
      BY <1>2, <1>6, <1>11, <2>1
    <2>2. CASE i # Len(header_out) + 1
      <3>1. i \in 1 .. Len(header_out)
        BY <1>2, <2>2
      <3> QED BY <1>11, <3>1 DEF Headers
    <2> QED BY <2>1, <2>2
  <1>13. CASE header_out' = << >> /\ output' = output \o AsIs(lines)
    <2> DEFINE new == AsIs(lines)
    <2>1. /\ new \in Seq(ShowsTo(pos + 1)) /\ Len(new) = Len(header_out) + 1
          /\ \A i \in 1 .. Len(header_out) + 1 : new[i].line = HeadersOut + i
      <3>1. pos + 1 \in Nat /\ pos + 1 <= Len(input)
        BY <1>1, <1>2
      <3> QED BY <1>11, <1>12, <3>1, AsIsFacts
    <2>2. output \in Seq(ShowsTo(pos + 1))
      BY <1>2, Grown DEF Shows
    <2> HIDE DEF new
    <2>3. /\ Len(output') = Len(output) + Len(new)
          /\ \A i \in 1 .. Len(output) + Len(new) :
               output'[i] = IF i <= Len(output) THEN output[i] ELSE new[i - Len(output)]
      BY <1>13, <2>1, <2>2, ConcatProperties DEF new
    <2>4. Len(output') = pos + 1
      BY <1>2, <1>6, <1>9, <2>1, <2>3
    <2>5. ASSUME NEW i \in 1 .. pos + 1 PROVE output'[i].line = i
      <3>1. CASE i <= HeadersOut
        <4>1. i \in 1 .. Len(output)
          BY <1>9, <3>1
        <4>2. output'[i] = output[i]
          BY <1>9, <2>3, <2>4, <3>1
        <4> QED BY <3>1, <4>1, <4>2 DEF Headers
      <3>2. CASE ~(i <= HeadersOut)
        <4>1. i - HeadersOut \in 1 .. Len(header_out) + 1
          BY <1>2, <1>6, <1>9, <3>2
        <4>2. output'[i] = new[i - HeadersOut]
          BY <1>9, <2>3, <2>4, <3>2
        <4>3. new[i - HeadersOut].line = HeadersOut + (i - HeadersOut)
          BY <2>1, <4>1
        <4> QED BY <1>9, <4>2, <4>3
      <3> QED BY <3>1, <3>2
    <2>6. HeadersOut' = pos + 1
      BY <1>2, <1>10, <1>13
    <2> QED BY <1>1, <1>5, <1>6, <1>7, <1>8, <1>9, <1>13, <2>4, <2>5, <2>6
  <1>14. CASE header_out' = lines /\ output' = output /\ skip_header_lines' # 0
    <2>0. Len(header_out') = Len(header_out) + 1
      BY <1>11, <1>14
    <2>1. HeadersOut' = HeadersOut
      BY <1>2, <1>6, <1>10, <2>0
    <2> QED BY <1>1, <1>5, <1>6, <1>7, <1>8, <1>9, <1>11, <1>12, <1>14, <2>1
  <1> QED BY <1>1, <1>13, <1>14

(* Lines put behind the output.                                            *)
LEMMA Extended ==
  ASSUME NEW n, NEW out, NEW new, out \in Seq(ShowsTo(n)), new \in Seq(ShowsTo(n))
  PROVE  /\ Len(out) \in Nat /\ Len(new) \in Nat
         /\ Len(out \o new) = Len(out) + Len(new)
         /\ \A i \in 1 .. Len(out) : (out \o new)[i] = out[i]
         /\ \A i \in 1 .. Len(out) + Len(new) :
              i > Len(out) => /\ i - Len(out) \in 1 .. Len(new)
                              /\ (out \o new)[i] = new[i - Len(out)]
PROOF
  <1> DEFINE S == ShowsTo(n)
             r == out \o new
  <1>1. out \in Seq(S) /\ new \in Seq(S)
    OBVIOUS
  <1> HIDE DEF S
  <1>2. /\ Len(r) = Len(out) + Len(new)
        /\ \A i \in 1 .. Len(out) + Len(new) :
             r[i] = IF i <= Len(out) THEN out[i] ELSE new[i - Len(out)]
    BY ONLY <1>1, ConcatProperties
  <1>3. Len(out) \in Nat /\ Len(new) \in Nat
    BY <1>1
  <1> HIDE DEF r
  <1>4. \A i \in 1 .. Len(out) : r[i] = out[i]
    BY <1>2, <1>3
  <1>5. \A i \in 1 .. Len(out) + Len(new) :
          i > Len(out) => i - Len(out) \in 1 .. Len(new) /\ r[i] = new[i - Len(out)]
    BY <1>2, <1>3
  <1> QED BY <1>2, <1>3, <1>4, <1>5 DEF r

LEMMA DecorateFacts ==
  ASSUME TypeOK, Headers, Decorate
  PROVE  /\ pos' = pos + 1 /\ pos' \in Nat /\ pos < Len(input)
         /\ pos >= HeaderCount /\ pos' > HeaderCount /\ pos >= job.header
         /\ HeaderCount' = HeaderCount /\ header_out = << >> /\ header_out' = << >>
         /\ HeadersRead = HeaderCount /\ HeadersRead' = HeaderCount
         /\ HeadersOut = HeaderCount /\ HeadersOut' = HeaderCount
         /\ UNCHANGED <<job, input, skip_header_lines, pipe, held, output>>
         /\ stdout["main"] \in Seq(0 .. pos') /\ stdout'["undec"] = stdout["undec"]
         /\ \/ /\ input[pos + 1].key # 0 /\ code' = code /\ pc' = pc
               /\ stdout'["main"] = Append(stdout["main"], pos + 1)
            \/ /\ code'["main"] = "error"
               /\ stdout'["main"] = Append(stdout["main"], 0)
PROOF
  <1>1. /\ pos' = pos + 1 /\ pos < Len(input) /\ skip_header_lines = 0
        /\ UNCHANGED <<job, input, skip_header_lines, header_out, pipe, held, output>>
        /\ \/ /\ input[pos + 1].key # 0 /\ code' = code /\ pc' = pc
              /\ stdout' = [stdout EXCEPT !["main"] = Append(stdout["main"], pos + 1)]
           \/ /\ Exit("main", "error")
              /\ stdout' = [stdout EXCEPT !["main"] = Append(stdout["main"], 0)]
    BY DEF Decorate
  <1>2. /\ HeaderCount \in Nat /\ HeaderCount <= job.header /\ pos \in Nat /\ job.header \in Nat
        /\ Len(input) \in Nat
    BY Counts
  <1>3. pos >= job.header /\ header_out = << >>
    BY <1>1, <1>2 DEF Headers
  <1>4. HeaderCount' = HeaderCount
    BY <1>1, CountSame
  <1>5. pos >= HeaderCount /\ pos' > HeaderCount /\ pos' \in Nat
    BY <1>1, <1>2, <1>3
  <1>6. HeadersRead = HeaderCount
    BY <1>2, <1>5 DEF HeadersRead
  <1>7. HeadersRead' = HeaderCount
    <2>1. HeadersRead' = IF pos' < HeaderCount' THEN pos' ELSE HeaderCount'
      BY DEF HeadersRead
    <2> QED BY <1>2, <1>4, <1>5, <2>1
  <1>8. HeadersOut = HeaderCount /\ HeadersOut' = HeaderCount
    <2>1. HeadersOut = HeadersRead - Len(header_out)
      BY Zenon DEF HeadersOut
    <2>2. HeadersOut' = HeadersRead' - Len(header_out')
      BY Zenon DEF HeadersOut
    <2>3. header_out' = << >> /\ Len(<< >>) = 0
      BY <1>1, <1>3
    <2> QED BY <1>2, <1>3, <1>6, <1>7, <2>1, <2>2, <2>3
  <1>9. stdout \in [{"main", "undec"} -> Seq(0 .. pos)]
    BY DEF TypeOK
  <1>10. stdout'["undec"] = stdout["undec"]
    BY <1>1, <1>9
  <1>11. \/ /\ input[pos + 1].key # 0 /\ code' = code /\ pc' = pc
            /\ stdout'["main"] = Append(stdout["main"], pos + 1)
         \/ /\ code'["main"] = "error"
            /\ stdout'["main"] = Append(stdout["main"], 0)
    <2>1. ControlType /\ "error" \in Codes /\ "main" \in Proc
      BY TypeParts, Names
    <2>2. Exit("main", "error") => code'["main"] = "error"
      BY <2>1, ExitFacts
    <2> QED BY <1>1, <1>9, <2>2
  <1>12. stdout["main"] \in Seq(0 .. pos')
    <2>1. pos + 1 \in Nat /\ pos <= pos + 1
      BY <1>2
    <2> QED BY <1>1, <1>2, <1>9, <2>1, Grown
  <1> QED BY <1>1, <1>3, <1>4, <1>5, <1>6, <1>7, <1>8, <1>10, <1>11, <1>12

LEMMA ExitMainFacts ==
  ASSUME TypeOK, Headers, Carried, ExitMain
  PROVE  /\ header_out' = << >> /\ HeaderCount' = HeaderCount
         /\ HeadersRead' = HeadersRead /\ HeadersOut' = HeadersRead
         /\ \/ header_out = << >> /\ output' = output /\ HeadersOut' = HeadersOut
            \/ /\ pos <= HeaderCount /\ Len(output') = HeadersRead
               /\ \A i \in 1 .. HeadersRead : output'[i].line = i
PROOF
  <1>1. /\ output' = output \o AsIs(header_out) /\ header_out' = << >>
        /\ UNCHANGED <<job, input, pos, skip_header_lines, stdout, full, pipe, held>>
    BY DEF ExitMain
  <1>2. HeaderCount' = HeaderCount /\ HeadersRead' = HeadersRead
    BY <1>1, CountSame
  <1>3. /\ HeaderCount \in Nat /\ HeadersRead \in Nat /\ pos \in Nat /\ job.header \in Nat
        /\ pos <= Len(input) /\ Len(input) \in Nat
        /\ Len(header_out) \in Nat /\ Len(output) \in Nat
        /\ HeadersOut = HeadersRead - Len(header_out) /\ HeadersOut \in Int
    BY Counts
  <1>4. HeadersOut' = HeadersRead
    <2>1. HeadersOut' = HeadersRead' - Len(header_out')
      BY Zenon DEF HeadersOut
    <2>2. Len(<< >>) = 0
      OBVIOUS
    <2> QED BY <1>1, <1>2, <1>3, <2>1, <2>2
  <1> DEFINE new == AsIs(header_out)
  <1>5. /\ new \in Seq(Shows) /\ Len(new) = Len(header_out)
        /\ \A i \in 1 .. Len(header_out) : new[i].line = header_out[i]
    BY Types, AsIsFacts DEF Shows
  <1>6. output \in Seq(Shows)
    BY Types
  <1> HIDE DEF new
  <1>7. CASE header_out = << >>
    <2>1. new = << >>
      BY <1>5, <1>7
    <2>2. output' = output
      BY <1>1, <1>6, <2>1, ConcatEmptySeq DEF new
    <2>3. HeadersOut = HeadersRead
      <3>1. Len(<< >>) = 0
        OBVIOUS
      <3> QED BY <1>3, <1>7, <3>1
    <2> QED BY <1>1, <1>2, <1>4, <1>7, <2>2, <2>3
  <1>8. CASE header_out # << >>
    <2>1. pos < job.header
      BY <1>8 DEF Headers
    <2>2. pos <= HeaderCount
      BY <1>3, <2>1 DEF HeaderCount
    <2>3. Len(output) = HeadersOut
      BY <2>2 DEF Carried
    <2>4. output' = output \o new
      BY <1>1 DEF new
    <2>5. /\ Len(output \o new) = Len(output) + Len(new)
          /\ \A i \in 1 .. Len(output) : (output \o new)[i] = output[i]
          /\ \A i \in 1 .. Len(output) + Len(new) :
               i > Len(output) => /\ i - Len(output) \in 1 .. Len(new)
                                  /\ (output \o new)[i] = new[i - Len(output)]
      <3>1. new \in Seq(ShowsTo(pos)) /\ output \in Seq(ShowsTo(pos))
        BY <1>5, <1>6 DEF Shows
      <3> QED BY ONLY <3>1, Extended
    <2>6. Len(output') = HeadersRead
      BY <1>3, <1>5, <2>3, <2>4, <2>5
    <2>7. ASSUME NEW i \in 1 .. HeadersRead PROVE output'[i].line = i
      <3>1. i \in 1 .. Len(output) + Len(new)
        BY <2>4, <2>5, <2>6
      <3>2. CASE i <= Len(output)
        <4>1. i \in 1 .. Len(output)
          BY <3>2
        <4> QED BY <2>3, <2>4, <2>5, <3>2, <4>1 DEF Headers
      <3>3. CASE i > Len(output)
        <4>1. i - Len(output) \in 1 .. Len(header_out) /\ output'[i] = new[i - Len(output)]
          BY <1>5, <2>4, <2>5, <3>1, <3>3
        <4>2. new[i - Len(output)].line = HeadersOut + (i - Len(output))
          BY <1>5, <4>1 DEF Headers
        <4> QED BY <1>3, <2>3, <4>1, <4>2
      <3> QED BY <1>3, <3>2, <3>3
    <2> QED BY <1>1, <1>2, <1>4, <2>2, <2>6, <2>7
  <1> QED BY <1>7, <1>8

LEMMA WriteToUserFacts ==
  ASSUME TypeOK, WriteToUser
  PROVE  /\ UNCHANGED <<job, input, pos, skip_header_lines, header_out, pipe, held, pc, code>>
         /\ stdout["undec"] # << >> /\ stdout'["undec"] = << >>
         /\ stdout'["main"] = stdout["main"]
         /\ HeaderCount' = HeaderCount /\ HeadersRead' = HeadersRead
         /\ HeadersOut' = HeadersOut
         /\ Len(stdout["undec"]) \in Nat
         /\ Len(output') = Len(output) + Len(stdout["undec"])
         /\ \A i \in 1 .. Len(output) : output'[i] = output[i]
         /\ \A i \in 1 .. Len(output') :
              i > Len(output) =>
                /\ i - Len(output) \in 1 .. Len(stdout["undec"])
                /\ output'[i].line = stdout["undec"][i - Len(output)]
PROOF
  <1> DEFINE new == Cleaned(stdout["undec"])
  <1>1. /\ output' = output \o new /\ stdout["undec"] # << >>
        /\ stdout' = [stdout EXCEPT !["undec"] = << >>]
        /\ UNCHANGED <<job, input, pos, skip_header_lines, header_out, pipe, held, pc, code>>
    BY DEF WriteToUser, Flushing, Cleaned
  <1>2. /\ HeaderCount' = HeaderCount /\ HeadersRead' = HeadersRead
        /\ HeadersOut' = HeadersOut
    BY <1>1, CountSame
  <1>3. stdout \in [{"main", "undec"} -> Seq(0 .. pos)] /\ output \in Seq(ShowsTo(pos))
    BY Types DEF TypeOK, Shows
  <1>4. stdout'["undec"] = << >> /\ stdout'["main"] = stdout["main"]
    BY <1>1, <1>3
  <1>5. /\ new \in Seq(ShowsTo(pos)) /\ Len(new) = Len(stdout["undec"])
        /\ \A i \in 1 .. Len(stdout["undec"]) : new[i].line = stdout["undec"][i]
    BY Types, CleanedFacts DEF Shows
  <1> HIDE DEF new
  <1>6. /\ Len(output) \in Nat /\ Len(new) \in Nat
        /\ Len(output \o new) = Len(output) + Len(new)
        /\ \A i \in 1 .. Len(output) : (output \o new)[i] = output[i]
        /\ \A i \in 1 .. Len(output) + Len(new) :
             i > Len(output) => /\ i - Len(output) \in 1 .. Len(new)
                                /\ (output \o new)[i] = new[i - Len(output)]
    <2>1. new \in Seq(ShowsTo(pos)) /\ output \in Seq(ShowsTo(pos))
      BY <1>3, <1>5
    <2> QED BY ONLY <2>1, Extended
  <1> QED BY <1>1, <1>2, <1>4, <1>5, <1>6

LEMMA HeadersStep ==
  ASSUME TypeOK, Headers, Carried, [Next]_vars
  PROVE  Headers'
PROOF
  <1>0. Frames
    BY FramesHold
  <1> DEFINE skipRight == skip_header_lines = IF pos < job.header THEN job.header - pos ELSE 0
             bufferRight == \A i \in 1 .. Len(header_out) : header_out[i] = HeadersOut + i
             outputRight == \A i \in 1 .. Len(output) :
                              IF i <= HeadersOut THEN output[i].line = i
                              ELSE output[i].line = 0 \/ output[i].line > HeaderCount
  <1>1. skipRight /\ bufferRight /\ outputRight
    BY DEF Headers
  <1>2. CASE CopyHeader
    <2>1. /\ pos < HeaderCount /\ pos' = pos + 1 /\ HeaderCount' = HeaderCount
          /\ HeadersRead = pos /\ HeadersRead' = pos + 1 /\ skipRight'
          /\ Len(output) = HeadersOut /\ HeadersOut \in Nat
          /\ \/ /\ header_out' = << >> /\ Len(output') = pos + 1 /\ HeadersOut' = pos + 1
                /\ \A i \in 1 .. pos + 1 : output'[i].line = i
             \/ /\ Len(header_out') = Len(header_out) + 1 /\ HeadersOut' = HeadersOut
                /\ \A i \in 1 .. Len(header_out') : header_out'[i] = HeadersOut + i
                /\ output' = output /\ skip_header_lines' # 0
      BY <1>2, CopyHeaderFacts
    <2>2. /\ pos \in Nat /\ Len(header_out) \in Nat /\ HeadersOut = HeadersRead - Len(header_out)
          /\ Len(<< >>) = 0
      BY Counts
    <2>3. CASE /\ header_out' = << >> /\ Len(output') = pos + 1 /\ HeadersOut' = pos + 1
               /\ \A i \in 1 .. pos + 1 : output'[i].line = i
      <3>1. outputRight'
        BY <2>2, <2>3
      <3>2. bufferRight' /\ Len(header_out') <= HeadersRead' /\ HeadersOut' <= Len(output')
        BY <2>1, <2>2, <2>3
      <3> QED BY <2>1, <2>3, <3>1, <3>2 DEF Headers
    <2>4. CASE /\ Len(header_out') = Len(header_out) + 1 /\ HeadersOut' = HeadersOut
               /\ \A i \in 1 .. Len(header_out') : header_out'[i] = HeadersOut + i
               /\ output' = output /\ skip_header_lines' # 0
      <3>1. outputRight'
        BY <1>1, <2>1, <2>4
      <3>2. bufferRight' /\ Len(header_out') <= HeadersRead' /\ HeadersOut' <= Len(output')
        BY <2>1, <2>2, <2>4
      <3> QED BY <2>1, <2>4, <3>1, <3>2 DEF Headers
    <2> QED BY <2>1, <2>3, <2>4
  <1>3. CASE Decorate
    <2>1. /\ pos' = pos + 1 /\ pos \in Nat /\ pos >= job.header /\ job.header \in Nat
          /\ HeaderCount' = HeaderCount /\ header_out' = << >>
          /\ HeadersRead' = HeaderCount /\ HeadersOut = HeaderCount /\ HeadersOut' = HeaderCount
          /\ UNCHANGED <<job, skip_header_lines, output>> /\ skip_header_lines = 0
          /\ HeaderCount \in Nat /\ Len(<< >>) = 0
      BY <1>3, DecorateFacts, Counts DEF Decorate
    <2>2. skipRight'
      BY <2>1
    <2>3. bufferRight' /\ outputRight' /\ HeadersOut' <= Len(output')
      BY <1>1, <2>1 DEF Headers
    <2> QED BY <2>1, <2>2, <2>3 DEF Headers
  <1>4. CASE ExitMain
    <2>1. /\ header_out' = << >> /\ HeaderCount' = HeaderCount
          /\ HeadersRead' = HeadersRead /\ HeadersOut' = HeadersRead
          /\ \/ header_out = << >> /\ output' = output /\ HeadersOut' = HeadersOut
             \/ /\ pos <= HeaderCount /\ Len(output') = HeadersRead
                /\ \A i \in 1 .. HeadersRead : output'[i].line = i
      BY <1>4, ExitMainFacts
    <2>2. /\ UNCHANGED <<job, pos, skip_header_lines>>
          /\ HeadersRead \in Nat /\ Len(<< >>) = 0
      BY <1>4, Counts DEF ExitMain
    <2>3. outputRight' /\ HeadersOut' <= Len(output')
      <3>1. CASE output' = output /\ HeadersOut' = HeadersOut
        BY <1>1, <2>1, <3>1 DEF Headers
      <3>2. CASE /\ Len(output') = HeadersRead
                 /\ \A i \in 1 .. HeadersRead : output'[i].line = i
        BY <2>1, <2>2, <3>2
      <3> QED BY <2>1, <3>1, <3>2
    <2>4. skipRight' /\ bufferRight' /\ Len(header_out') <= HeadersRead'
      BY <1>1, <2>1, <2>2
    <2> QED BY <2>1, <2>3, <2>4 DEF Headers
  <1>5. CASE WriteToUser
    <2>1. /\ UNCHANGED <<job, pos, skip_header_lines, header_out>>
          /\ HeaderCount' = HeaderCount /\ HeadersRead' = HeadersRead
          /\ HeadersOut' = HeadersOut
          /\ Len(stdout["undec"]) \in Nat /\ Len(output) \in Nat /\ HeadersOut \in Int
          /\ Len(output') = Len(output) + Len(stdout["undec"])
          /\ \A i \in 1 .. Len(output) : output'[i] = output[i]
          /\ \A i \in 1 .. Len(output') :
               i > Len(output) =>
                 /\ i - Len(output) \in 1 .. Len(stdout["undec"])
                 /\ output'[i].line = stdout["undec"][i - Len(output)]
      BY <1>5, WriteToUserFacts, Counts
    <2>2. HeadersOut <= Len(output) /\ HeadersOut' <= Len(output')
      BY <2>1 DEF Headers
    <2>3. outputRight'
      <3> SUFFICES ASSUME NEW i \in 1 .. Len(output')
                   PROVE  IF i <= HeadersOut THEN output'[i].line = i
                          ELSE output'[i].line = 0 \/ output'[i].line > HeaderCount
        BY <2>1
      <3>1. CASE i <= Len(output)
        <4>1. i \in 1 .. Len(output)
          BY <2>1, <3>1
        <4> QED BY <1>1, <2>1, <4>1
      <3>2. CASE i > Len(output)
        <4>1. i > HeadersOut
          BY <2>1, <2>2, <3>2
        <4>2. NoHeader(stdout["undec"], HeaderCount)
          BY DEF Carried
        <4> DEFINE k == i - Len(output)
        <4>3. k \in 1 .. Len(stdout["undec"]) /\ output'[i].line = stdout["undec"][k]
          BY <2>1, <3>2
        <4> HIDE DEF k
        <4>4. output'[i].line = 0 \/ output'[i].line > HeaderCount
          BY <4>2, <4>3 DEF NoHeader
        <4>5. ~(i <= HeadersOut)
          BY <2>1, <4>1
        <4> QED BY <4>4, <4>5
      <3> QED BY <2>1, <3>1, <3>2
    <2>4. skipRight' /\ bufferRight'
      BY <1>1, <2>1
    <2> QED BY <2>1, <2>2, <2>3, <2>4 DEF Headers
  <1>6. CASE ~(CopyHeader \/ Decorate \/ ExitMain \/ WriteToUser)
    <2>1. UNCHANGED <<job, input, pos, skip_header_lines, header_out, output>>
      BY <1>0, <1>6 DEF Frames
    <2>2. /\ HeaderCount' = HeaderCount /\ HeadersRead' = HeadersRead
          /\ HeadersOut' = HeadersOut
      BY <2>1, CountSame
    <2> QED BY <2>1, <2>2 DEF Headers
  <1> QED BY <1>2, <1>3, <1>4, <1>5, <1>6

(* No header line goes through sort.                                       *)
LEMMA CarriedStep ==
  ASSUME TypeOK, Control, Headers, Carried, [Next]_vars
  PROVE  Carried'
PROOF
  <1>0. Frames /\ SortPath
    BY FramesHold, Paths
  <1>a. Unsorted' => Unsorted
    BY <1>0 DEF SortPath, Unsorted
  <1>b. /\ pos \in Nat /\ HeaderCount \in Nat
        /\ stdout["main"] \in Seq(0 .. pos) /\ stdout["undec"] \in Seq(0 .. pos)
        /\ pipe["ds"] \in Seq(0 .. pos) /\ pipe["su"] \in Seq(0 .. pos)
        /\ held \in Seq(0 .. pos)
    BY Types, Counts
  <1> DEFINE below == pos <= HeaderCount
             early == stdout["main"] = << >> /\ pipe["ds"] = << >> /\ held = << >>
             late == /\ pipe["su"] = << >> /\ stdout["undec"] = << >>
                     /\ Len(output) = HeadersOut
             clean == /\ NoHeader(stdout["main"], HeaderCount) /\ NoHeader(pipe["ds"], HeaderCount)
                      /\ NoHeader(held, HeaderCount) /\ NoHeader(pipe["su"], HeaderCount)
                      /\ NoHeader(stdout["undec"], HeaderCount)
  <1>c. clean /\ (below => early) /\ (below \/ Unsorted => late)
    BY DEF Carried
  <1>1. CASE CopyHeader
    <2>0. pos < HeaderCount /\ pos' = pos + 1 /\ HeaderCount' = HeaderCount
      BY <1>1, CopyHeaderFacts
    <2>1. /\ below /\ pos' <= HeaderCount' /\ HeaderCount' = HeaderCount
          /\ UNCHANGED <<stdout, pipe, held>>
      BY <1>1, <1>b, <2>0 DEF CopyHeader
    <2>2. Len(output') = HeadersOut'
      BY <1>1, CopyHeaderFacts
    <2> QED BY <1>c, <2>1, <2>2 DEF Carried
  <1>2. CASE Decorate
    <2>1. /\ pos' = pos + 1 /\ pos' \in Nat /\ pos' > HeaderCount /\ HeaderCount' = HeaderCount
          /\ HeadersOut' = HeadersOut
          /\ UNCHANGED <<pipe, held, output>>
          /\ stdout["main"] \in Seq(0 .. pos') /\ stdout'["undec"] = stdout["undec"]
          /\ \/ stdout'["main"] = Append(stdout["main"], pos')
             \/ stdout'["main"] = Append(stdout["main"], 0)
      BY <1>2, DecorateFacts
    <2>2. PICK n \in {0, pos'} : stdout'["main"] = Append(stdout["main"], n)
      BY <2>1
    <2>3. n \in 0 .. pos' /\ (n = 0 \/ n > HeaderCount)
      BY <2>1
    <2>4. NoHeader(stdout'["main"], HeaderCount)
      BY <1>b, <1>c, <2>1, <2>2, <2>3, NoHeaderGrows
    <2>5. ~(pos' <= HeaderCount')
      BY <1>b, <2>1
    <2> QED BY <1>a, <1>c, <2>1, <2>4, <2>5 DEF Carried
  <1>3. CASE ExitMain
    <2>1. /\ UNCHANGED <<pos, stdout, pipe, held>> /\ HeaderCount' = HeaderCount
          /\ HeadersOut' = HeadersRead
          /\ \/ output' = output /\ HeadersOut' = HeadersOut
             \/ Len(output') = HeadersRead
      BY <1>3, ExitMainFacts DEF ExitMain
    <2> QED BY <1>a, <1>c, <2>1 DEF Carried
  <1>4. CASE WriteToUser
    <2>1. /\ UNCHANGED <<pos, pipe, held>> /\ HeaderCount' = HeaderCount
          /\ stdout["undec"] # << >> /\ stdout'["undec"] = << >>
          /\ stdout'["main"] = stdout["main"]
      BY <1>4, WriteToUserFacts
    <2>2. ~below /\ ~Unsorted
      BY <1>c, <2>1
    <2>3. NoHeader(<< >>, HeaderCount)
      <3>1. Len(<< >>) = 0
        OBVIOUS
      <3> QED BY <3>1 DEF NoHeader
    <2>4. ~Unsorted' /\ ~(pos' <= HeaderCount')
      BY <1>a, <2>1, <2>2
    <2>5. stdout'["undec"] = << >>
      BY <2>1
    <2> QED BY <1>c, <2>1, <2>3, <2>4, <2>5 DEF Carried
  <1>5. CASE ~(CopyHeader \/ Decorate \/ ExitMain \/ WriteToUser)
    <2>1. UNCHANGED <<job, input, pos, header_out, output>>
      BY <1>0, <1>5 DEF Frames
    <2>2. HeaderCount' = HeaderCount /\ HeadersOut' = HeadersOut
      BY <2>1, CountSame
    <2>3. CASE WriteToSort /\ IsOpen("ds_r")
      <3>1. /\ stdout["main"] # << >>
            /\ pipe'["ds"] = Append(pipe["ds"], Head(stdout["main"]))
            /\ stdout'["main"] = Tail(stdout["main"])
        BY <2>3 DEF WriteToSort, Flushing, TypeOK, Pipe
      <3>2. NoHeader(pipe'["ds"], HeaderCount) /\ NoHeader(stdout'["main"], HeaderCount)
        BY <1>b, <1>c, <3>1, NoHeaderMoved
      <3>3. /\ held' = held /\ pipe'["su"] = pipe["su"] /\ stdout'["undec"] = stdout["undec"]
        <4>1. /\ held' = held
              /\ \E q : stdout' = [stdout EXCEPT !["main"] = q]
              /\ \E q : pipe' = [pipe EXCEPT !["ds"] = q]
          BY <2>3 DEF WriteToSort
        <4>2. /\ stdout \in [{"main", "undec"} -> Seq(0 .. pos)]
              /\ pipe \in [{"ds", "su"} -> Seq(0 .. pos)]
          BY DEF TypeOK, Pipe
        <4> QED BY <4>1, <4>2
      <3>4. ~below
        BY <1>c, <3>1
      <3> QED BY <1>a, <1>c, <2>1, <2>2, <3>2, <3>3, <3>4 DEF Carried
    <2>4. CASE SortReads
      <3>1. /\ pipe["ds"] # << >> /\ held' = Append(held, Head(pipe["ds"]))
            /\ pipe'["ds"] = Tail(pipe["ds"])
        BY <2>4 DEF SortReads, TypeOK, Pipe
      <3>2. NoHeader(held', HeaderCount) /\ NoHeader(pipe'["ds"], HeaderCount)
        BY <1>b, <1>c, <3>1, NoHeaderMoved
      <3>3. UNCHANGED stdout /\ pipe'["su"] = pipe["su"]
        BY <2>4 DEF SortReads, TypeOK, Pipe
      <3>4. ~below
        BY <1>c, <3>1
      <3> QED BY <1>a, <1>c, <2>1, <2>2, <3>2, <3>3, <3>4 DEF Carried
    <2>5. CASE SortSorts
      <3>1. /\ UNCHANGED <<stdout, pipe>> /\ pc["sort"] = "copy"
            /\ held' = << >> \/ held' \in Sortings(held)
        BY <2>5 DEF SortSorts
      <3>2. NoHeader(held', HeaderCount)
        <4>1. CASE held' = << >>
          <5>1. Len(<< >>) = 0
            OBVIOUS
          <5> QED BY <4>1, <5>1 DEF NoHeader
        <4>2. CASE held' \in Sortings(held)
          <5>1. held' \in Seq(0 .. pos) /\ Range(held') \subseteq Range(held)
            BY <1>b, <4>2, SortingFacts
          <5> QED BY <1>b, <1>c, <5>1, NoHeaderIn
        <4> QED BY <3>1, <4>1, <4>2
      <3>3. below => held' = << >>
        <4> SUFFICES ASSUME below, held' \in Sortings(held) PROVE held' = << >>
          BY <3>1
        <4>1. held = << >>
          BY <1>c
        <4>2. Range(held) = {}
          <5>1. DOMAIN held = 1 .. 0
            BY <1>b, <4>1
          <5> QED BY <5>1 DEF Range
        <4>3. held' \in Seq(0 .. pos) /\ Range(held') = {}
          BY <1>b, <4>2, SortingFacts
        <4>4. DOMAIN held' = {} /\ DOMAIN held' = 1 .. Len(held') /\ Len(held') \in Nat
          BY <4>3 DEF Range
        <4> QED BY <4>3, <4>4
      <3>4. Unsorted
        BY <3>1 DEF Unsorted
      <3> QED BY <1>c, <2>1, <2>2, <3>1, <3>2, <3>3, <3>4 DEF Carried
    <2>6. CASE SortWrites /\ IsOpen("su_r")
      <3>1. /\ held # << >> /\ pipe'["su"] = Append(pipe["su"], Head(held))
            /\ held' = Tail(held) /\ pc["sort"] = "write"
            /\ pipe'["ds"] = pipe["ds"] /\ UNCHANGED stdout
        BY <2>6 DEF SortWrites, TypeOK, Pipe
      <3>2. NoHeader(held', HeaderCount) /\ NoHeader(pipe'["su"], HeaderCount)
        BY <1>b, <1>c, <3>1, NoHeaderMoved
      <3>3. ~below /\ ~Unsorted
        BY <1>c, <3>1 DEF Unsorted
      <3> QED BY <1>a, <1>c, <2>1, <2>2, <3>1, <3>2, <3>3 DEF Carried
    <2>7. CASE Undecorate
      <3>1. /\ pipe["su"] # << >>
            /\ stdout'["undec"] = Append(stdout["undec"], Head(pipe["su"]))
            /\ pipe'["su"] = Tail(pipe["su"])
            /\ pipe'["ds"] = pipe["ds"] /\ stdout'["main"] = stdout["main"] /\ held' = held
        BY <2>7 DEF Undecorate, TypeOK, Pipe
      <3>2. NoHeader(stdout'["undec"], HeaderCount) /\ NoHeader(pipe'["su"], HeaderCount)
        BY <1>b, <1>c, <3>1, NoHeaderMoved
      <3>3. ~below /\ ~Unsorted
        BY <1>c, <3>1
      <3> QED BY <1>a, <1>c, <2>1, <2>2, <3>1, <3>2, <3>3 DEF Carried
    <2>8. CASE ~(WriteToSort /\ IsOpen("ds_r")) /\ ~SortReads /\ ~SortSorts
               /\ ~(SortWrites /\ IsOpen("su_r")) /\ ~Undecorate
      <3>1. /\ held' = held /\ stdout'["main"] = stdout["main"]
            /\ stdout'["undec"] = stdout["undec"]
            /\ pipe'["ds"] = pipe["ds"] /\ pipe'["su"] = pipe["su"]
        BY <1>0, <1>5, <2>8 DEF Frames
      <3> QED BY <1>a, <1>c, <2>1, <2>2, <3>1 DEF Carried
    <2> QED BY <2>3, <2>4, <2>5, <2>6, <2>7, <2>8
  <1> QED BY <1>1, <1>2, <1>3, <1>4, <1>5

-----------------------------------------------------------------------------
(* Every line behind the header goes through sort once.                    *)

LEMMA OrderedIs ==
  ASSUME NEW S, NEW ns \in Seq(S)
  PROVE  InOrder(ns) <=> Ordered(job.unique, input, ns)
PROOF
  <1>1. DOMAIN ns = 1 .. Len(ns)
    OBVIOUS
  <1> QED BY <1>1 DEF InOrder, Ordered, KeyOf, KeyIn

LEMMA MoveInto ==
  ASSUME NEW S, NEW a, NEW b, NEW c, a \in Seq(S), b \in Seq(S), c \in Seq(S), c # << >>
  PROVE  Three(a, Append(b, Head(c)), Tail(c)) = Three(a, b, c)
PROOF
  <1> DEFINE h == <<Head(c)>>
             t == Tail(c)
  <1>1. c = h \o t /\ Append(b, Head(c)) = b \o h
    BY Shorter, Longer
  <1>2. h \in Seq(S) /\ t \in Seq(S)
    BY Shorter
  <1> HIDE DEF h, t
  <1>3. (a \o b) \o h = a \o (b \o h)
    BY ONLY <1>2, a \in Seq(S), b \in Seq(S), ConcatAssociative
  <1> DEFINE ab == a \o b
  <1>4. ab \in Seq(S)
    BY ONLY a \in Seq(S), b \in Seq(S), ConcatProperties
  <1> HIDE DEF ab
  <1>5. (ab \o h) \o t = ab \o (h \o t)
    BY ONLY <1>2, <1>4, ConcatAssociative
  <1> QED BY <1>1, <1>3, <1>5 DEF t, ab, Three

LEMMA WrittenType ==
  ASSUME TypeOK, Headers
  PROVE  /\ Written \in Seq(0 .. pos) /\ Len(Written) = Len(output) - HeadersOut
         /\ HeadersOut \in Nat /\ HeadersOut <= Len(output)
         /\ \A i \in 1 .. Len(output) - HeadersOut : Written[i] = output[HeadersOut + i].line
PROOF
  <1>1. /\ HeadersOut \in Nat /\ HeadersOut <= Len(output) /\ Len(output) \in Nat
    BY Counts DEF Headers
  <1> DEFINE n == Len(output) - HeadersOut
  <1>2. n \in Nat
    BY <1>1
  <1>3. ASSUME NEW i \in 1 .. n PROVE output[HeadersOut + i].line \in 0 .. pos
    <2>1. HeadersOut + i \in 1 .. Len(output)
      BY <1>1
    <2>2. output[HeadersOut + i] \in ShowsTo(pos)
      BY <2>1, Types DEF Shows
    <2> QED BY <2>2 DEF ShowsTo
  <1>4. Written = [i \in 1 .. n |-> output[HeadersOut + i].line]
    BY DEF Written
  <1> HIDE DEF n
  <1>5. Written \in [1 .. n -> 0 .. pos]
    BY <1>3, <1>4
  <1> DEFINE w == Written
  <1>6. w \in [1 .. n -> 0 .. pos]
    BY <1>5
  <1>7. \A i \in 1 .. n : w[i] = output[HeadersOut + i].line
    BY <1>4
  <1> HIDE DEF w
  <1>8. w \in Seq(0 .. pos)
    BY ONLY <1>2, <1>6, SeqDef
  <1>9. DOMAIN w = 1 .. n
    BY ONLY <1>6
  <1>10. Len(w) = n
    BY ONLY <1>2, <1>8, <1>9, LenProperties
  <1> QED BY <1>1, <1>7, <1>8, <1>10 DEF n, w

(* What undecorate writes out has been behind what is in the output.       *)
LEMMA WriteToUserWritten ==
  ASSUME TypeOK, Headers, WriteToUser, TypeOK', Headers'
  PROVE  Written' = Written \o stdout["undec"]
PROOF
  <1> DEFINE u == stdout["undec"]
             h == HeadersOut
             w == Written
             W == Written'
  <1>1. /\ pos' = pos /\ HeadersOut' = h
        /\ Len(u) \in Nat /\ Len(output') = Len(output) + Len(u)
        /\ \A i \in 1 .. Len(output) : output'[i] = output[i]
        /\ \A i \in 1 .. Len(output') :
             i > Len(output) => /\ i - Len(output) \in 1 .. Len(u)
                                /\ output'[i].line = u[i - Len(output)]
    BY WriteToUserFacts
  <1>2. /\ w \in Seq(0 .. pos) /\ Len(w) = Len(output) - h
        /\ h \in Nat /\ h <= Len(output) /\ Len(output) \in Nat
        /\ \A i \in 1 .. Len(output) - h : w[i] = output[h + i].line
    BY WrittenType, Types
  <1>3. u \in Seq(0 .. pos)
    BY Types
  <1>4. W = [i \in 1 .. Len(output') - h |-> output'[h + i].line]
    BY <1>1 DEF Written
  <1> HIDE DEF u, h, w, W
  <1> DEFINE r == w \o u
  <1>5. /\ r \in Seq(0 .. pos) /\ Len(r) = Len(w) + Len(u)
        /\ \A i \in 1 .. Len(w) + Len(u) : r[i] = IF i <= Len(w) THEN w[i] ELSE u[i - Len(w)]
    BY ONLY <1>2, <1>3, ConcatProperties
  <1>6. DOMAIN r = 1 .. Len(r)
    BY <1>5
  <1> HIDE DEF r
  <1>7. Len(r) = Len(output') - h
    BY <1>1, <1>2, <1>5
  <1>8. ASSUME NEW i \in 1 .. Len(r) PROVE r[i] = output'[h + i].line
    <2>1. CASE i <= Len(w)
      <3>1. i \in 1 .. Len(output) - h /\ h + i \in 1 .. Len(output)
        BY <1>2, <2>1
      <3> QED BY <1>1, <1>2, <1>5, <2>1, <3>1
    <2>2. CASE i > Len(w)
      <3>1. h + i \in 1 .. Len(output') /\ h + i > Len(output)
        BY <1>1, <1>2, <1>7, <2>2
      <3>2. (h + i) - Len(output) = i - Len(w)
        BY <1>2
      <3>3. output'[h + i].line = u[i - Len(w)]
        BY <1>1, <3>1, <3>2
      <3>4. r[i] = u[i - Len(w)]
        <4>1. i \in 1 .. Len(w) + Len(u) /\ ~(i <= Len(w))
          BY <1>2, <1>5, <2>2
        <4> QED BY <1>5, <4>1
      <3> QED BY <3>3, <3>4
    <2> QED BY <1>2, <1>5, <2>1, <2>2
  <1>9. r = [i \in 1 .. Len(r) |-> r[i]]
    BY <1>5, <1>6
  <1>10. W = r
    BY <1>4, <1>7, <1>8, <1>9
  <1> QED BY <1>10 DEF W, r, w, u

(* The steps of SortSorts: the end of file is seen when all lines are in.  *)
LEMMA SortedAll ==
  ASSUME TypeOK, Control, Open, Done, Headers, Carried, Flow, SortSorts,
         code["main"] \in {"running", "ok"}, ~job.check
  PROVE  /\ pc["main"] \in {"wait undec", "wait sort"}
         /\ (Written \o stdout["undec"]) \o (pipe["su"] \o held') = held'
         /\ held' \in Seq(0 .. pos)
         /\ Range(held') \subseteq HeaderCount + 1 .. Len(input)
         /\ AllIn(job.unique, input, HeaderCount + 1 .. Len(input), Range(held'))
         /\ IsInjective(held')
         /\ Ordered(job.unique, input, held')
PROOF
  <1>1. /\ pc["sort"] = "copy" /\ pipe["ds"] = << >> /\ ~IsOpen("ds_w")
        /\ held' \in Sortings(held)
    BY DEF SortSorts
  <1>2. pc["main"] \in {"wait undec", "wait sort"}
    <2>1. fd["main"]["ds_w"] # "ds_w"
      BY <1>1, OpenFacts DEF Proc, Fd
    <2>2. WithPipes["ds_w"] = "ds_w"
      BY DEF WithPipes, Fd
    <2> HIDE DEF WithPipes
    <2>3. pc["main"] \notin {"set up", "copy", "fclose", "close"}
      BY <2>1, <2>2 DEF Open
    <2> QED BY <1>1, <2>3 DEF Control, MainPlaces
  <1>3. pos = Len(input) /\ stdout["main"] = << >>
    BY <1>2 DEF Done
  <1>4. Unsorted
    BY <1>1 DEF Unsorted
  <1>5. pipe["su"] = << >> /\ stdout["undec"] = << >> /\ Len(output) = HeadersOut
    BY <1>4 DEF Carried
  <1>6. /\ pos \in Nat /\ HeaderCount \in Nat /\ HeaderCount <= pos
        /\ held \in Seq(0 .. pos)
    BY <1>3, Types, Counts
  <1>7. /\ held' \in Seq(0 .. pos) /\ InOrder(held')
        /\ Range(held') \subseteq Range(held) /\ IsInjective(held')
        /\ AllIn(job.unique, input, Range(held), Range(held'))
    BY <1>1, <1>6, SortingFacts
  <1>8. Before = held
    <2>1. Before = (held \o << >>) \o << >>
      BY <1>1, <1>3 DEF Before
    <2>2. held \o << >> = held
      BY <1>6, ConcatEmptySeq
    <2> QED BY <2>1, <2>2
  <1>9. Len(held) = pos - HeaderCount /\ \A i \in 1 .. Len(held) : held[i] = HeaderCount + i
    <2>1. DataRead = pos - HeaderCount
      BY <1>6 DEF DataRead
    <2>2. Len(Before) = DataRead /\ \A i \in 1 .. Len(Before) : Before[i] = HeaderCount + i
      BY <1>4 DEF Flow, Waiting
    <2> QED BY <1>8, <2>1, <2>2
  <1>10. Range(held) = HeaderCount + 1 .. pos
    <2>1. DOMAIN held = 1 .. pos - HeaderCount
      BY <1>6, <1>9
    <2>2. ASSUME NEW n \in Range(held) PROVE n \in HeaderCount + 1 .. pos
      <3>1. PICK i \in 1 .. pos - HeaderCount : n = held[i]
        BY <2>1 DEF Range
      <3> QED BY <1>6, <1>9, <3>1
    <2>3. ASSUME NEW n \in HeaderCount + 1 .. pos PROVE n \in Range(held)
      <3> DEFINE i == n - HeaderCount
      <3>1. i \in 1 .. pos - HeaderCount /\ HeaderCount + i = n
        BY <1>6
      <3> HIDE DEF i
      <3>2. held[i] = n
        BY <1>9, <3>1
      <3> QED BY <2>1, <3>1, <3>2 DEF Range
    <2> QED BY <2>2, <2>3
  <1>12. Ordered(job.unique, input, held')
    BY <1>7, OrderedIs
  <1>13. (Written \o stdout["undec"]) \o (pipe["su"] \o held') = held'
    <2>1. Written = << >>
      <3>1. Written \in Seq(0 .. pos) /\ Len(Written) = Len(output) - HeadersOut
            /\ HeadersOut \in Nat
        BY WrittenType
      <3> HIDE DEF Written
      <3> QED BY <1>5, <3>1
    <2>2. << >> \o held' = held' /\ << >> \o << >> = << >>
      BY <1>7, ConcatEmptySeq, EmptySeq
    <2> QED BY <1>5, <2>1, <2>2
  <1> QED BY <1>2, <1>3, <1>7, <1>10, <1>12, <1>13

(* Only SortWrites brings the first line out of sort.                      *)
LEMMA NothingStays ==
  ASSUME TypeOK, Headers, Carried, Nothing, [Next]_vars, ~SortWrites, Carried'
  PROVE  Nothing'
PROOF
  <1>0. Frames
    BY FramesHold
  <1>1. ~Undecorate /\ ~WriteToUser
    BY DEF Nothing, Undecorate, WriteToUser, Flushing
  <1>2. pipe'["su"] = << >> /\ stdout'["undec"] = << >>
    BY <1>0, <1>1 DEF Frames, Nothing
  <1>3. /\ HeaderCount' = HeaderCount /\ pos \in Nat /\ HeaderCount \in Nat
    BY <1>0, CountSame, Counts, Types DEF Frames
  <1>4. CASE CopyHeader
    <2>1. pos < HeaderCount /\ pos' = pos + 1
      BY <1>4, CopyHeaderFacts
    <2>2. pos' <= HeaderCount'
      BY <1>3, <2>1
    <2> QED BY <2>2 DEF Carried, Nothing
  <1>5. CASE ExitMain
    <2>1. \/ output' = output /\ HeadersOut' = HeadersOut
          \/ pos <= HeaderCount
      BY <1>5, ExitMainFacts
    <2>2. pos' = pos
      BY <1>5 DEF ExitMain
    <2>3. CASE pos <= HeaderCount
      BY <1>3, <2>2, <2>3 DEF Carried, Nothing
    <2>4. CASE output' = output /\ HeadersOut' = HeadersOut
      BY <1>2, <2>4 DEF Nothing
    <2> QED BY <2>1, <2>3, <2>4
  <1>6. CASE Decorate
    <2>1. UNCHANGED <<job, input, header_out, output>> /\ pos' = pos + 1 /\ pos >= HeaderCount
      BY <1>6, DecorateFacts DEF Decorate
    <2>2. HeadersOut' = HeadersOut
      BY <1>3, <2>1 DEF HeadersOut, HeadersRead
    <2> QED BY <1>2, <2>1, <2>2 DEF Nothing
  <1>7. CASE ~CopyHeader /\ ~ExitMain /\ ~Decorate
    <2>1. UNCHANGED <<job, input, pos, header_out, output>>
      BY <1>0, <1>1, <1>7 DEF Frames
    <2> QED BY <1>2, <2>1, CountSame DEF Nothing
  <1> QED BY <1>4, <1>5, <1>6, <1>7

LEMMA CheckedStep ==
  ASSUME TypeOK, Control, Headers, Carried, Checked, [Next]_vars, Carried'
  PROVE  Checked'
PROOF
  <1>0. Frames /\ SortPath
    BY FramesHold, Paths
  <1> SUFFICES ASSUME job.check PROVE Nothing' /\ (pc'["sort"] = "write" => held' = << >>)
    BY <1>0 DEF Checked, Frames
  <1>1. Nothing /\ ~SortWrites
    BY DEF Checked, SortWrites
  <1>2. Nothing'
    BY <1>1, NothingStays
  <1>3. ASSUME pc'["sort"] = "write" PROVE held' = << >>
    <2>1. CASE SortSorts
      BY <2>1 DEF SortSorts
    <2>2. CASE ~SortSorts
      <3>1. pc["sort"] = "write"
        BY <1>0, <1>3, <2>2 DEF SortPath
      <3>2. held = << >> /\ ~SortReads
        BY <3>1 DEF Checked, SortReads
      <3> QED BY <1>0, <1>1, <2>2, <3>2 DEF Frames
    <2> QED BY <2>1, <2>2
  <1> QED BY <1>2, <1>3

LEMMA FlowStep ==
  ASSUME TypeOK, Control, Open, Done, Headers, Carried, Flow, [Next]_vars,
         TypeOK', Headers', Carried'
  PROVE  Flow'
PROOF
  <1>0. Frames /\ SortPath /\ MainPath
    BY FramesHold, Paths
  <1> DEFINE live == code["main"] \in {"running", "ok"}
             leftover == code["sort"] = "ok" => held = << >>
  <1> SUFFICES ASSUME live'
               PROVE  /\ Converted' /\ leftover'
                      /\ ~job.check => /\ Unsorted' => Waiting'
                                       /\ Sorted' => WaitedFor' /\ Through'
    BY <1>0 DEF Flow, Frames
  <1>1. live
    BY <1>0 DEF MainPath, Frames, Control
  <1>2. /\ Converted /\ leftover
        /\ ~job.check => (Unsorted => Waiting) /\ (Sorted => WaitedFor /\ Through)
    BY <1>1 DEF Flow
  <1>3. Unsorted' => Unsorted
    BY <1>0 DEF SortPath, Unsorted
  <1>4. HeaderCount' = HeaderCount /\ UNCHANGED <<job, input>>
    BY <1>0, CountSame DEF Frames
  <1>5. /\ pos \in Nat /\ HeaderCount \in Nat /\ Len(input) \in Nat
        /\ stdout["main"] \in Seq(0 .. pos) /\ stdout["undec"] \in Seq(0 .. pos)
        /\ pipe["ds"] \in Seq(0 .. pos) /\ pipe["su"] \in Seq(0 .. pos)
        /\ held \in Seq(0 .. pos)
    BY Types, Counts
  <1> HIDE DEF live
  <1>6. Converted'
    <2> USE DEF Converted
    <2>1. CASE CopyHeader
      <3>1. pos < HeaderCount /\ pos' = pos + 1
        BY <2>1, CopyHeaderFacts
      <3> QED BY <1>4, <1>5, <3>1
    <2>2. CASE Decorate
      <3>1. pos' = pos + 1 /\ input[pos + 1].key # 0
        <4>1. code'["main"] # "error"
          BY DEF live
        <4> QED BY <2>2, <4>1, DecorateFacts
      <3>2. ASSUME NEW n \in HeaderCount + 1 .. pos + 1 PROVE input[n].key # 0
        <4>1. n = pos + 1 \/ n \in HeaderCount + 1 .. pos
          BY <1>5
        <4> QED BY <1>2, <3>1, <4>1
      <3> QED BY <1>4, <3>1, <3>2
    <2>3. CASE ~CopyHeader /\ ~Decorate
      <3>1. pos' = pos
        BY <1>0, <2>3 DEF Frames
      <3> QED BY <1>2, <1>4, <3>1
    <2> QED BY <2>1, <2>2, <2>3
  <1>7. ~job.check => (Unsorted' => Waiting')
    <2> SUFFICES ASSUME ~job.check, Unsorted' PROVE Waiting'
      OBVIOUS
    <2> USE DEF Waiting
    <2>1. Unsorted /\ Waiting
      BY <1>2, <1>3
    <2>2. CASE Decorate
      <3>1. /\ pos' = pos + 1 /\ pos >= HeaderCount /\ pos' > HeaderCount
            /\ UNCHANGED <<pipe, held>>
            /\ stdout'["main"] = Append(stdout["main"], pos + 1)
        <4>1. code'["main"] # "error"
          BY DEF live
        <4> QED BY <2>2, <4>1, DecorateFacts
      <3>2. DataRead = pos - HeaderCount /\ DataRead' = pos' - HeaderCount
        BY <1>4, <1>5, <3>1 DEF DataRead
      <3> DEFINE T == 0 .. pos + 1
                 u == <<pos + 1>>
                 g == held \o pipe["ds"]
                 b == Before
                 B == Before'
      <3>3. pos + 1 \in Nat /\ 0 .. pos \subseteq 0 .. pos + 1
        BY <1>5
      <3>4. stdout["main"] \in Seq(T) /\ held \in Seq(T) /\ pipe["ds"] \in Seq(T)
        BY <1>5, <3>3, SeqMonotonic
      <3>5. pos + 1 \in T
        BY <1>5
      <3> HIDE DEF T
      <3>6. u \in Seq(T) /\ Append(stdout["main"], pos + 1) = stdout["main"] \o u
        BY ONLY <3>4, <3>5, Longer DEF u
      <3>7. g \in Seq(T)
        BY ONLY <3>4, ConcatProperties
      <3>8. b = g \o stdout["main"] /\ B = g \o (stdout["main"] \o u)
        BY <3>1, <3>6 DEF Before
      <3> HIDE DEF u, g, b, B
      <3>9. B = b \o u
        <4>1. (g \o stdout["main"]) \o u = g \o (stdout["main"] \o u)
          <5> DEFINE m == stdout["main"]
          <5>1. m \in Seq(T)
            BY <3>4
          <5>2. u \in Seq(T)
            BY <3>6
          <5> HIDE DEF m
          <5>3. (g \o m) \o u = g \o (m \o u)
            BY ONLY <3>7, <5>1, <5>2, ConcatAssociative
          <5> QED BY <5>3 DEF m
        <4> QED BY <3>8, <4>1
      <3>10. b \in Seq(T)
        BY ONLY <3>4, <3>7, <3>8, ConcatProperties
      <3>11. B = Append(b, pos + 1)
        <4>1. Append(b, pos + 1) = b \o u
          BY ONLY <3>5, <3>10, Longer DEF u
        <4> QED BY <3>9, <4>1
      <3>12. /\ Len(B) = Len(b) + 1 /\ B[Len(b) + 1] = pos + 1
             /\ \A k \in 1 .. Len(b) : B[k] = b[k]
        BY <3>5, <3>10, <3>11, Longer
      <3>13. Len(b) = pos - HeaderCount /\ \A i \in 1 .. Len(b) : b[i] = HeaderCount + i
        BY <2>1, <3>2 DEF b
      <3>14. Len(B) = DataRead'
        BY <1>5, <3>1, <3>2, <3>12, <3>13
      <3>15. ASSUME NEW i \in 1 .. Len(B) PROVE B[i] = HeaderCount + i
        <4>1. i = Len(b) + 1 \/ i \in 1 .. Len(b)
          BY <1>5, <3>1, <3>12, <3>13
        <4> QED BY <1>5, <3>12, <3>13, <4>1
      <3> QED BY <1>4, <3>14, <3>15 DEF B
    <2>3. CASE ~Decorate
      <3>1. DataRead' = DataRead
        <4>1. CASE CopyHeader
          <5>1. pos < HeaderCount /\ pos' = pos + 1
            BY <4>1, CopyHeaderFacts
          <5>2. DataRead = 0
            BY <5>1 DEF DataRead
          <5>3. DataRead' = IF pos' < HeaderCount THEN 0 ELSE pos' - HeaderCount
            BY <1>4 DEF DataRead
          <5> QED BY <1>5, <5>1, <5>2, <5>3
        <4>2. CASE ~CopyHeader
          <5>1. pos' = pos
            BY <1>0, <2>3, <4>2 DEF Frames
          <5> QED BY <1>4, <5>1 DEF DataRead
        <4> QED BY <4>1, <4>2
      <3>2. Before' = Before
        <4>1. ~SortWrites
          BY <2>1 DEF SortWrites, Unsorted
        <4>2. ~SortSorts
          <5>1. SortSorts => pc'["sort"] = "write"
            BY TypeParts, Names, GoToFacts DEF SortSorts
          <5> QED BY <5>1 DEF Unsorted
        <4>3. CASE WriteToSort /\ IsOpen("ds_r")
          <5>1. /\ stdout["main"] # << >> /\ held' = held
                /\ pipe'["ds"] = Append(pipe["ds"], Head(stdout["main"]))
                /\ stdout'["main"] = Tail(stdout["main"])
            BY <4>3 DEF WriteToSort, Flushing, TypeOK, Pipe
          <5>2. (held \o Append(pipe["ds"], Head(stdout["main"]))) \o Tail(stdout["main"])
                  = (held \o pipe["ds"]) \o stdout["main"]
            <6> DEFINE T == 0 .. pos
                   p == pipe["ds"]
                   m == stdout["main"]
            <6>1. held \in Seq(T) /\ p \in Seq(T) /\ m \in Seq(T) /\ m # << >>
              BY <1>5, <5>1
            <6> HIDE DEF T, p, m
            <6>2. Three(held, Append(p, Head(m)), Tail(m)) = Three(held, p, m)
              BY ONLY <6>1, MoveInto
            <6> QED BY <6>2 DEF p, m, Three
          <5> QED BY <5>1, <5>2 DEF Before
        <4>4. CASE SortReads
          <5>1. /\ pipe["ds"] # << >> /\ held' = Append(held, Head(pipe["ds"]))
                /\ pipe'["ds"] = Tail(pipe["ds"]) /\ stdout'["main"] = stdout["main"]
            BY <4>4 DEF SortReads, TypeOK, Pipe
          <5>2. Append(held, Head(pipe["ds"])) \o Tail(pipe["ds"]) = held \o pipe["ds"]
            BY ONLY <1>5, <5>1, MoveOne
          <5> QED BY <5>1, <5>2 DEF Before
        <4>5. CASE ~(WriteToSort /\ IsOpen("ds_r")) /\ ~SortReads
          <5>1. /\ held' = held /\ pipe'["ds"] = pipe["ds"]
                /\ stdout'["main"] = stdout["main"]
            BY <1>0, <2>3, <4>1, <4>2, <4>5 DEF Frames
          <5> QED BY <5>1 DEF Before
        <4> QED BY <4>3, <4>4, <4>5
      <3> QED BY <1>4, <2>1, <3>1, <3>2
    <2> QED BY <2>2, <2>3
  <1>8. ~job.check => (Sorted' => WaitedFor' /\ Through')
    <2> SUFFICES ASSUME ~job.check PROVE Sorted' => WaitedFor' /\ Through'
      OBVIOUS
    <2>1. CASE SortSorts
      <3>1. /\ pc["main"] \in {"wait undec", "wait sort"}
            /\ (Written \o stdout["undec"]) \o (pipe["su"] \o held') = held'
            /\ held' \in Seq(0 .. pos)
            /\ Range(held') \subseteq HeaderCount + 1 .. Len(input)
            /\ AllIn(job.unique, input, HeaderCount + 1 .. Len(input), Range(held'))
            /\ IsInjective(held')
            /\ Ordered(job.unique, input, held')
        BY <1>1, <2>1, SortedAll DEF live
      <3>2. UNCHANGED <<job, input, pos, stdout, header_out, pipe, output>>
            /\ pc'["main"] = pc["main"]
        <4>1. pc'["main"] = pc["main"]
          BY <2>1, TypeParts, Names, GoToFacts DEF SortSorts
        <4> QED BY <2>1, <4>1 DEF SortSorts
      <3>3. HeadersOut' = HeadersOut
        BY <3>2, CountSame
      <3>4. Written' = Written
        BY <3>2, <3>3 DEF Written
      <3>5. After' = held'
        BY <3>1, <3>2, <3>4 DEF After
      <3> QED BY <1>4, <3>1, <3>2, <3>5 DEF WaitedFor, Through
    <2>2. CASE ~SortSorts
      <3> SUFFICES ASSUME Sorted' PROVE WaitedFor' /\ Through'
        OBVIOUS
      <3>1. Sorted
        <4>1. CASE Nothing /\ ~Nothing'
          <5>1. SortWrites
            BY <4>1, NothingStays
          <5> QED BY <5>1 DEF SortWrites, Sorted
        <4>2. CASE ~Nothing
          BY <4>2 DEF Sorted
        <4>3. CASE Nothing'
          BY <1>0, <2>2, <4>3 DEF SortPath, Sorted
        <4> QED BY <4>1, <4>2, <4>3
      <3>2. WaitedFor /\ Through
        BY <1>2, <3>1
      <3>3. WaitedFor'
        <4>1. code'["main"] \in {"running", "ok"}
          BY DEF live
        <4> QED BY <1>0, <3>2, <4>1 DEF MainPath, WaitedFor
      <3>4. ~CopyHeader /\ ~Decorate /\ ~SortReads
        <4>1. pc["sort"] # "copy"
          BY <3>1 DEF Sorted, Control, Carried, Nothing, Unsorted
        <4> QED BY <3>2, <4>1 DEF CopyHeader, Decorate, Copying, SortReads, WaitedFor
      <3>5. After' = After
        <4>0. Written \in Seq(0 .. pos)
          BY WrittenType
        <4>1. CASE WriteToUser
          <5>1. /\ Written' = Written \o stdout["undec"] /\ stdout'["undec"] = << >>
                /\ UNCHANGED <<pipe, held>>
            BY <4>1, WriteToUserWritten, WriteToUserFacts
          <5> DEFINE wu == Written \o stdout["undec"]
          <5>2. wu \in Seq(0 .. pos)
            BY <1>5, <4>0, ConcatProperties
          <5> HIDE DEF wu
          <5>3. wu \o << >> = wu
            BY <5>2, ConcatEmptySeq
          <5>4. After' = (Written' \o stdout'["undec"]) \o (pipe["su"] \o held)
            BY <5>1 DEF After
          <5>5. After = wu \o (pipe["su"] \o held)
            BY DEF After, wu
          <5>6. Written' = wu
            BY <5>1 DEF wu
          <5> QED BY <5>1, <5>3, <5>4, <5>5, <5>6
        <4>2. CASE ~WriteToUser
          <5>1. Written' = Written
            <6>1. CASE ExitMain
              <7>1. /\ header_out' = << >> /\ HeadersOut' = HeadersRead
                    /\ \/ output' = output /\ HeadersOut' = HeadersOut
                       \/ pos <= HeaderCount /\ Len(output') = HeadersRead
                BY <6>1, ExitMainFacts
              <7>2. CASE output' = output /\ HeadersOut' = HeadersOut
                BY <7>2 DEF Written
              <7>3. CASE pos <= HeaderCount /\ Len(output') = HeadersRead
                <8>1. Len(output) = HeadersOut
                  BY <7>3 DEF Carried
                <8>2. HeadersRead \in Nat /\ HeadersOut \in Int
                  BY Counts
                <8>3. Len(output') - HeadersOut' = 0 /\ Len(output) - HeadersOut = 0
                  BY <7>1, <7>3, <8>1, <8>2
                <8>4. /\ Written = [i \in 1 .. 0 |-> output[HeadersOut + i].line]
                      /\ Written' = [i \in 1 .. 0 |-> output'[HeadersOut' + i].line]
                  BY <8>3 DEF Written
                <8> QED BY <8>4
              <7> QED BY <7>1, <7>2, <7>3
            <6>2. CASE ~ExitMain
              <7>1. UNCHANGED <<job, input, pos, header_out, output>>
                BY <1>0, <3>4, <4>2, <6>2 DEF Frames
              <7> QED BY <7>1, CountSame DEF Written
            <6> QED BY <6>1, <6>2
          <5>2. CASE SortWrites /\ IsOpen("su_r")
            <6>1. /\ held # << >> /\ pipe'["su"] = Append(pipe["su"], Head(held))
                  /\ held' = Tail(held) /\ UNCHANGED stdout
              BY <5>2 DEF SortWrites, TypeOK, Pipe
            <6>2. Append(pipe["su"], Head(held)) \o Tail(held) = pipe["su"] \o held
              BY ONLY <1>5, <6>1, MoveOne
            <6> QED BY <5>1, <6>1, <6>2 DEF After
          <5>3. CASE Undecorate
            <6>1. /\ pipe["su"] # << >>
                  /\ stdout'["undec"] = Append(stdout["undec"], Head(pipe["su"]))
                  /\ pipe'["su"] = Tail(pipe["su"]) /\ held' = held
              BY <5>3 DEF Undecorate, TypeOK, Pipe
            <6>2. (Written \o Append(stdout["undec"], Head(pipe["su"]))) \o (Tail(pipe["su"]) \o held)
                    = (Written \o stdout["undec"]) \o (pipe["su"] \o held)
              <7> DEFINE T == 0 .. pos
                     w == Written
                     u == stdout["undec"]
                     p == pipe["su"]
              <7>1. /\ w \in Seq(T) /\ u \in Seq(T) /\ p \in Seq(T) /\ held \in Seq(T)
                    /\ p # << >>
                BY <1>5, <4>0, <6>1
              <7> HIDE DEF T, w, u, p
              <7>2. Four(w, Append(u, Head(p)), Tail(p), held) = Four(w, u, p, held)
                BY ONLY <7>1, MoveBetween
              <7> QED BY <7>2 DEF w, u, p, Four
            <6> QED BY <5>1, <6>1, <6>2 DEF After
          <5>4. CASE ~(SortWrites /\ IsOpen("su_r")) /\ ~Undecorate
            <6>1. /\ held' = held /\ pipe'["su"] = pipe["su"]
                  /\ stdout'["undec"] = stdout["undec"]
              BY <1>0, <2>2, <3>4, <4>2, <5>4 DEF Frames
            <6> QED BY <5>1, <6>1 DEF After
          <5> QED BY <5>2, <5>3, <5>4
        <4> QED BY <4>1, <4>2
      <3> QED BY <1>4, <3>2, <3>3, <3>5 DEF Through
    <2> QED BY <2>1, <2>2
  <1>9. leftover'
    <2> SUFFICES ASSUME code'["sort"] = "ok" PROVE held' = << >>
      OBVIOUS
    <2>1. code["sort"] = "ok" \/ SortExits
      BY <1>0 DEF SortPath
    <2>2. held = << >> /\ pc["sort"] # "copy"
      BY <1>2, <2>1 DEF SortExits, Control
    <2>3. ~SortReads /\ ~SortSorts /\ ~SortWrites
      BY <2>2 DEF SortReads, SortSorts, SortWrites
    <2> QED BY <1>0, <2>2, <2>3 DEF Frames
  <1> QED BY <1>6, <1>7, <1>8, <1>9

-----------------------------------------------------------------------------
(* The beginning, and every step.                                          *)

LEMMA InitIInv == Init => IInv
PROOF
  <1> SUFFICES ASSUME Init PROVE IInv
    OBVIOUS
  <1>1. job \in JobType /\ input \in Seq(Line)
    BY DecoratePipeAssumption DEF Init
  <1>2. job.header \in Nat /\ Len(input) \in Nat
    BY <1>1 DEF JobType
  <1>3. /\ pc["main"] = "fork-1" /\ pc["sort"] = "none" /\ pc["undec"] = "none"
        /\ code["main"] = "running" /\ code["sort"] = "running"
        /\ stdout["main"] = << >> /\ stdout["undec"] = << >>
        /\ pipe["ds"] = << >> /\ pipe["su"] = << >>
        /\ fd["main"] = WithPipes
        /\ pos = 0 /\ header_out = << >> /\ held = << >> /\ output = << >>
        /\ skip_header_lines = job.header
    BY DEF Init, Proc, Pipe
  <1>4. /\ Len(<< >>) = 0 /\ \A S : << >> \in Seq(S)
    BY EmptySeq
  <1>5. TypeOK
    <2>1. ControlType
      <3>1. pc \in [Proc -> Places] /\ code \in [Proc -> Codes]
        BY DEF Init, Places, Codes
      <3>2. WithPipes \in [Fd -> End] /\ NoFds \in [Fd -> End]
        BY DEF WithPipes, NoFds, Fd, End
      <3> HIDE DEF WithPipes, NoFds
      <3>3. fd \in [Proc -> [Fd -> End]]
        BY <3>2 DEF Init
      <3> QED BY <3>1, <3>3 DEF ControlType
    <2>2. DataType
      <3>1. /\ stdout \in [{"main", "undec"} -> Seq(0 .. pos)]
            /\ full \in [{"main", "undec"} -> BOOLEAN]
            /\ pipe \in [Pipe -> Seq(0 .. pos)]
        BY <1>4 DEF Init
      <3>2. \A i \in Pipe : Len(pipe[i]) <= PipeSize
        BY <1>4, DecoratePipeAssumption DEF Init
      <3>3. pos \in 0 .. Len(input) /\ skip_header_lines \in 0 .. job.header
        BY <1>2, <1>3
      <3> QED BY <1>3, <1>4, <3>1, <3>2, <3>3 DEF Init, DataType
    <2> QED BY <2>1, <2>2, TypeParts
  <1>6. Control /\ Open /\ Done
    BY <1>3 DEF Control, Open, Done, MainPlaces, SortPlaces, UndecPlaces
  <1>7. /\ HeaderCount \in Nat /\ HeadersRead = 0 /\ HeadersOut = 0
    <2>1. HeaderCount \in Nat
      BY <1>2 DEF HeaderCount
    <2>2. HeadersRead = 0
      BY <1>3, <2>1 DEF HeadersRead
    <2>3. HeadersOut = HeadersRead - Len(header_out)
      BY Zenon DEF HeadersOut
    <2>4. Len(header_out) = 0
      BY <1>3
    <2> QED BY <2>1, <2>2, <2>3, <2>4
  <1>8. Headers
    BY <1>2, <1>3, <1>4, <1>7 DEF Headers
  <1>9. Carried
    BY <1>3, <1>4, <1>7 DEF Carried, NoHeader
  <1>10. Flow /\ Checked
    <2>1. Before = << >>
      <3>1. << >> \o << >> = << >>
        BY <1>4, ConcatEmptySeq
      <3> QED BY <1>3, <3>1 DEF Before
    <2>2. DataRead = 0
      BY <1>3, <1>7 DEF DataRead
    <2>3. Waiting /\ Nothing /\ Converted
      BY <1>3, <1>4, <1>7, <2>1, <2>2 DEF Waiting, Nothing, Converted
    <2>4. ~Sorted
      BY <1>3, <2>3 DEF Sorted
    <2> QED BY <1>3, <2>3, <2>4 DEF Flow, Checked
  <1> QED BY <1>5, <1>6, <1>8, <1>9, <1>10 DEF IInv

LEMMA StepIInv == IInv /\ [Next]_vars => IInv'
PROOF
  <1> SUFFICES ASSUME IInv, [Next]_vars PROVE IInv'
    OBVIOUS
  <1>1. TypeOK /\ Control /\ Open /\ Done /\ Headers /\ Carried /\ Flow /\ Checked
    BY DEF IInv
  <1>2. TypeOK'
    BY <1>1, TypeStep
  <1>3. Control' /\ Open'
    BY <1>1, ControlStep, OpenStep
  <1>4. Done'
    BY <1>1, DoneStep
  <1>5. Headers'
    BY <1>1, HeadersStep
  <1>6. Carried'
    BY <1>1, CarriedStep
  <1>7. Flow'
    BY <1>1, <1>2, <1>5, <1>6, FlowStep
  <1>8. Checked'
    BY <1>1, <1>6, CheckedStep
  <1> QED BY <1>2, <1>3, <1>4, <1>5, <1>6, <1>7, <1>8 DEF IInv

LEMMA Invariant == Spec => []IInv
BY InitIInv, StepIInv, PTL DEF Spec

(* The types of the three processes and of what they pass on are kept,     *)
(* and neither pipe ever holds more than it can, for all inputs and any    *)
(* sizes: every step of main, sort and undecorate in decorate.c.           *)
THEOREM TypeCorrect == Spec => []TypeOK
BY Invariant, PTL DEF IInv

LEMMA HeadersFirstHolds == IInv => HeadersFirst
PROOF
  <1> SUFFICES ASSUME IInv, NEW i \in DOMAIN output,
                      i <= HeaderCount \/ output[i].line \in 1 .. HeaderCount
               PROVE  output[i].line = i
    BY DEF HeadersFirst
  <1>1. TypeOK /\ Headers /\ Carried
    BY DEF IInv
  <1>2. /\ HeaderCount \in Nat /\ HeadersRead \in Nat /\ Len(header_out) \in Nat
        /\ HeadersOut = HeadersRead - Len(header_out) /\ Len(output) \in Nat
        /\ pos \in Nat /\ pos <= Len(input) /\ Len(input) \in Nat /\ job.header \in Nat
    BY <1>1, Counts
  <1>3. i \in 1 .. Len(output)
    BY <1>1, Types
  <1>4. CASE i <= HeadersOut
    BY <1>1, <1>3, <1>4 DEF Headers
  <1>5. CASE i > HeadersOut
    <2>1. output[i].line = 0 \/ output[i].line > HeaderCount
      BY <1>1, <1>2, <1>3, <1>5 DEF Headers
    <2>2. i <= HeaderCount
      BY <1>2, <2>1
    <2>3. pos > HeaderCount
      BY <1>1, <1>2, <1>3, <1>5 DEF Carried
    <2>4. HeadersRead = HeaderCount
      BY <1>2, <2>3 DEF HeadersRead
    <2>5. header_out # << >>
      <3>1. Len(<< >>) = 0
        OBVIOUS
      <3> QED BY <1>2, <1>5, <2>2, <2>4, <3>1
    <2>6. pos < job.header
      BY <1>1, <2>5 DEF Headers
    <2>7. pos <= HeaderCount
      BY <1>2, <2>6 DEF HeaderCount
    <2> QED BY <1>2, <2>3, <2>7
  <1> QED BY <1>2, <1>3, <1>4, <1>5

(* The header lines come out first and in their order, although the main   *)
(* process and undecorate write to the same output, each from a buffer of  *)
(* its own: decorate_file flushes after the last header line, and no line  *)
(* behind the header passes sort before that.                              *)
THEOREM HeaderIsFirst == Spec => []HeadersFirst
BY Invariant, HeadersFirstHolds, PTL

LEMMA SuccessHolds == IInv => SuccessMeansAll
PROOF
  <1> DEFINE lines == HeaderCount + 1 .. Len(input)
             data == [i \in 1 .. Len(output) - HeaderCount |-> output[HeaderCount + i].line]
             missing(S) == {n \in lines \ S : ~\E m \in S : StandsIn(m, n)}
  <1> SUFFICES ASSUME IInv, pc["main"] = "gone", code["main"] = "ok"
               PROVE  /\ Len(output) >= HeaderCount
                      /\ \A n \in lines : input[n].key # 0
                      /\ IsInjective(data) /\ Range(data) \subseteq lines /\ InOrder(data)
                      /\ \A m \in Range(data), n \in missing(Range(data)) :
                           KeyOf(m) <= KeyOf(n)
                      /\ code["sort"] = "ok" /\ ~job.check => missing(Range(data)) = {}
    BY DEF SuccessMeansAll
  <1>1. TypeOK /\ Control /\ Done /\ Headers /\ Flow /\ Checked
    BY DEF IInv
  <1>2. /\ pc["undec"] = "gone" /\ pos = Len(input) /\ header_out = << >>
        /\ pipe["su"] = << >> /\ stdout["undec"] = << >>
    BY <1>1 DEF Control, Done
  <1>3. /\ HeaderCount \in Nat /\ HeaderCount <= Len(input)
        /\ Len(input) \in Nat /\ Len(output) \in Nat
        /\ HeadersOut = HeaderCount
    <2>1. /\ HeaderCount \in Nat /\ HeaderCount <= Len(input) /\ Len(input) \in Nat
          /\ Len(output) \in Nat /\ HeadersOut = HeadersRead - Len(header_out)
      BY <1>1, Counts
    <2>2. HeadersRead = HeaderCount /\ Len(<< >>) = 0
      BY <1>2, <2>1 DEF HeadersRead
    <2> QED BY <1>2, <2>1, <2>2
  <1>4. \A n \in lines : input[n].key # 0
    BY <1>1, <1>2 DEF Flow, Converted
  <1>5. data = Written
    BY <1>3 DEF Written
  <1>6. /\ Written \in Seq(0 .. pos) /\ Len(Written) = Len(output) - HeaderCount
        /\ HeaderCount <= Len(output)
    BY <1>1, <1>3, WrittenType
  <1> DEFINE w == Written
  <1> HIDE DEF data, w
  <1>7. /\ w = data /\ w \in Seq(0 .. pos) /\ DOMAIN w = 1 .. Len(w) /\ Len(w) \in Nat
    BY <1>5, <1>6 DEF w
  <1>8. CASE Nothing /\ ~(code["sort"] = "ok" /\ ~job.check)
    <2>1. Len(w) = 0
      BY <1>3, <1>6, <1>8 DEF Nothing, w
    <2>2. DOMAIN w = {} /\ Range(w) = {}
      BY <1>7, <2>1 DEF Range
    <2>3. IsInjective(w) /\ InOrder(w)
      BY <2>2 DEF IsInjective, InOrder
    <2>4. /\ Range(data) = {} /\ IsInjective(data) /\ InOrder(data)
      BY <1>7, <2>2, <2>3
    <2>5. \A m \in Range(data), n \in missing(Range(data)) : KeyOf(m) <= KeyOf(n)
      BY <2>4
    <2>6. Range(data) \subseteq lines
      BY <2>4
    <2> HIDE DEF missing, lines
    <2> QED BY <1>4, <1>6, <1>8, <2>4, <2>5, <2>6
  <1>9. CASE Sorted /\ ~job.check
    <2> DEFINE h == held
               a == After
    <2>1. /\ Range(a) \subseteq lines /\ AllIn(job.unique, input, lines, Range(a))
          /\ IsInjective(a) /\ Ordered(job.unique, input, a)
          /\ code["sort"] = "ok" => h = << >>
      BY <1>1, <1>9 DEF Flow, Through
    <2>2. h \in Seq(0 .. pos)
      BY <1>1, Types
    <2>3. a = w \o h
      <3>1. w \o << >> = w /\ << >> \o h = h
        BY <1>7, <2>2, ConcatEmptySeq
      <3> QED BY <1>2, <3>1 DEF After, w
    <2> HIDE DEF h, a, lines
    <2>4. /\ a \in Seq(0 .. pos) /\ Len(a) = Len(w) + Len(h) /\ Len(h) \in Nat
          /\ \A i \in 1 .. Len(w) : a[i] = w[i]
      <3>1. /\ a \in Seq(0 .. pos) /\ Len(a) = Len(w) + Len(h)
            /\ \A i \in 1 .. Len(w) + Len(h) : a[i] = IF i <= Len(w) THEN w[i] ELSE h[i - Len(w)]
        BY ONLY <1>7, <2>2, <2>3, ConcatProperties
      <3>2. Len(h) \in Nat
        BY <2>2
      <3> QED BY <1>7, <3>1, <3>2
    <2>5. /\ DOMAIN a = 1 .. Len(a) /\ Len(w) <= Len(a) /\ Len(a) \in Nat
          /\ \A i \in DOMAIN w : i \in DOMAIN a
      BY <1>7, <2>4
    <2>7. IsInjective(w)
      BY <1>7, <2>1, <2>4, <2>5 DEF IsInjective
    <2>8. Range(w) \subseteq lines
      <3> SUFFICES ASSUME NEW i \in DOMAIN w PROVE w[i] \in Range(a)
        BY <2>1 DEF Range
      <3> QED BY <1>7, <2>4, <2>5 DEF Range
    <2>9. InOrder(w)
      <3>1. Ordered(job.unique, input, w)
        BY <1>7, <2>1, <2>4, <2>5 DEF Ordered
      <3> QED BY <1>7, <3>1, OrderedIs
    <2>10. ASSUME NEW m \in Range(w), NEW n \in missing(Range(w)) PROVE KeyOf(m) <= KeyOf(n)
      <3>1. PICK i \in DOMAIN w : w[i] = m
        BY DEF Range
      <3>0. /\ n \in lines /\ n \notin Range(w)
            /\ \A j \in Range(w) : ~StandsIn(j, n)
        OBVIOUS
      <3>2. PICK k \in DOMAIN a : KeyOf(a[k]) = KeyOf(n) /\ a[k] \notin Range(w)
        <4>1. CASE n \in Range(a)
          BY <3>0, <4>1 DEF Range
        <4>2. CASE n \notin Range(a)
          <5>1. PICK j \in Range(a) : StandsIn(j, n)
            BY <2>1, <3>0, <4>2 DEF AllIn, StandsIn, KeyOf, KeyIn
          <5>2. j \notin Range(w)
            BY <3>0, <5>1
          <5> QED BY <5>1, <5>2 DEF Range, StandsIn
        <4> QED BY <4>1, <4>2
      <3>3. i \in 1 .. Len(a) /\ k \in 1 .. Len(a) /\ a[i] = m
        BY <1>7, <2>4, <2>5, <3>1
      <3>4. ~(k <= Len(w))
        <4> SUFFICES ASSUME k <= Len(w) PROVE FALSE
          OBVIOUS
        <4>1. k \in DOMAIN w /\ w[k] = a[k]
          BY <1>7, <2>4, <2>5, <3>3
        <4> QED BY <3>2, <4>1 DEF Range
      <3>5. i < k
        BY <1>7, <2>5, <3>1, <3>3, <3>4
      <3>6. KeyIn(input, a[i]) <= KeyIn(input, a[k])
        BY <2>1, <3>3, <3>5 DEF Ordered
      <3> QED BY <3>2, <3>3, <3>6 DEF KeyOf, KeyIn
    <2>11. code["sort"] = "ok" => missing(Range(w)) = {}
      <3> SUFFICES ASSUME code["sort"] = "ok" PROVE missing(Range(w)) = {}
        OBVIOUS
      <3>1. a = w
        <4>1. w \o << >> = w
          BY <1>7, ConcatEmptySeq
        <4> QED BY <2>1, <2>3, <4>1
      <3> QED BY <2>1, <3>1 DEF AllIn, StandsIn, KeyOf, KeyIn
    <2> QED BY <1>4, <1>6, <1>3, <1>7, <1>9, <2>7, <2>8, <2>9, <2>10, <2>11 DEF lines
  <1>10. \/ Nothing /\ ~(code["sort"] = "ok" /\ ~job.check)
         \/ Sorted /\ ~job.check
    BY <1>1 DEF Checked, Sorted
  <1> QED BY <1>8, <1>9, <1>10

(* When main returns 0, every key was converted and what is behind the     *)
(* header lines is made of the lines of the input, each once, in the order *)
(* of the keys and none behind a line that is missing; with sort done, and *)
(* without --check, none is missing but those for which -u kept another:   *)
(* whichever process is ahead, wherever sort broke off and however small   *)
(* the pipes are.                                                          *)
THEOREM SuccessIsComplete == Spec => []SuccessMeansAll
BY Invariant, SuccessHolds, PTL
=============================================================================
