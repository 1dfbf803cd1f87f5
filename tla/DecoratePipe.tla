---------------------------- MODULE DecoratePipe ----------------------------
(***************************************************************************)
(* decorate, when it runs sort itself (main of decorate.c): three          *)
(* processes in a row.  The main process adds the converted keys to the    *)
(* lines and writes them to the pipe "ds"; sort, which a child executes,   *)
(* writes to the pipe "su"; the other child removes the keys again.  Each  *)
(* end of a pipe counts as open until every descriptor of it, in every     *)
(* process, is closed.                                                     *)
(*                                                                         *)
(* Lines are named by their position in the input; 0 stands for what is    *)
(* left of a line whose key could not be converted: the separators.  sort  *)
(* is external and modelled from how it is called.  A write without a      *)
(* reader kills its process (SIGPIPE).                                     *)
(***************************************************************************)
EXTENDS Integers, Sequences, FiniteSets, SequencesExt

CONSTANTS Body,       \* what a line holds after its leading blanks
          Empty,      \* nothing: an empty line, or one of blanks
          Jobs,       \* the command lines
          Inputs,     \* the inputs: sequences of lines
          PipeSize    \* how many lines a pipe holds

(* key is the converted key, 0 when the conversion refuses it.             *)
Text == [blanks : Nat, body : Body]
Line == [key : Nat, text : Text]

(* -H or --header, --check and -u                                          *)
JobType == [header : Nat, check : BOOLEAN, unique : BOOLEAN]

ASSUME DecoratePipeAssumption ==
  /\ Empty \in Body
  /\ Jobs \subseteq JobType
  /\ Inputs \subseteq Seq(Line)
  /\ PipeSize \in Nat \ {0}

Proc == {"main", "sort", "undec"}
Pipe == {"ds", "su"}

VARIABLES
  job, input,
  pos,                 \* lines that the main process has read
  skip_header_lines,
  pc,                  \* where each process is
  code,                \* how it ended
  fd,                  \* its file descriptors
  stdout,              \* the lines in its output buffer
  full,                \* whether the buffer is being written out
  header_out,          \* the lines in the buffer of the saved standard output
  pipe,
  held,                \* the lines that sort holds
  output               \* what came out

vars == <<job, input, pos, skip_header_lines, pc, code, fd, stdout, full,
          header_out, pipe, held, output>>

-----------------------------------------------------------------------------
(* File descriptors.                                                       *)

Fd  == {"in", "out", "ds_r", "ds_w", "su_r", "su_w"}
End == {"user", "ds_r", "ds_w", "su_r", "su_w", "closed"}

WriteEnd == [ds |-> "ds_w", su |-> "su_w"]
ReadEnd  == [ds |-> "ds_r", su |-> "su_r"]

IsOpen(end) == \E p \in Proc, n \in Fd : fd[p][n] = end

NoFds == [n \in Fd |-> "closed"]

(* pipe (dec_sort_fds), pipe (sort_undec_fds)                              *)
WithPipes == [n \in Fd |-> IF n \in {"in", "out"} THEN "user" ELSE n]

ClosingKept ==                   \* mutant: undecorate keeps its write end
  [main |-> {"su_r", "su_w", "ds_r"}, sort |-> {"ds_w", "su_r"},
   undec |-> {"ds_r", "ds_w"}]

(* What each process closes first.                                         *)
Closing == [main  |-> {"su_r", "su_w", "ds_r"},
            sort  |-> {"ds_w", "su_r"},
            undec |-> {"ds_r", "ds_w", "su_w"}]

(* What it then redirects with dup2.                                       *)
Redirect == [main  |-> [out |-> "ds_w"],
             sort  |-> [in |-> "ds_r", out |-> "su_w"],
             undec |-> [in |-> "su_r"]]

AfterSetUp(p) ==
  [n \in Fd |-> IF n \in Closing[p] THEN "closed"
                ELSE IF n \in DOMAIN Redirect[p] THEN Redirect[p][n]
                ELSE fd[p][n]]

Gone(p) == pc[p] \in {"none", "gone"}

(* A process ends, and its descriptors are closed.                         *)
Ends(p, c) ==
  /\ pc' = [pc EXCEPT ![p] = "gone"]
  /\ code' = [code EXCEPT ![p] = c]
  /\ fd' = [fd EXCEPT ![p] = NoFds]

(* exit: the buffers are still to be written.                              *)
Exit(p, c) ==
  /\ pc' = [pc EXCEPT ![p] = "exit"]
  /\ code' = [code EXCEPT ![p] = c]
  /\ UNCHANGED fd

GoTo(p, where) ==
  /\ pc' = [pc EXCEPT ![p] = where]
  /\ UNCHANGED <<code, fd>>

-----------------------------------------------------------------------------
Init ==
  /\ job \in Jobs
  /\ input \in Inputs
  /\ pos = 0
  /\ skip_header_lines = job.header
  /\ pc = [p \in Proc |-> IF p = "main" THEN "fork-1" ELSE "none"]
  /\ code = [p \in Proc |-> "running"]
  /\ fd = [p \in Proc |-> IF p = "main" THEN WithPipes ELSE NoFds]
  /\ stdout = [p \in {"main", "undec"} |-> << >>]
  /\ full = [p \in {"main", "undec"} |-> FALSE]
  /\ header_out = << >>
  /\ pipe = [i \in Pipe |-> << >>]
  /\ held = << >>
  /\ output = << >>

(* fork: the child starts with the descriptors of its parent.              *)
Fork(at, child, next) ==
  /\ pc["main"] = at
  /\ \/ /\ pc' = [pc EXCEPT !["main"] = next, ![child] = "set up"]
        /\ fd' = [fd EXCEPT ![child] = fd["main"]]
        /\ UNCHANGED code
     \/ Ends("main", "error")
  /\ UNCHANGED <<job, input, pos, skip_header_lines, stdout, full, header_out,
                 pipe, held, output>>

ForkUndecorate == Fork("fork-1", "undec", "fork-2")
ForkSort       == Fork("fork-2", "sort", "set up")

(* close and dup2, and execvp in the sort process, which may fail.         *)
SetUp(p) ==
  /\ pc[p] = "set up"
  /\ \/ /\ pc' = [pc EXCEPT ![p] = "copy"]
        /\ fd' = [fd EXCEPT ![p] = AfterSetUp(p)]
        /\ UNCHANGED code
     \/ p = "sort" /\ Ends(p, "error")
  /\ UNCHANGED <<job, input, pos, skip_header_lines, stdout, full, header_out,
                 pipe, held, output>>

-----------------------------------------------------------------------------
(* The main process: decorate_file.  A line fills the output buffer or it  *)
(* does not.                                                               *)

Shown(n, text) == [line |-> n, text |-> text]

AsIs(ns) == [i \in DOMAIN ns |-> Shown(ns[i], input[ns[i]].text)]

Copying(p) == pc[p] = "copy" /\ ~full[p]

FlushesIfFull(left, is_full) == is_full  \* mutant: no flush after the last one

(* The last header line is flushed.                                        *)
Flushes(left, is_full) == left = 0 \/ is_full

CopyHeader ==
  /\ Copying("main") /\ pos < Len(input) /\ skip_header_lines > 0
  /\ pos' = pos + 1
  /\ skip_header_lines' = skip_header_lines - 1
  /\ \E is_full \in BOOLEAN :
       LET lines == Append(header_out, pos + 1)
       IN  IF Flushes(skip_header_lines', is_full)
           THEN header_out' = << >> /\ output' = output \o AsIs(lines)
           ELSE header_out' = lines /\ UNCHANGED output
  /\ UNCHANGED <<job, input, pc, code, fd, stdout, full, pipe, held>>

(* decorate_fields prints a separator also when a conversion fails.        *)
Decorate ==
  /\ Copying("main") /\ pos < Len(input) /\ skip_header_lines = 0
  /\ pos' = pos + 1
  /\ IF input[pos + 1].key # 0
     THEN /\ stdout' = [stdout EXCEPT !["main"] = Append(@, pos + 1)]
          /\ \E is_full \in BOOLEAN : full' = [full EXCEPT !["main"] = is_full]
          /\ UNCHANGED <<pc, code, fd>>
     ELSE /\ stdout' = [stdout EXCEPT !["main"] = Append(@, 0)]
          /\ Exit("main", "error")
          /\ UNCHANGED full
  /\ UNCHANGED <<job, input, skip_header_lines, header_out, pipe, held, output>>

EndOfInput ==
  /\ Copying("main") /\ pos = Len(input)
  /\ GoTo("main", "fclose")
  /\ UNCHANGED <<job, input, pos, skip_header_lines, stdout, full, header_out,
                 pipe, held, output>>

Flushing(p) == stdout[p] # << >> /\ (full[p] \/ pc[p] \in {"fclose", "exit"})

WriteToSort ==
  /\ Flushing("main")
  /\ IF IsOpen("ds_r")
     THEN /\ Len(pipe["ds"]) < PipeSize
          /\ pipe' = [pipe EXCEPT !["ds"] = Append(@, Head(stdout["main"]))]
          /\ stdout' = [stdout EXCEPT !["main"] = Tail(@)]
          /\ full' = [full EXCEPT !["main"] = @ /\ Len(stdout["main"]) > 1]
          /\ UNCHANGED <<pc, code, fd>>
     ELSE Ends("main", "signal") /\ UNCHANGED <<pipe, stdout, full>>
  /\ UNCHANGED <<job, input, pos, skip_header_lines, header_out, held, output>>

(* fclose (stdout), then close (dec_sort_fds[1])                           *)
CloseStdout ==
  /\ pc["main"] = "fclose" /\ stdout["main"] = << >>
  /\ pc' = [pc EXCEPT !["main"] = "close"]
  /\ fd' = [fd EXCEPT !["main"]["out"] = "closed"]
  /\ UNCHANGED <<job, input, pos, skip_header_lines, code, stdout, full,
                 header_out, pipe, held, output>>

CloseWriteEnd ==
  /\ pc["main"] = "close"
  /\ pc' = [pc EXCEPT !["main"] = "wait undec"]
  /\ fd' = [fd EXCEPT !["main"]["ds_w"] = "closed"]
  /\ UNCHANGED <<job, input, pos, skip_header_lines, code, stdout, full,
                 header_out, pipe, held, output>>

WaitSortOnly ==                  \* mutant: undecorate is not waited for
  /\ \/ pc["main"] = "wait undec" /\ GoTo("main", "wait sort")
     \/ pc["main"] = "wait sort" /\ Gone("sort") /\ Exit("main", "ok")
  /\ UNCHANGED <<job, input, pos, skip_header_lines, stdout, full, header_out,
                 pipe, held, output>>

(* waitpid, whose status is not asked for; then main returns.              *)
Wait ==
  /\ \/ pc["main"] = "wait undec" /\ Gone("undec") /\ GoTo("main", "wait sort")
     \/ pc["main"] = "wait sort" /\ Gone("sort") /\ Exit("main", "ok")
  /\ UNCHANGED <<job, input, pos, skip_header_lines, stdout, full, header_out,
                 pipe, held, output>>

ExitMain ==
  /\ pc["main"] = "exit" /\ stdout["main"] = << >>
  /\ Ends("main", code["main"])
  /\ output' = output \o AsIs(header_out)
  /\ header_out' = << >>
  /\ UNCHANGED <<job, input, pos, skip_header_lines, stdout, full, pipe, held>>

-----------------------------------------------------------------------------
(* The sort process.                                                       *)

KeyOf(n) == IF n = 0 THEN 0 ELSE input[n].key

(* In the order of their keys, with -u no key twice.                       *)
InOrder(ns) ==
  \A i, k \in DOMAIN ns : i < k =>
    /\ KeyOf(ns[i]) <= KeyOf(ns[k])
    /\ job.unique => KeyOf(ns[i]) # KeyOf(ns[k])

(* With -u one of several lines with the same key may stand for them all.  *)
StandsIn(m, n) == job.unique /\ KeyOf(m) = KeyOf(n)

Kept(ns) ==
  {S \in SUBSET Range(ns) :
     \A n \in Range(ns) \ S : \E m \in S : StandsIn(m, n)}

(* Lines with equal keys come in some order, which depends on -s.          *)
Sortings(ns) == UNION {{s \in SetToSeqs(S) : InOrder(s)} : S \in Kept(ns)}

(* With --check, the first line out of order ends it.                      *)
SortReads ==
  /\ pc["sort"] = "copy" /\ pipe["ds"] # << >>
  /\ held' = Append(held, Head(pipe["ds"]))
  /\ pipe' = [pipe EXCEPT !["ds"] = Tail(@)]
  /\ IF job.check /\ ~InOrder(held')
     THEN Ends("sort", "error") ELSE UNCHANGED <<pc, code, fd>>
  /\ UNCHANGED <<job, input, pos, skip_header_lines, stdout, full, header_out,
                 output>>

SortSorts ==
  /\ pc["sort"] = "copy" /\ pipe["ds"] = << >> /\ ~IsOpen("ds_w")
  /\ GoTo("sort", "write")
  /\ held' \in IF job.check THEN {<< >>} ELSE Sortings(held)
  /\ UNCHANGED <<job, input, pos, skip_header_lines, stdout, full, header_out,
                 pipe, output>>

SortWrites ==
  /\ pc["sort"] = "write" /\ held # << >>
  /\ IF IsOpen("su_r")
     THEN /\ Len(pipe["su"]) < PipeSize
          /\ pipe' = [pipe EXCEPT !["su"] = Append(@, Head(held))]
          /\ held' = Tail(held)
          /\ UNCHANGED <<pc, code, fd>>
     ELSE Ends("sort", "signal") /\ UNCHANGED <<pipe, held>>
  /\ UNCHANGED <<job, input, pos, skip_header_lines, stdout, full, header_out,
                 output>>

SortExits ==
  /\ pc["sort"] = "write" /\ held = << >>
  /\ Ends("sort", "ok")
  /\ UNCHANGED <<job, input, pos, skip_header_lines, stdout, full, header_out,
                 pipe, held, output>>

(* Arguments it refuses, no memory, no temporary file, a signal.           *)
SortBreaks ==
  /\ pc["sort"] \in {"copy", "write"}
  /\ Ends("sort", "error")
  /\ UNCHANGED <<job, input, pos, skip_header_lines, stdout, full, header_out,
                 pipe, held, output>>

-----------------------------------------------------------------------------
(* The undecorate process: undecorate_file.                                *)

Undecorate ==
  /\ Copying("undec") /\ pipe["su"] # << >>
  /\ stdout' = [stdout EXCEPT !["undec"] = Append(@, Head(pipe["su"]))]
  /\ pipe' = [pipe EXCEPT !["su"] = Tail(@)]
  /\ \E is_full \in BOOLEAN : full' = [full EXCEPT !["undec"] = is_full]
  /\ UNCHANGED <<job, input, pos, skip_header_lines, pc, code, fd, header_out,
                 held, output>>

EndOfSorted ==
  /\ Copying("undec") /\ pipe["su"] = << >> /\ ~IsOpen("su_w")
  /\ Exit("undec", "ok")
  /\ UNCHANGED <<job, input, pos, skip_header_lines, stdout, full, header_out,
                 pipe, held, output>>

(* begfield with skipsblanks: after the inserted fields, blanks are passed *)
(* over, but never the last character of the line.                         *)
Undecorated(n) ==
  IF n = 0 \/ input[n].text.body = Empty THEN [blanks |-> 1, body |-> Empty]
  ELSE [blanks |-> 0, body |-> input[n].text.body]

WriteToUser ==
  /\ Flushing("undec")
  /\ output' = output \o [i \in DOMAIN stdout["undec"] |->
                            Shown(stdout["undec"][i],
                                  Undecorated(stdout["undec"][i]))]
  /\ stdout' = [stdout EXCEPT !["undec"] = << >>]
  /\ full' = [full EXCEPT !["undec"] = FALSE]
  /\ UNCHANGED <<job, input, pos, skip_header_lines, pc, code, fd, header_out,
                 pipe, held>>

ExitUndecorate ==
  /\ pc["undec"] = "exit" /\ stdout["undec"] = << >>
  /\ Ends("undec", code["undec"])
  /\ UNCHANGED <<job, input, pos, skip_header_lines, stdout, full, header_out,
                 pipe, held, output>>

-----------------------------------------------------------------------------
Main == \/ ForkUndecorate \/ ForkSort \/ SetUp("main")
        \/ CopyHeader \/ Decorate \/ EndOfInput \/ WriteToSort
        \/ CloseStdout \/ CloseWriteEnd \/ Wait \/ ExitMain

Sort == SetUp("sort") \/ SortReads \/ SortSorts \/ SortWrites \/ SortExits

Undec == \/ SetUp("undec") \/ Undecorate \/ EndOfSorted \/ WriteToUser
         \/ ExitUndecorate

Next == Main \/ Sort \/ Undec \/ SortBreaks

Spec == Init /\ [][Next]_vars

FairSpec == Spec /\ WF_vars(Main) /\ WF_vars(Sort) /\ WF_vars(Undec)

-----------------------------------------------------------------------------
(* Properties                                                              *)

(* The type invariant.                                                     *)
TypeOK ==
  /\ job \in Jobs
  /\ input \in Inputs
  /\ pos \in 0 .. Len(input)
  /\ skip_header_lines \in 0 .. job.header
  /\ pc \in [Proc -> {"none", "fork-1", "fork-2", "set up", "copy", "fclose",
                      "close", "wait undec", "wait sort", "write", "exit",
                      "gone"}]
  /\ code \in [Proc -> {"running", "ok", "error", "signal"}]
  /\ fd \in [Proc -> [Fd -> End]]
  /\ stdout \in [{"main", "undec"} -> Seq(0 .. pos)]
  /\ full \in [{"main", "undec"} -> BOOLEAN]
  /\ header_out \in Seq(1 .. pos)
  /\ pipe \in [Pipe -> Seq(0 .. pos)]
  /\ \A i \in Pipe : Len(pipe[i]) <= PipeSize
  /\ held \in Seq(0 .. pos)
  /\ output \in Seq([line : 0 .. pos, text : Text])

HeaderCount == IF job.header < Len(input) THEN job.header ELSE Len(input)

(* The header lines "are passed to the output stream before all other      *)
(* lines", in their order, although two processes write to it and each     *)
(* has a buffer of its own.                                                *)
HeadersFirst ==
  \A i \in DOMAIN output :
    i <= HeaderCount \/ output[i].line \in 1 .. HeaderCount =>
      output[i].line = i

(* Once the main process has returned 0 the output is there.  Every key    *)
(* was converted, the header lines came out, and behind them lines of the  *)
(* input, each once and in the order of the keys.  A line is missing only  *)
(* if with -u another stands for it, or else from the end of the order, as *)
(* main does not ask what became of sort; and not if sort did not fail and *)
(* was there to sort and not to --check.                                   *)
SuccessMeansAll ==
  pc["main"] = "gone" /\ code["main"] = "ok" =>
  LET lines == HeaderCount + 1 .. Len(input)
      data == [i \in 1 .. Len(output) - HeaderCount |->
                 output[HeaderCount + i].line]
      missing == {n \in lines \ Range(data) :
                    ~\E m \in Range(data) : StandsIn(m, n)}
  IN  /\ Len(output) >= HeaderCount
      /\ \A n \in lines : input[n].key # 0
      /\ IsInjective(data) /\ Range(data) \subseteq lines /\ InOrder(data)
      /\ \A m \in Range(data), n \in missing : KeyOf(m) <= KeyOf(n)
      /\ code["sort"] = "ok" /\ ~job.check => missing = {}

(* No process waits for ever: an end of file is seen, a full pipe is read  *)
(* or breaks, whichever of the three ends first and however.               *)
AllEnd == <>[](\A p \in Proc : Gone(p))
=============================================================================
