# Verification of GNU datamash and decorate

TLA+ models of the programs in `src/src`, TLC configurations that check them
on small instances, and TLAPS proofs of their central properties. Paths below
are relative to `src/src` unless they begin with `doc`, `tests` or `man`.

## 1. The system and its parts

datamash reads lines, cuts them into fields, and does one of three kinds of
work: it summarises groups of lines (the grouping, per-line and crosstab
modes), it drops lines with a key seen before (rmdup), or it rearranges or
checks the file (transpose, reverse, check, noop). decorate is a second
program: it adds converted keys to lines, has `sort` order them and removes
the keys again.

| Part | State | Operations | Talks to |
|---|---|---|---|
| grouping core, `datamash.c` `process_file` 655-731, `process_line`, `different`, `process_group`, headers | two line records, `lines_in_group`, `line_number`, `dm` | header, read a line, close a group, end | calls the field operations, crosstab, column headers; reads `input_stream` |
| field operations, `field-ops.c` | `struct fieldop`: `first`, `count`, `value`, the vectors of values and strings with their sizes | collect, summarise, summarise empty, reset | called by the core; pairs read each other; statistics of `utils.c` |
| cross tabulation, `crosstab.c` | three hash tables: rows, columns, cells | add result, print | called by `process_group` and at the end |
| input, `datamash.c` `open_input` 1154-1234, `close_input` | `input_stream`, offset of the standard input, `dm->grps` | open, read header, close | a `sort` child behind a pipe |
| column headers, `column-headers.c` | array of names | build, name to number, number to name | input, core, rmdup |
| rmdup, `datamash.c` `remove_dups_in_file` 1020-1151 | key buffers, hash table of pointers | read a line, add a key | gnulib `hash` |
| line reader, `text-lines.c` | `struct line_record_t` | read, split, skip comments and vnlog prologue | every mode |
| whole-file modes, `datamash.c` 736-1015 | all lines, or the number of fields of the last one | transpose, reverse, noop, check | line reader |
| scanner and parser, `op-scanner.c`, `op-parser.c` | token, position, `struct datamash_ops` | parse mode, columns, operations, parameters | `main` |
| statistics, `utils.c` | none | quantiles, mode, moments, string helpers | field operations |
| text options, number format | separators, format string | parse and check | `main`, output |
| decorate, `decorate.c` | two pipes, three processes, header counter, key lists | parse keys, adjust keys, fork, decorate, undecorate, wait | `sort` child, second child |
| key comparison, conversions, `key-compare.c`, `decorate-functions.c` | none | find a field, convert it | decorate |

Hard behaviours, and what makes each part correct:

* **grouping core.** A line is compared with the line *kept* for the group,
  which any operation may replace in the middle of the group; "no group open"
  is encoded as an empty buffer while empty lines are legal; the last group is
  closed by the end of the input. Correct means: the reported groups are
  exactly the maximal runs of equal keys, each with the results of its lines.
* **field operations.** What `field_op_summarize` reads unchecked depends on
  the history of `field_op_collect`; nothing may survive a reset.
* **input.** One offset of the standard input is shared by two processes; the
  child may fail late; names become numbers at the right moment. Correct
  means: the first line is the header, every other line reaches the loop once,
  a group arrives in one piece, both processes end.
* **rmdup.** Keys are copied before they are known to be new and the table
  keeps raw pointers. Correct means: first occurrences are printed, copies stay
  in bounds, no stored key is overwritten.
* **decorate.** End of file on a pipe needs every copy of its write end to be
  closed in three processes; two processes write to one output through two
  buffers. Correct means: header first, the rest complete and in order when
  success is reported, nobody waits for ever.
* **line reader.** The first line is read by other rules than the rest; the
  splitter ends at the NUL behind the line, one step later or one step earlier
  depending on the separator. Correct means: every line that is no comment
  becomes one record, in order, with exactly the fields the manual promises.
* **whole-file modes.** Only neighbouring lines are compared, and what is
  remembered of earlier lines lives in two buffers that change places. Correct
  means: transpose prints the transposed matrix, and what is accepted,
  refused and reported is true of the whole input.
* **parser.** One scanner with one token of look-ahead keeps the value of the
  last number in a global, whitespace is a token only in one place, and columns
  are collected in an array that moves when it grows. Correct means: what is
  accepted is right and means what its author wrote, what is right is accepted,
  and later code finds in `dm` what it relies on.
* **field operations' memory.** Two buffers and a vector live as long as the
  operation and grow by batches; a result is reserved before it is known.
  Correct means: no cell outside is touched, and a list comes out as collected.
* **decorate's keys.** A key is scanned on the line, then replaced by another
  key for a line with more fields. Correct means: each conversion gets the text
  of its key, and sort compares what the user asked for.
* **options.** Settings overwrite each other in the order they are given.
  Correct means: the order only matters between options that set the same
  thing, and sort and vnlog agree with what is left.
* **statistics and text functions**: indices, run lengths and scans at the ends
  of an array or a text. Correct means: what counting, or a definition without
  scanning, says.

There are no threads, locks or persistent state; concurrency exists only
between the processes of `--sort` and of decorate.

## 2. The modules

| Module | Content |
|---|---|
| `FieldOps` | the accumulator of one operation: collect, reset, summarise, as operators |
| `GroupBy` | state machine of `process_file` and everything it calls; extends `FieldOps`; `ImplementsSummary` is the refinement of `GroupSummary`, `TableIsRight` the printed table of crosstab |
| `GroupSummary` | abstract specification: output as a function of the whole input |
| `MCGroupBy` | instances of `GroupBy` |
| `GroupByProofs` | theorems about `GroupBy` |
| `SortedInput`, `MCSortedInput` | datamash and its sort child |
| `SortedInputProofs` | theorems about `SortedInput` |
| `Rmdup`, `MCRmdup` | key buffers and pointer table |
| `FirstOccurrences` | abstract specification of rmdup: a set of keys |
| `DecoratePipe`, `MCDecoratePipe` | the three processes of decorate |
| `DecoratePipeProofs` | theorems about `DecoratePipe` |
| `SortKey` | what a key of sort means, by positions; sort is external |
| `DecorateKeys`, `MCDecorateKeys` | the keys of decorate on one line: parsed, moved, converted, undecorated |
| `DecorateKeysProofs` | theorems about `DecorateKeys` |
| `FileModes`, `MCFileModes` | transpose, reverse, noop and check |
| `LineReader`, `MCLineReader` | reading, passing over and splitting lines |
| `LineReaderProofs` | theorems about `LineReader` |
| `OpParser` | state machine of the scanner and the parser of the operands |
| `CommandLine` | what operands mean: how commands are written, which are right, what they ask for; the properties of `OpParser` |
| `MCOpParser` | commands and texts |
| `CommandLineProofs` | theorems about `OpParser`, in the terms of `CommandLine` |
| `OpBuffers`, `MCOpBuffers` | the memory of one field operation |
| `BufferProofs` | theorems about `OpBuffers` and `Rmdup`, the modules about growing memory |
| `Statistics` | the statistics of `utils.c` in exact arithmetic, and their definitions |
| `TextFunctions` | file extensions, numbers in a field, number formats, roman numerals |
| `Options` | the option loop of `main`, its checks, the arguments of sort |
| `MCUtils` | one call of a function of the last three, for every argument |
| `MainProofs` | theorems about `FileModes` and about the options, extensions and formats of `MCUtils` |

`GroupBy`, `Rmdup` and `FileModes` take the lines as given, split into fields;
`LineReader` shows which lines of a text are delivered and with which fields,
`SortedInput` which of them reach a loop behind `sort` and in which order, and
the other three what is made of them. `OpParser` produces the job that
`GroupBy` and `SortedInput` assume: `ResultFits` is the counterpart of their
assumption `ValidJob`. `Options` gives the settings that the other modules take
as constants or as parts of a job. `OpBuffers` is the memory below `FieldOps`,
`DecorateKeys` what happens to a line between the processes of `DecoratePipe`.

### Correspondence with the code

**FieldOps.** The table `operations[]` has over sixty entries; the model has
one member for each way a value is accumulated (see the head of the module).
`Current` is the `auto_first` assignment, `Improves` the comparisons,
`KeepsLine` the return value `FLOCR_OK_KEEP_LINE`, `Ready` what
`field_op_summarize` reads. Numbers are integers, results of divisions,
statistics and digests are tagged tuples of what they are computed from. `rand`
draws: `pick` is whether `random () % count` is 0.

**OpBuffers.** `str_buf` is the part in use, so `str_buf_used` is its length;
`touched` says how many cells of each buffer the last call needs, which is
compared with the sizes. A library function that returns part of a name returns
any part; equal strings come out of `qsort` in any order. Result bytes are kept
only for the operations whose result is a property.

**DecorateKeys.** A line is handled in one run: parse the keys, adjust them,
convert the first key, the next ones, undecorate. `Past` is a scanning loop that
stops at `lim`, the last position of the record. Counts wrap at `SizeMax`.
`Printed` is `debug_keyfield`, from which sort reads the key.

**Statistics, TextFunctions, Options.** Pure operators with the names of the C
functions; a fraction stands for a long double, a sequence of one-character
strings for a text. `Option` is one round of the `getopt_long` loop, `Checked`
the rest of `main` before `open_input`, `SortArguments` what `open_input`
passes to sort except the keys.

**GroupBy.** `kept` is the position of the line in `group_first_line` (0 when
its length was set to 0); `NoGroupYet` is the test of that length. One pass of
the reading loop is one action, `ReadLine`: header on request, comparison,
closing and reporting the group, reset, collecting, keeping. The ways to die
are the action `Die` (before the line is collected) and the failing branch of
`ReadLine` (in `process_line`), in the order of the code. `closed` is a history
variable. `ValidJob` is what `op-parser.c` leaves behind (lines 485-555: a pair is
two operations of the same name, the second with the index of the first). `Cut` is the copy of a name into a buffer of 512 bytes, `Rank` the order
of `strcmp`, which tells apart what two buffers hold; `PrintedTable` is `crosstab_print`.

**SortedInput.** `OpenInput`, `ReadHeader`, `ReadLine`, `CloseInput` are
datamash; the `Sort...` actions are the child, which is external and modelled
from its command line (`sort -s [-f] [-t X] -kN,N`, C locale). A key includes
the blanks before its field when no `-t` is given.

**Rmdup.** Memory is a function from (buffer, offset) to symbolic bytes
`<<key, i>>`, so overwriting, overlapping and out-of-bounds copies are visible.
Its specification is called `RmdupSpec` (and `RmdupInit`, `RmdupNext`,
`RmdupTypeOK`), so that `BufferProofs` can extend `OpBuffers` beside it.

**DecoratePipe.** `fd` gives each process its descriptors; `fork` copies them,
`SetUp` is the closing and `dup2` of each branch of `main`, `Ends` closes what a
process has. `stdout` and `header_out` are the stdio buffers: after each line
the buffer may be full or not, and what is in it is written at the points where
the code flushes or closes, or at exit. A write without a reader kills.

**FileModes.** A line is a sequence of fields. `StoreLine`, `PrintColumn` are
the two loops of `transpose_file`, `ReverseLine`, `CopyLine`, `CheckLine` the
bodies of the other three; the actions named `...Ends` are what follows a loop.
`buffer` holds the two line records of check, `this` says which of them is read
into, and `Swapped` is `SWAP_LINES`. `broken` is chosen at the start: whether
the stream ends with a read error, which `ferror` reports when it is closed.

**LineReader.** A character is a member of `Char`, a field two positions of its
line. `Past` is a scanning loop or `strspn`, `At` makes the position behind the
line read as NUL. `PassOver` is one turn of the loop of `line_record_fread` that
continues, `TakeHeader` and `TakeLine` are the turns that leave it, and
`SplitDelimited`, `SplitWords` one turn of the splitting loop each.

**OpParser.** The scanned text is a sequence of pieces (tokens, whitespace, and
malformed ones). `Scan`, `Get` and `Peek` are the scanner; a scanner that died
stays at the token `DEAD`. `pc` names the function that parses next. A step
parses one column, parameter or option, with the looking ahead that the function
does. `Full` and `dangling` say when the pointer `p` of
`parse_operation_column` may point to freed memory; `par` keeps the parameter
memory, whose members are only written by tokens of their type. Where the code
reads what was freed or never written the model goes on with either outcome and
records it in the history variable `undefined`. One operation of each kind of
parameter, mode and pairing stands for its kind; words of more than one letter
for `getnum` are left out.

## 3. The runs

`groupby`, `sorted_input`, `rmdup` and `decorate` use `CHECK_DEADLOCK FALSE`: the
programs stop at `done` or at an error; so does `utils`, where a function is
called once. In the other runs a stopped program repeats its last state, or
nothing ever stops, and TLC looks for deadlocks.

| Run | Question | Result |
|---|---|---|
| `groupby` | command lines of every accumulation, option and mode, all inputs of at most four lines of six kinds: groups, results, the line `--full` prints, the table of crosstab, refusals, header, termination | holds |
| `sorted_input` | delivery, grouping, names, ending, with a sort that may fail at any time | holds |
| `sorted_input_rmdup` | the same delivery for `--sort --header-in rmdup` | violated |
| `rmdup` | bounds, stored keys, the assertion of the hash comparison, first occurrences | holds |
| `file_modes` | what the four modes print, refuse and report | holds |
| `line_reader` | which lines become records, and with which fields | holds |
| `op_parser` | is what is written understood as it is meant; what may later code rely on | holds |
| `op_buffers` | do all writes stay in the buffers; do the lists come out as collected | holds |
| `decorate` | header order, completeness on success, all processes end | holds |
| `decorate_keys` | which text is converted, what sort compares, what comes back | holds |
| `decorate_keys_empty` | is an empty key treated as an empty field | violated |
| `utils` | statistics, extensions, numbers, formats and options against definitions | holds |

### Bounds, and why they are enough

* `groupby`: inputs of four lines contain two groups of two, a group that comes
  back, a short line, an empty line and a missing value in every position; keys
  that differ by case only; numbers of both signs. Four lines are enough for a
  kept line to be replaced, compared with, and replaced again. Each accumulation
  and each option occurs in some command line.
  In crosstab mode a cell comes back after another one, names differ only by
  case under `-i`, and two names differ only behind what the buffer for names
  holds (one character here).
* `sorted_input`: four lines and a pipe of two: sort blocks on a full pipe,
  datamash on an empty one, and the child can fail before, while and after
  datamash reads. With whitespace as separator fields have blanks before them.
* `rmdup`: a buffer of four bytes and keys of 0, 1, 2 and 4 bytes: with its NUL
  a key may be smaller than the buffer, fill it exactly, or need a larger one;
  five lines fill and exceed it several times.
* `file_modes`: three lines of up to three fields in every combination of
  sizes: the longest may come first, in the middle or last, and the ragged one
  after a header. Buffers have changed places twice by then.
* `line_reader`: every line of up to five characters of a field, a separator
  and a blank, for both ways of splitting: with room for two fields, an array
  grows twice. Files of three lines made of fourteen kinds, one for each way
  through the conditions on comments, blanks and headers.
* `op_parser`: lists of up to two groups or columns of every kind (number, name,
  zero, range in and out of order, pair), every parameter of every operation,
  several operations, one without a parameter behind one with it, lists of five
  fields, which is one more than the first array holds, and for any text up to
  three pieces behind a word, also numbers beyond an `int` (whose largest value is
  7 here).
* `op_buffers`: a batch of three cells and strings of 0 to 3 bytes, with a NUL in
  one of them and two that differ by case; three strings a group. A buffer grows
  by the batch and by more than the batch, is full to the last cell, and serves
  group after group: the state space is closed over any number of groups.
* `decorate_keys`: one to three keys of every form (a field, fields in and out of
  order, characters, blanks, no end, beyond the line, at `SIZE_MAX`), separator,
  blank or none, on every line of up to four characters. `SizeMax` is 15.
* `utils`: up to six of four numbers (every pattern of equal ones), pairs of up
  to four; texts of up to six characters of each class a scan tells apart,
  fields of up to four after a longer one, all roman numerals to 3999; three of
  the options, in every order, before each kind of operation. A format is too
  large (`MAX_NUMERIC_FORMAT_LEN`, 100 in the code) at six characters.
* `decorate`: three lines, a pipe of one line, up to two header lines (also
  more than there are lines), a refused key in any position; keys equal and not,
  sorted with and without `-u`, or checked.

### Fairness

datamash in its grouping mode is one sequential program that the system keeps
running: `WF_vars(Next)` in `GroupBy`. In `SortedInput` and `DecoratePipe` each
process has weak fairness of its own (the scheduler runs every process that can
run). `SortBreaks`, a failing sort, has none: it need not happen. Failing forks
are alternatives inside the fork action.

## 4. Properties

Each hazard of the code is in `PROJECT.json`, at its line, with the properties
that would catch it. The important ones:

* `GroupsTile`, `GroupsAreRuns`: no line lost or counted twice, no group mixed or
  cut. `EmptyMeansNoGroup`: the empty-buffer mark. `TableIsRight`: each row and
  column of the crosstab once, in order, each cell the result of its first run.
  With `-i` the lines of a run may have different names; the property says that
  one line of each run gives the names of its cell.
* `AccumulatorsReady`: every read of `field_op_summarize` finds what it needs.
* `ImplementsSummary`: the streamed output is, at all times, a prefix of the
  output defined on the whole input, and a refusal has a cause in it.
* `DataDelivered`, `GroupsTogether`, `BothEnd` for the input. Two behaviours of
  the code are excepted by name: with `--whitespace` sort tells lines apart by the
  blanks before their keys, so `GroupsTogether` promises there that lines `Alike`
  in keys and blanks stay together, whatever lines with other blanks the input
  has; `DataDelivered` allows the read error of an empty input with a named key
  (section 6).
* `CopiesInBounds`, `KeysIntact`, `LookupIsFresh`, `PrintsFirstOccurrences`
  (a refinement) for rmdup.
* `HeadersFirst`, `SuccessMeansAll`, `AllEnd` for decorate. As main does not look
  at the status of sort, success alone means that what came out is the beginning
  of the sorted data; that nothing is missing (but lines that another stands for
  under `-u`) needs a sort that did not fail and was not given `--check`.
* `RaggedIsRefused`, `TransposedBack`, `ReversedSoFar`, `ReportIsTrue` for the whole-file modes.
* `FieldsRight` compares the fields of each record with a definition of
  splitting taken from the manual; `RightLines` says which lines are records and
  which one is the vnlog header, the first with a single `#` and a name
  (`IsLegend`), read from its first name on; `FieldsFit` that no field is stored
  outside the array, or reaches outside its own line.
* `UnderstoodAsMeant` and `RightIsAccepted` hold the parser against a meaning of
  commands that knows nothing of tokens, look-ahead or arrays. Both also say that
  nothing `undefined` is read, but for the two kinds of command that section 6
  describes: a range whose end outgrows the first array of fields (`Outgrows`),
  and a parameter of the wrong kind (`Mistyped`). `ResultFits`
  holds for every text; it lets one column 0 through, behind a blank in the text
  of `-g` (section 6).
* `BuffersHold`, `ResultInBounds`, `ListsAreRight` for the memory of operations.
* `ConvertsTheKey`, `SortComparesTheKey`, `Restored` compare the scanning of
  decorate with `SortKey`, where a key is a set of positions. What the code does
  otherwise is excepted in the property and listed in section 6.
* `StatisticsRight`, `ExtensionsRight`, `NumbersRight`, `FormatsRight`,
  `OptionsRight` compare functions with definitions that count, or quantify over
  positions of the text or the command line, instead of scanning. `OptionsRight`
  is about every setting that `main` keeps: each has the value that the last
  option for it gives, and no option for something else changes it.

## 5. What is proved

Theorems hold for all values of the constants that satisfy the named
assumptions, each of which says what a constant is (texts are strings, a batch
is positive, a pipe has room) and that jobs are command lines that the parser
accepts (`ValidJob`): any texts, inputs of any length, keys of any length, any
buffer and pipe size, any number of groups.

Every invariant below is inductive: it holds initially, every action keeps it,
and it implies the property. What follows says why the property alone is not.

**GroupByProofs.** `TypeSafety` and `SummariesAreReady` come from `TypeInv`,
type correctness together with `AccumulatorsReady`: the type of a summary cannot
be shown without knowing that its values are there. `GroupsTileInput`,
`RunsAreReported` and `EmptyMark` need `GroupInv`: `GroupsAreRuns` is not
inductive, because a line is compared only with the kept line. `GroupInv` adds
that the kept line is a line of the current group (`KeptInGroup`), that the
group is uniform (`CurrentUniform`) and that without a key, or in per-line mode,
it is as the code expects (`SingleLines`). A new line that equals the kept line
then equals the last one by transitivity, and one that differs from it differs
from all. `HeaderFitsTheTable` and `FullLineIsRight` need `PrintInv`, built on
both: the value in an accumulator is that of the kept line (`KeptShows`), hence
each row printed has its line beside its value (`RowsRight`), and the header has
a label for each operation that prints, where the second member of a pair does
not (`LabelsRight`).

`GroupByImplementsSummary` is the step simulation of `GroupSummary`, under
`SummaryInv`. Its heart is `AccumulatorsHold`: what is in an accumulator is what its
operation keeps of the texts of the open group (`Holds`: a sum, an extreme with
the first text that attains it, a list, the different strings), so that
`field_op_summarize` at the end of the group gives the value that `GroupSummary`
defines on the whole run (`OpResultIsValue`). That the groups closed are the first
runs of equal keys is `RunsClosed`, from `GroupInv`: the number of run ends up to
the last closed line is the number of groups closed. `LinesCollected`,
`KeysPrinted` and `HeaderKnown` carry what was tested of lines and header long
before the end, where a good exit must mean that all were usable; and each way to
die finds its reason in the input. `TableHoldsTheGroups` rests on `CellsInv`: there
is a choice of one line for each closed group such that the cells are those of
the lines chosen, each with a value of the first group that has it. Sorting the
names needs that `strcmp` tells apart what the buffers hold: with equal ranks of
different names `Names` would have no order to choose.

**SortedInputProofs.** `EqualKeysStayTogether` comes from `InOrder`: everything
sort has sorted, wherever it is (delivered, in the pipe, not written yet), is one
sequence `Stream` in the order of sort, blanks included under `-W`; a line between
two that are `Alike` is then like both, whatever blanks other lines have. `EveryLineArrives` comes from `Delivered`: up to the
offset, every line is the header, or delivered, or in the stream, once. It has
the hypothesis `~HeaderReadTwice`, the command lines of finding 1. What sort does
is a choice from the set `Sortings` of ordered permutations, not a function that
computes one: the provers know nothing of the library's sorting operators.

**BufferProofs, rmdup.** Every stored key, its NUL included, lies in a finished buffer
or below `next_key_pos` of the last one (`Below`), and its cells hold it. A copy
goes to `next_key_pos` or to a new buffer and touches no stored key:
`KeyBuffersSafe`, `KeysStay`, `PointersDiffer`. `ImplementsFirstOccurrences` is
the step simulation: a key is found in memory just when it is in `Seen`. The
invariant is called `KeysInv`.

**DecoratePipeProofs.** One invariant in seven parts over three processes: where
each is and what it did there (`Control`, `Done`), which write ends are open
(`Open`), which header lines are out and that no buffer or pipe carries one
(`Headers`, `Carried`), and where the other lines are (`Flow`): before sort writes,
what it holds, its pipe and the buffer before it are the lines read so far, in
order; from then on the output, the buffers, the second pipe and what sort still
holds are, together, lines in the order of the keys, all of them but those that
another stands for (`AllIn`). A failing sort only cuts off the end of that
sequence. `HeaderIsFirst`: until the last header
line was read the pipes are empty, and the buffer of the header is flushed before
anything can pass sort. `SuccessIsComplete`: success needs that undecorate was
waited for, which ends only behind the end of its pipe, so by `Flow` the output is
that sequence up to where sort gave up: a missing line has no smaller key than one
that was printed, and if sort ended well nothing is missing. No order of the
processes, size of the pipes or failure is left out.

**LineReaderProofs.** `PastFacts` says what a scan does (it stops at the first
character outside its set, at the NUL if nowhere before); by it the fields found
so far tile the line up to the position, or are exactly the words that end
before it (`DelimitedTo`, `WordsTo`). `SplitsAsPromised` is that statement at
the end of the line. `RecordsHaveRoom` follows the growth of the field array and
carries that each field lies within its line. `ReadsTheRightLines` follows the loop
that passes over comments, with the lines passed over as a set: none of them is a
legend, and where the code stops in the line it takes is where `NamesAt` says that
the names begin.

**MainProofs, whole files.** In `Sizes` lies why comparing neighbours is enough: as long
as nothing was refused, all lines read in strict mode or by check have the size
of the first, so a line that differs from the one before differs from the first.
`Kept` says what the two buffers hold after any number of exchanges
(`ReportsTheTruth`), `Widest` that the number of columns is the largest size,
attained by some line, `Printed` that the columns printed are right
(`RefusesRagged`, `TransposesBack`); `Backward` is the same for reverse
(`ReversesAll`).

**MainProofs, options and texts.** These functions keep no state between calls, so
each proof is about one loop, for arguments of any length (`AnyOptionsMean`,
`AnyExtensionRight`, `AnyFormatRight`); `OptionsAreRight`, `ExtensionsAreRight` and
`FormatsAreRight` carry them over to the calls of `MCUtils`.

The option loop is a fold; `LoopIs` turns it into the settings after n options,
and `After` says what these owe to the options seen so far: the delimiters to
the last of those that set them, and so do filler, number format, seed and collapse
separator; each switch to its option, the vnlog settings to `--vnlog` and perhaps
`--filler` (`LoopLeaves`). The check in main then excludes what came after
`--vnlog` and changed it (`AnyOptionsMean`).

For the extension, `Follows` says that all that was passed over behind position
l are add-ons up to the end; the scan stops at the longest such end (`Longest`),
as every longer one would have to begin before it (`ScanFinds`).

For a format, the scan takes `%%` two characters at a time from the left, while
the definition wants every run of `%` to be even. `FirstIs`: the scan stops at
the last `%` of the first odd run, and no directive can begin elsewhere
(`OddRun`, `OneDirective`), because in a directive no `%` follows the `%`. The
definition leaves open where flags end and the width begins, as 0 is both;
`ShapeType` and `TypeShape` show that the type is found at the same place
however they are divided.

**CommandLineProofs.** `TypeCorrect` and `AcceptedIsUsable` for texts of any
length. Lemmas on `Get` and `Peek` say what any scanner gives back; the invariant
then has one clause for each function that parses: what is known of the groups,
of the fields collected for the column, of the pending range or pair, and of the
operations already made (`Columns`, `Modes`, `Operations`, `Groupings`). The
part that is easy to get wrong is the pair: `OpsOf` says that a subordinate
operation is followed by the one that names it as its partner, across columns
that are turned into operations one at a time. No prover knows that a literal is
in `STRING`, so `Strings` names the literals the model uses beside it, and
`PieceType` has no operation spelled like a number, as there is none.

**BufferProofs, operations.** `BuffersNeverOverrun`: the strings in use, and the numbers,
fit into what was allocated (strictly, except for strings of a batch or more);
the step that makes it inductive is the growth by the larger of the batch and the
string, which no earlier size can defeat. `ResultsNeverOverrun` is about what is
reserved before it is known: the list of different strings cannot be longer than
what was collected. `Packed` shows it: the strings with their NULs are disjoint
pieces of the buffer, a sorted list is a permutation of them, and the separators
take the places of the NULs. `OutRoom` adds that there are as many NULs as
strings, and one at the end.
`ListsComeOutRight` says what is in those pieces. `Stored`: the ends of the
strings (`Ends`) cut the buffer into what was collected, through every growth.
As long as no string holds a NUL, the k-th pointer then finds the k-th NUL at the
k-th end (`PtrsAreStrs`), and collapse joins the strings (`CollapseIs`). For unique
and countunique, `Lex` is shown to be a transitive and antisymmetric order and
what `AtMost` means (`AtMostIs`), so in a sorted list equal strings are neighbours
and comparing with the last one printed is enough (`ShownMore`); `Listed` carries
the different strings so far, what was printed of them and their number along the
list. The one assumption is that `Fold` gives a number for every byte of the
input, as `tolower` does.

**DecorateKeysProofs.** Two worlds meet here: the code scans a line from its
start, `SortKey` says by positions and counting where a field is. `FieldsAreStarts`
and `FieldsAreEnds` join them: after n turns of the loop of begfield the position
is the start of field n + 1, after those of limfield the end of field n, both for
separators and for blanks, with the last position `lim` where there are fewer
fields. From this `BegFieldIs` and `LimFieldIs` give the two functions by the
definitions of `SortKey`.

`KeysAreConverted` rests on `TextsInv`: the keys parsed so far are those of the
command line (`KeysParsed`), `keylist` and `decorate_keylist` are then what the
moving makes of them (`KeysAdjusted`), and each text cut is right (`TextsCut`).
The last part must carry what `length` is, because decorate_fields shortens it
once, for the first key, and all later keys are cut with the shorter one: the
property is not inductive without knowing that this happens only after an empty
first key or one without an end. That the i-th text belongs to the i-th
converted key is `WantedIs`: a list built by appending is in the order of ranks.

`LinesComeBack` and `SortReadsTheKeys` need `LineInv`, which adds `DecorationLaid`:
the conversions lie one behind the other in `decorated`, each with its separator.
As long as each is one field (`Tidy`), the starts of fields inside the decoration
are the ends of the conversions (`CutsAre`), so undecorate stops exactly behind
the last. For a key without a conversion, `FieldsShift` and `KeysShift` show that
field k of a line is field k + n of the line with n fields before it; the blank
that separates them is `BlankInFront`. For a converted key, `KeyReplaced` finds
its conversion at the field that `adjust_key_fields` numbered. `PlusIs` is the
only use of `Represented`: the moved numbers do not wrap. The exceptions in the
three properties are used in these proofs at one place each, where the code takes
the branch that section 6 describes.

The library's induction theorems take operators as parameters, which the provers
cannot handle. Where a proof needs induction over numbers it takes the least
member of the set of counterexamples instead (`LeastNumber`, from `WFMin` of
`WellFoundedInduction`, which is about sets); `Listable`, `FlattenSeqIs`,
`NulExists`, `StepsFrom`, `LoopsExist` and `FindsExist` are proved so.

Only model-checked:

* `Terminates`, `BothEnd`, `AllEnd`: liveness is out of the provers' reach.
* `UnderstoodAsMeant` and `RightIsAccepted` compare the parser with the meaning
  of a whole command, which is defined by joining the texts of its parts;
  a proof has to find its place in a joined text at every step.
* `StatisticsRight` and `NumbersRight`: sums over sets, powers and sorted lists are
  defined by recursion over the data, in modules whose laws are not among the
  library's theorems. They are checked for every argument within the bounds.

## 6. Findings

Each is a run with the expectation `violation`; `PROJECT.json` quotes the line
of the repository that says otherwise.

1. `datamash.c:1052`: with `--sort` and a header, rmdup reads a second header.
2. `decorate.c:332`: an empty first key is taken for a key without an end, and
   the rest of the line is converted for it.

Defects that the models contain but no run is spent on:

* `rmdup 1,2` is accepted and fails the assertion `dm->num_grps==1`
  (`datamash.c:1088`); `line` and an empty operand fail assertions of the parser
  (`op-parser.c:768`, `785`).
* `getnum:2` and `strbin:0.5` read a member of the parameter that was never
  written (`op-parser.c:180`, `235`).
* `parse_operation_column` checks a range through a pointer into the array that
  it has just let grow (`op-parser.c:360`), when the end of the range is the
  fifth field.
* `parse_mode_column` reads the number of a group column after it has looked at
  the next token, which overwrites it (`op-parser.c:587`): `-g '1 2'` groups by
  column 2. The text of `-g` need not be used up, so `-g '1 0'` is accepted and
  groups by column 0, against the assertion of `text-lines.h:71`. That came out of
  the attempt to prove `ResultFits` as it was first stated (no column 0 is ever
  accepted), which TLC had passed because no text of `-g` in its instances had a
  blank before a 0. Now they have, `ResultFits` excepts this case and no other,
  and `ValidJob` of `GroupBy` asks for columns that are not 0.
* Ranges of groups beyond the largest `int` are truncated (`op-parser.c:584`).
* softmax keeps 0 as the maximum of negative numbers (`field-ops.c:456`).
* The second column of a pair is not checked before its header name is looked
  up: `--header-out pcov 2:3` on two columns fails an assertion
  (`datamash.c:532`, `column-headers.c:62`; status `assertion` of `GroupBy`).
* With `--whitespace`, sort orders keys with their leading blanks, so a group can
  be split (`datamash.c:1200`).
* `--sort`, a named column and empty input end in an error: sort is given
  `-k0,0` (`datamash.c:1212`; `tests/datamash-sort-header.pl:122` expects empty
  output).
* `--seed` is declared without an argument and `strtol` is given a null pointer
  (`datamash.c:146`; status `undefined` of `Options`).
* undecorate removes leading blanks of a line with the keys, and an empty line
  comes back as one blank (`decorate.c:498`, `key-compare.c:146`).
* After a first key that is empty or has no end, the keys that reach the end of
  the line lose their last character (`decorate.c:338`).
* A converted key keeps its character offsets, which sort then applies to the
  conversion: `-k1.3,1:roman` (`decorate.c:735`). Field numbers near `SIZE_MAX`
  wrap when they are moved (`decorate.c:749`).
* The NUL that dirname and basename put behind a name is one cell outside the
  buffer when the first name of the run has 1023 bytes or more
  (`field-ops.c:1143`).
* softmax of no value prints what `out_buf` held before (`field-ops.c:825`).
* unique and countunique lose strings when a field holds a NUL.
* decorate returns success whatever sort returns (`decorate.c:1123`).

## 7. What is not modelled

Rounding of long double, square roots and exponentials; digests and encodings
except for their lengths; the arithmetic of per-line operations (round, bin,
strbin); the wording of messages; locale collation (`strcoll` is equality of
texts); the part of a line that was printed before the program dies in the middle of
it, in a later operation or column header (`datamash.c:497`, `592`); memory
exhaustion, except that sort may fail; `--help`, `--version`,
`--sort-cmd` and the test options; `init_random`; the conversions of addresses
(`inet_pton` and `inet_aton` do the work); the ordering flags that decorate hands
on to sort; decorate with files on its command line or in its one-step modes.

## 8. Plan

1. `DecoratePipe` with the one-step modes and with files.
2. The address conversions, as far as they are code of this program: the width
   of their output and the check of what `inet_pton` returned.
