---------------------------- MODULE MCFileModes ----------------------------
(***************************************************************************)
(* FileModes for TLC: up to three lines of up to three fields.             *)
(***************************************************************************)
EXTENDS FileModes

MCCell == {"a", "b", "N/A", "field-1", "field-2", "field-3"}

MCFieldName == <<"field-1", "field-2", "field-3">>

MCLines == { << >>, <<"a">>, <<"b", "a">>, <<"a", "b">>, <<"a", "a", "b">> }

MCInputs == UNION {[1 .. k -> MCLines] : k \in 0 .. 3}

Job(mode) ==
  [mode |-> mode, strict |-> TRUE, full |-> FALSE, header_in |-> FALSE,
   header_out |-> FALSE, vnlog |-> FALSE, n_lines |-> 0, n_fields |-> 0]

Headers(in, to) == [Job("reverse") EXCEPT !.header_in = in, !.header_out = to]

MCJobs ==
  { Job("transpose"), [Job("transpose") EXCEPT !.strict = FALSE],
    Job("reverse"), Headers(TRUE, FALSE), Headers(FALSE, TRUE),
    [Headers(TRUE, TRUE) EXCEPT !.strict = FALSE],
    [Headers(TRUE, TRUE) EXCEPT !.vnlog = TRUE],
    Job("noop"), [Job("noop") EXCEPT !.full = TRUE],
    Job("check"), [Job("check") EXCEPT !.n_fields = 2],
    [Job("check") EXCEPT !.n_lines = 2],
    [Job("check") EXCEPT !.n_lines = 3, !.n_fields = 1] }
=============================================================================
