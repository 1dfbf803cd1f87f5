--------------------------- MODULE MCLineReader ----------------------------
(***************************************************************************)
(* LineReader for TLC: lines of up to five characters.                     *)
(***************************************************************************)
EXTENDS LineReader

MCChar == {"x", ",", " ", "#", ";", "!"}

Lines(chars, n) == UNION {[1 .. k -> chars] : k \in 0 .. n}

SplitInputs == {<<l>> : l \in Lines({"x", ",", " "}, 5)}

(* Lines as they come in vnlog files and between comments.                 *)
Some == { << >>, <<" ">>, <<"#">>, <<"#", "#", "x">>, <<"#", "!">>,
          <<" ", "#", " ", "x", " ", "#">>, <<"#", "x">>, <<"#", " ">>,
          <<"x", "#", " ", "x">>, <<"x", " ", "x", " ", "#">>,
          <<" ", "x", " ">>, <<" ", ";", "x">>, <<"x", " ", ";">>,
          <<"x", ",">>, <<"#", " ", "#", "x">>, <<" ", "#", "!", " ", "x">> }

MCInputs == SplitInputs \cup UNION {[1 .. k -> Some] : k \in 0 .. 3}

Job(ws, skip, vnlog) == [whitespace |-> ws, in_tab |-> ",",
                         skip_comments |-> skip, vnlog |-> vnlog,
                         named |-> TRUE]

MCJobs == { Job(FALSE, FALSE, FALSE), Job(FALSE, TRUE, FALSE),
            Job(TRUE, FALSE, FALSE), Job(TRUE, TRUE, TRUE),
            [Job(TRUE, TRUE, TRUE) EXCEPT !.named = FALSE] }
=============================================================================
