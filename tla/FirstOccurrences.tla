-------------------------- MODULE FirstOccurrences --------------------------
(***************************************************************************)
(* What rmdup promises: of the lines with the same key, the first one is   *)
(* printed.  Rmdup, with its buffers of keys, is shown to implement this.  *)
(***************************************************************************)
EXTENDS Naturals, Sequences

CONSTANTS Inputs,     \* sequences of keys, or what stands for a missing key
          CKey,       \* the part of a key up to its first NUL
          Missing

VARIABLES input, headers, pos, seen, out, status

vars == <<input, headers, pos, seen, out, status>>

Init ==
  /\ input \in Inputs
  /\ headers \in [input_header : BOOLEAN, output_header : BOOLEAN]
  /\ pos = 0 /\ seen = {} /\ out = << >>
  /\ status = "start"

(* A header line is no data; it is printed on request.                     *)
Header ==
  /\ status = "start" /\ status' = "reading"
  /\ IF headers.input_header /\ input # << >>
     THEN /\ pos' = 1
          /\ out' = IF headers.output_header THEN <<1>> ELSE << >>
     ELSE UNCHANGED <<pos, out>>
  /\ UNCHANGED <<input, headers, seen>>

Line ==
  /\ status = "reading" /\ pos < Len(input)
  /\ pos' = pos + 1
  /\ LET key == input[pos + 1] IN
     IF key = Missing THEN status' = "missing field" /\ UNCHANGED <<seen, out>>
     ELSE /\ seen' = seen \cup {CKey[key]}
          /\ out' = IF CKey[key] \in seen THEN out ELSE Append(out, pos + 1)
          /\ UNCHANGED status
  /\ UNCHANGED <<input, headers>>

End ==
  /\ status = "reading" /\ pos = Len(input)
  /\ status' = "done"
  /\ UNCHANGED <<input, headers, pos, seen, out>>

Next == Header \/ Line \/ End

Spec == Init /\ [][Next]_vars
=============================================================================
