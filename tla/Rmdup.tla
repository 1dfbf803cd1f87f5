------------------------------- MODULE Rmdup --------------------------------
(***************************************************************************)
(* remove_dups_in_file of datamash.c: the keys seen are copied into large  *)
(* buffers, one after the other, and a hash table holds pointers to the    *)
(* copies.  A key is copied before it is known to be new; the copy of a    *)
(* key already present is overwritten by the next one.                     *)
(*                                                                         *)
(* A pointer is a buffer (its place in buffer_list) and an offset.  Memory *)
(* cells are symbolic: <<k, i>> is byte i of key k, and byte KeyLen[k] the *)
(* NUL after it.  The hash table (gnulib) is the set of its pointers; it   *)
(* compares the strings that the pointers lead to.                         *)
(*                                                                         *)
(* The names that every specification has begin with Rmdup here, so that   *)
(* one module can extend this one and OpBuffers (BufferProofs).            *)
(***************************************************************************)
EXTENDS Integers, Sequences

CONSTANTS Keys,       \* the texts of the key field
          KeyLen,     \* the length of each
          CKey,       \* the part of a key up to its first NUL
          Missing,    \* stands for the key of a line that lacks the field
          KeyInputs,  \* sequences of keys: one for each line
          rmdup_initial_size

ASSUME RmdupAssumption ==
  /\ KeyLen \in [Keys -> Nat]
  /\ CKey \in [Keys -> Keys]
  /\ Missing \notin Keys
  /\ KeyInputs \subseteq Seq(Keys \cup {Missing})
  /\ rmdup_initial_size \in Nat \ {0}

VARIABLES
  input, headers,
  pos,                  \* lines read
  keys_buffer_alloc,
  next_key_pos,
  buffer_list,          \* the sizes of the buffers; the last is keys_buffer
  mem,                  \* the cells written
  ht,                   \* the pointers in the hash table, and, as history,
                        \* the key that each was inserted with
  out,                  \* the lines printed
  status

rmdup_vars == <<input, headers, pos, keys_buffer_alloc, next_key_pos,
                buffer_list, mem, ht, out, status>>

-----------------------------------------------------------------------------
Cells(p, k) == {<<p[1], p[2] + i>> : i \in 0 .. KeyLen[k]}

(* memcpy and the NUL.                                                     *)
Write(m, p, k) ==
  [c \in DOMAIN m \cup Cells(p, k) |->
     IF c \in Cells(p, k) THEN <<k, c[2] - p[2]>> ELSE m[c]]

(* The string at p is the key k.                                           *)
Holds(m, p, k) ==
  \A i \in 0 .. KeyLen[k] :
    /\ <<p[1], p[2] + i>> \in DOMAIN m
    /\ m[<<p[1], p[2] + i>>] = <<k, i>>

(* hash_insert_if_absent returns 0: some entry compares equal.             *)
Found(m, key) ==
  \E p \in DOMAIN ht, k \in Keys : Holds(m, p, k) /\ CKey[k] = CKey[key]

-----------------------------------------------------------------------------
RmdupInit ==
  /\ input \in KeyInputs
  /\ headers \in [input_header : BOOLEAN, output_header : BOOLEAN]
  /\ pos = 0
  /\ keys_buffer_alloc = rmdup_initial_size
  /\ next_key_pos = 0
  /\ buffer_list = <<rmdup_initial_size>>
  /\ mem = << >> /\ ht = << >>
  /\ out = << >>
  /\ status = "start"

ReadHeader ==
  /\ status = "start" /\ status' = "reading"
  /\ IF headers.input_header /\ input # << >>
     THEN /\ pos' = 1
          /\ out' = IF headers.output_header THEN <<1>> ELSE << >>
     ELSE UNCHANGED <<pos, out>>
  /\ UNCHANGED <<input, headers, keys_buffer_alloc, next_key_pos, buffer_list,
                 mem, ht>>

(* The key and its NUL do not fit into the buffer any more.                *)
Full(key) == next_key_pos + KeyLen[key] + 1 > keys_buffer_alloc

NewAllocShort(key) ==            \* mutant: no room for the NUL of a long key
  IF KeyLen[key] > keys_buffer_alloc THEN KeyLen[key] ELSE keys_buffer_alloc

NewAlloc(key) == IF KeyLen[key] + 1 > keys_buffer_alloc THEN KeyLen[key] + 1
                 ELSE keys_buffer_alloc

TargetReused(key) ==             \* mutant: a full buffer is filled again
  IF Full(key) THEN <<Len(buffer_list), 0>>
  ELSE <<Len(buffer_list), next_key_pos>>

(* Where the key is copied to, once a new buffer has been made if need be. *)
Target(key) == IF Full(key) THEN <<Len(buffer_list) + 1, 0>>
               ELSE <<Len(buffer_list), next_key_pos>>

MakeRoom(key) ==
  IF Full(key)
  THEN /\ keys_buffer_alloc' = NewAlloc(key)
       /\ buffer_list' = Append(buffer_list, NewAlloc(key))
  ELSE UNCHANGED <<keys_buffer_alloc, buffer_list>>

AddKeyInPlace(key) ==            \* mutant: next_key_pos is not advanced
  LET p == Target(key)
      m == Write(mem, p, key)
  IN  /\ mem' = m
      /\ next_key_pos' = p[2]
      /\ IF Found(m, key) THEN UNCHANGED <<ht, out>>
         ELSE /\ ht' = [q \in DOMAIN ht \cup {p} |-> IF q = p THEN key ELSE ht[q]]
              /\ out' = Append(out, pos + 1)

AddKey(key) ==
  LET p == Target(key)
      m == Write(mem, p, key)
  IN  /\ mem' = m
      /\ IF Found(m, key)
         THEN /\ next_key_pos' = p[2]
              /\ UNCHANGED <<ht, out>>
         ELSE /\ next_key_pos' = p[2] + KeyLen[key] + 1
              /\ ht' = [q \in DOMAIN ht \cup {p} |-> IF q = p THEN key ELSE ht[q]]
              /\ out' = Append(out, pos + 1)

ReadLine ==
  /\ status = "reading" /\ pos < Len(input)
  /\ input[pos + 1] # Missing
  /\ MakeRoom(input[pos + 1])
  /\ AddKey(input[pos + 1])
  /\ pos' = pos + 1
  /\ UNCHANGED <<input, headers, status>>

(* error_not_enough_fields                                                 *)
Die ==
  /\ status = "reading" /\ pos < Len(input)
  /\ input[pos + 1] = Missing
  /\ pos' = pos + 1
  /\ status' = "missing field"
  /\ UNCHANGED <<input, headers, keys_buffer_alloc, next_key_pos, buffer_list,
                 mem, ht, out>>

Finish ==
  /\ status = "reading" /\ pos = Len(input)
  /\ status' = "done"
  /\ UNCHANGED <<input, headers, pos, keys_buffer_alloc, next_key_pos,
                 buffer_list, mem, ht, out>>

RmdupNext == ReadHeader \/ ReadLine \/ Die \/ Finish

RmdupSpec == RmdupInit /\ [][RmdupNext]_rmdup_vars

-----------------------------------------------------------------------------
(* Properties                                                              *)

Cell == (Nat \ {0}) \X Nat

(* The type invariant.                                                     *)
RmdupTypeOK ==
  /\ input \in KeyInputs
  /\ headers \in [input_header : BOOLEAN, output_header : BOOLEAN]
  /\ pos \in 0 .. Len(input)
  /\ keys_buffer_alloc \in Nat /\ next_key_pos \in 0 .. keys_buffer_alloc
  /\ buffer_list \in Seq(Nat) /\ buffer_list # << >>
  /\ keys_buffer_alloc = buffer_list[Len(buffer_list)]
  /\ DOMAIN mem \subseteq Cell
  /\ DOMAIN ht \subseteq Cell
  /\ \A p \in DOMAIN ht : ht[p] \in Keys
  /\ status \in {"start", "reading", "done", "missing field"}

(* No copy of a key, its NUL included, leaves the buffer it is made in.    *)
CopiesInBounds ==
  \A c \in DOMAIN mem : c[1] \in DOMAIN buffer_list /\ c[2] < buffer_list[c[1]]

(* The strings the hash table points to stay as they were inserted: no     *)
(* later copy, of a new key or of a duplicate, touches them.               *)
KeysIntact == \A p \in DOMAIN ht : Holds(mem, p, ht[p])

(* The assertion x != y of hash_compare_strings: the pointer that the next *)
(* lookup is made with is not in the table.                                *)
LookupIsFresh == <<Len(buffer_list), next_key_pos>> \notin DOMAIN ht

(* What has been seen, as the hash table knows it.                         *)
Seen == {CKey[ht[p]] : p \in DOMAIN ht}

Abstract == INSTANCE FirstOccurrences WITH seen <- Seen, Inputs <- KeyInputs

(* The lines printed are those whose key had not occurred before.          *)
PrintsFirstOccurrences == Abstract!Spec
=============================================================================
