------------------------------ MODULE ByteFile ------------------------------
(***************************************************************************)
(* What a program expects of regular files (kernel/scall1.c): a file is a  *)
(* row of bytes with a length, and an open file has a position in it.  A   *)
(* write stores bytes there, or, with an error, a first part of them.      *)
(* What was never written reads as 0.                                      *)
(***************************************************************************)
EXTENDS Integers, Sequences

CONSTANTS
  Files, Ofts, Bytes,
  Size,      \* a file has positions 0 .. Size - 1
  MaxCount   \* the most bytes one call asks for

VARIABLES
  bytes,     \* by file and position
  length,    \* by file
  file,      \* the file that is open, by open file
  pos,       \* the position, by open file
  answer     \* of the last read or write

vars == <<bytes, length, file, pos, answer>>

Positions == 0 .. Size - 1
Empty == [p \in Positions |-> 0]
Shorter(a, b) == IF a < b THEN a ELSE b
Answer(n, read, error) == [asked |-> n, read |-> read, error |-> error]
Nothing == Answer(0, <<>>, FALSE)

Init ==
  /\ bytes = [f \in Files |-> Empty]
  /\ length = [f \in Files |-> 0]
  /\ file \in [Ofts -> Files]
  /\ pos = [o \in Ofts |-> 0]
  /\ answer = Nothing

(* At the end of the file there is nothing to read. *)
Read(o, n) ==
  LET f == file[o]
      count == Shorter(n, length[f] - pos[o])
  IN /\ pos[o] <= length[f]
     /\ answer' = Answer(n, [i \in 1 .. count |-> bytes[f][pos[o] + i - 1]], FALSE)
     /\ pos' = [pos EXCEPT ![o] = @ + count]
     /\ UNCHANGED <<bytes, length, file>>

(* Nothing is said of what a read past the end brings. *)
ReadPast(o) ==
  /\ pos[o] > length[file[o]]
  /\ \A p \in Ofts \ {o} : pos'[p] = pos[p]
  /\ UNCHANGED <<bytes, length, file>>

Write(o, n, done, b) ==
  LET f == file[o]
      end == pos[o] + done
  IN /\ bytes' = [bytes EXCEPT ![f] =
                    [p \in Positions |-> IF p \in pos[o] .. end - 1 THEN b ELSE @[p]]]
     /\ length' = [length EXCEPT ![f] = IF end > @ THEN end ELSE @]
     /\ pos' = [pos EXCEPT ![o] = end]
     /\ answer' = Answer(n, <<>>, done < n)
     /\ UNCHANGED file

Truncate(f) ==
  /\ bytes' = [bytes EXCEPT ![f] = Empty]
  /\ length' = [length EXCEPT ![f] = 0]
  /\ pos' = [o \in Ofts |-> IF file[o] = f THEN 0 ELSE pos[o]]
  /\ answer' = Nothing
  /\ UNCHANGED file

(* Opening and seeking. *)
Move(o) ==
  /\ \A p \in Ofts \ {o} : file'[p] = file[p] /\ pos'[p] = pos[p]
  /\ answer' = Nothing
  /\ UNCHANGED <<bytes, length>>

Next ==
  \/ \E o \in Ofts :
       \/ Move(o) \/ ReadPast(o)
       \/ \E n \in 0 .. MaxCount :
            \/ Read(o, n)
            \/ \E done \in 0 .. n, b \in Bytes : Write(o, n, done, b)
  \/ \E f \in Files : Truncate(f)

Spec == Init /\ [][Next]_vars

=============================================================================
