------------------------------ MODULE LineEditor ------------------------------
(***************************************************************************)
(* What the keyboard promises the shell: a line of limited length that     *)
(* grows and shrinks at its end, that Enter submits whole, that can be     *)
(* completed to a command it is the beginning of, or replaced by the line  *)
(* submitted last.                                                         *)
(***************************************************************************)
EXTENDS Sequences, Naturals

CONSTANTS
  Char,      \* characters that can be typed
  Limit,     \* longest line
  Words      \* what a line can be completed to

VARIABLES
  line,      \* what was typed
  last       \* the last line submitted that was not empty

Type == \E c \in Char : Len(line) < Limit /\ line' = Append(line, c) /\ UNCHANGED last

Erase ==
  /\ line # <<>>
  /\ line' = SubSeq(line, 1, Len(line) - 1)
  /\ UNCHANGED last

Complete ==
  \E w \in Words :
    /\ line # <<>> /\ Len(line) <= Len(w)
    /\ line = SubSeq(w, 1, Len(line))
    /\ line' = w
    /\ UNCHANGED last

Submit ==
  /\ line' = <<>>
  /\ last' = IF line = <<>> THEN last ELSE line

Recall == last # <<>> /\ line' = last /\ UNCHANGED last

Init == line = <<>> /\ last = <<>>
Next == Type \/ Erase \/ Complete \/ Submit \/ Recall

Spec == Init /\ [][Next]_<<line, last>>
=============================================================================
