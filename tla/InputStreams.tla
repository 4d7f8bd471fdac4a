----------------------------- MODULE InputStreams -----------------------------
(***************************************************************************)
(* What the keyboard and the mouse promise: each key that is struck and    *)
(* each movement is handled once, complete and in order.                   *)
(***************************************************************************)
EXTENDS Sequences, Naturals

CONSTANTS Keys, Packets
VARIABLES typed, handled, moved, drawn

Strike == typed' \in {Append(typed, k) : k \in Keys} /\ UNCHANGED <<handled, moved, drawn>>
Move == moved' \in {Append(moved, p) : p \in Packets} /\ UNCHANGED <<typed, handled, drawn>>

HandleKey ==
  /\ Len(handled) < Len(typed)
  /\ handled' = Append(handled, typed[Len(handled) + 1])
  /\ UNCHANGED <<typed, moved, drawn>>

DrawPacket ==
  /\ Len(drawn) < Len(moved)
  /\ drawn' = Append(drawn, moved[Len(drawn) + 1])
  /\ UNCHANGED <<typed, handled, moved>>

Init == typed = <<>> /\ handled = <<>> /\ moved = <<>> /\ drawn = <<>>
Next == Strike \/ Move \/ HandleKey \/ DrawPacket
vars == <<typed, handled, moved, drawn>>

(* What was struck and moved does not wait for ever.                       *)
Safe == Init /\ [][Next]_vars
Spec == Safe /\ WF_vars(HandleKey) /\ WF_vars(DrawPacket)
=============================================================================
