------------------------------ MODULE FrameSet ------------------------------
(***************************************************************************)
(* What a page frame allocator promises: a set of free frames from which   *)
(* any may be granted, and a refusal only when none is left.  Frames is    *)
(* shown to implement it.                                                  *)
(***************************************************************************)
CONSTANTS Frames, Reserved

VARIABLES
  free,   \* the frames that can be granted
  held,   \* the frames granted and not given back
  reply   \* the last answer: {f} or {}, a refusal

vars == <<free, held, reply>>

Init == free = Frames \ Reserved /\ held = {} /\ reply = {}

Grant(f) == /\ f \in free
            /\ free' = free \ {f} /\ held' = held \cup {f} /\ reply' = {f}

Refuse == free = {} /\ reply' = {} /\ UNCHANGED <<free, held>>

GiveBack(f) == /\ f \in held
               /\ free' = free \cup {f} /\ held' = held \ {f} /\ reply' = reply

Next == (\E f \in Frames : Grant(f) \/ GiveBack(f)) \/ Refuse

Spec == Init /\ [][Next]_vars
=============================================================================
