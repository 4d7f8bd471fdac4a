----------------------------- MODULE SectorStore -----------------------------
(***************************************************************************)
(* What drivers/disk.c promises to the file system: sectors that are read  *)
(* and written whole, one call at a time, and of which a cut of power      *)
(* leaves the last content or one before it, whole too.  Disk is shown to  *)
(* implement it.                                                           *)
(***************************************************************************)
CONSTANTS
  Image,     \* the numbers of the sectors that exist
  Asked,     \* the numbers callers ask for
  Zeros,     \* what is in every sector at first
  Contents,  \* what callers write
  None

VARIABLES
  store,  \* what each sector holds
  safe,   \* what each would hold after a cut of power
  call,   \* the call in progress, or None
  reply   \* what the last call read, or None

vars == <<store, safe, call, reply>>

Calls == [op : {"read", "write"}, lba : Asked, data : Contents \cup {None}, done : BOOLEAN]

Init == store = [l \in Image |-> Zeros] /\ safe = store /\ call = None /\ reply = None

Begin(op, l, d) ==
  /\ call = None
  /\ call' = [op |-> op, lba |-> l, data |-> d, done |-> FALSE]
  /\ reply' = None
  /\ UNCHANGED <<store, safe>>

Put ==
  /\ call # None /\ call.op = "write" /\ ~call.done
  /\ store' = [l \in Image |-> IF l = call.lba THEN call.data ELSE store[l]]
  /\ call' = [call EXCEPT !.done = TRUE]
  /\ UNCHANGED <<safe, reply>>

End ==
  /\ call # None /\ call' = None
  /\ \/ /\ call.op = "read" /\ call.lba \in Image
        /\ reply' = store[call.lba]
     \/ call.op = "write" /\ call.done /\ UNCHANGED reply
  /\ UNCHANGED <<store, safe>>

Secure(ls) ==
  /\ safe' = [l \in Image |-> IF l \in ls THEN store[l] ELSE safe[l]]
  /\ UNCHANGED <<store, call, reply>>

PowerCut == store' = safe /\ call' = None /\ reply' = None /\ UNCHANGED safe

Next ==
  \/ \E l \in Asked : Begin("read", l, None) \/ \E d \in Contents : Begin("write", l, d)
  \/ Put \/ End \/ PowerCut
  \/ Secure(Image) \/ \E l \in Image : Secure({l})

Spec == Init /\ [][Next]_vars
=============================================================================
