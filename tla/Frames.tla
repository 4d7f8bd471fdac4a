------------------------------- MODULE Frames -------------------------------
(***************************************************************************)
(* drivers/pmm.c: the physical memory manager.  One bit per page frame in  *)
(* an array of words; allocation takes the first clear bit.                *)
(*                                                                         *)
(* held is not in the code: it is what the callers have been granted and   *)
(* not given back.  Nothing in the kernel calls pmm_free_frame; FreeFrame  *)
(* is here for the frames a caller holds.                                  *)
(***************************************************************************)
EXTENDS Naturals

CONSTANTS
  WordBits,   \* bits of an unsigned int: 32
  NWords,     \* length of memory_bitmap: PMM_BLOCK / 32 = 128
  NReserved   \* frames init_pmm takes, those of the first megabyte: 256

ASSUME FramesAssumption ==
  /\ WordBits \in Nat \ {0} /\ NWords \in Nat \ {0}
  /\ NReserved \in Nat \ {0} /\ NReserved <= NWords * WordBits

FrameSize == 4096                  \* PMM_BLOCK_SIZE
NFrames == NWords * WordBits       \* PMM_BLOCK
FrameIds == 0 .. NFrames - 1
Words == 0 .. NWords - 1
Bits == 0 .. WordBits - 1

VARIABLES
  memory_bitmap,  \* for each word the set of its bits that are 1
  held,           \* frames granted to callers
  ptr             \* what the last pmm_alloc_frame returned: 0 is a refusal

frameVars == <<memory_bitmap, held, ptr>>

(* The bit set in the word of the next frame. *)
SetBit_NextWord(bit) ==
  [memory_bitmap EXCEPT ![((bit + 1) \div WordBits) % NWords] = @ \cup {bit % WordBits}]

SetBit(bit) == [memory_bitmap EXCEPT ![bit \div WordBits] = @ \cup {bit % WordBits}]
ClearBit(bit) == [memory_bitmap EXCEPT ![bit \div WordBits] = @ \ {bit % WordBits}]
TestBit(bit) == bit % WordBits \in memory_bitmap[bit \div WordBits]

(* The loop that starts at 1: frame 0, and with it address 0, can be       *)
(* granted.                                                                *)
InitBitmap_FromOne ==
  [w \in Words |-> {b \in Bits : w * WordBits + b \in 1 .. NReserved - 1}]

(* init_pmm: all bits cleared, then those of the first frames set. *)
InitBitmap == [w \in Words |-> {b \in Bits : w * WordBits + b < NReserved}]

FirstClear(bit) ==
  /\ bit \in FrameIds /\ ~TestBit(bit)
  /\ \A b \in FrameIds : b < bit => TestBit(b)

(* pmm_alloc_frame returning address p. *)
AllocFrame(p) ==
  \/ \E bit \in FrameIds :
       /\ FirstClear(bit)
       /\ memory_bitmap' = SetBit(bit)
       /\ held' = held \cup {bit}
       /\ p = bit * FrameSize
  \/ /\ \A bit \in FrameIds : TestBit(bit)
     /\ UNCHANGED <<memory_bitmap, held>>
     /\ p = 0

(* pmm_free_frame of the address of a frame. *)
FreeFrame(bit) ==
  /\ memory_bitmap' = ClearBit(bit)
  /\ held' = held \ {bit}
  /\ ptr' = ptr

Init ==
  /\ memory_bitmap = InitBitmap
  /\ held = {}
  /\ ptr = 0

Alloc == AllocFrame(ptr')
Free == \E bit \in held : FreeFrame(bit)

Next == Alloc \/ Free

Spec == Init /\ [][Next]_frameVars

-----------------------------------------------------------------------------
TypeOK ==
  /\ memory_bitmap \in [Words -> SUBSET Bits]
  /\ held \in SUBSET FrameIds
  /\ ptr \in {bit * FrameSize : bit \in FrameIds}

Reserved == 0 .. NReserved - 1

(* A bit is set exactly when its frame is reserved or granted: no frame is *)
(* granted twice, none is lost, and the frames of the kernel, page 0 among *)
(* them, are never granted.                                                *)
BitmapExact ==
  /\ \A bit \in FrameIds : TestBit(bit) <=> bit \in Reserved \cup held
  /\ held \cap Reserved = {}

(* The allocator promises what FrameSet does; in particular its 0 always   *)
(* means that no frame is left, as frame 0 is never granted.               *)
FreeIds == {bit \in FrameIds : ~TestBit(bit)}
FS == INSTANCE FrameSet
  WITH Frames <- FrameIds, free <- FreeIds,
       reply <- IF ptr = 0 THEN {} ELSE {ptr \div FrameSize}
ImplementsFrameSet == FS!Spec
=============================================================================
