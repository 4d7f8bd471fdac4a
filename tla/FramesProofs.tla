---------------------------- MODULE FramesProofs ----------------------------
(***************************************************************************)
(* Theorems about Frames for any word width, table length and number of    *)
(* reserved frames.                                                        *)
(***************************************************************************)
EXTENDS Frames, TLAPS

LEMMA TimesMonotone ==
  ASSUME NEW q \in Nat, NEW n \in Nat, NEW w \in Nat, n <= q
  PROVE  n * w <= q * w
<1>1. PICK d \in Nat : q = n + d
  <2>1. q - n \in Nat /\ q = n + (q - n)
    OBVIOUS
  <2> QED BY <2>1
<1>2. q * w = n * w + d * w
  BY <1>1
<1>3. d * w \in Nat /\ n * w \in Nat
  OBVIOUS
<1> QED BY <1>2, <1>3

(* A frame number is its word and its bit. *)
LEMMA WordAndBit ==
  ASSUME NEW bit \in FrameIds
  PROVE  /\ bit \div WordBits \in Words
         /\ bit % WordBits \in Bits
         /\ bit = (bit \div WordBits) * WordBits + (bit % WordBits)
<1>1. /\ WordBits \in Nat /\ WordBits > 0 /\ NWords \in Nat /\ NWords > 0
      /\ bit \in Nat /\ bit < NWords * WordBits
  BY FramesAssumption DEF FrameIds, NFrames
<1>2. /\ bit % WordBits \in Nat /\ bit % WordBits < WordBits
      /\ bit \div WordBits \in Nat
  BY <1>1
<1>3. bit = (bit \div WordBits) * WordBits + (bit % WordBits)
  BY <1>1
<1>4. bit \div WordBits < NWords
  <2> DEFINE q == bit \div WordBits
  <2>1. q \in Nat /\ q * WordBits <= bit
    BY <1>1, <1>2, <1>3
  <2>2. NWords <= q => NWords * WordBits <= q * WordBits
    BY <1>1, <2>1, TimesMonotone
  <2>3. q * WordBits \in Nat /\ NWords * WordBits \in Nat
    BY <1>1, <2>1
  <2> HIDE DEF q
  <2>4. q < NWords
    BY <1>1, <2>1, <2>2, <2>3
  <2> QED BY <2>4 DEF q
<1> QED BY <1>1, <1>2, <1>3, <1>4 DEF Words, Bits

(* Two frames with the same word and bit are the same frame. *)
LEMMA SameWordAndBit ==
  ASSUME NEW a \in FrameIds, NEW b \in FrameIds,
         a \div WordBits = b \div WordBits, a % WordBits = b % WordBits
  PROVE  a = b
BY WordAndBit

(* Setting or clearing the bit of a frame changes the test of no other. *)
LEMMA SetBitEffect ==
  ASSUME NEW bit \in FrameIds, memory_bitmap \in [Words -> SUBSET Bits],
         memory_bitmap' = SetBit(bit)
  PROVE  /\ memory_bitmap' \in [Words -> SUBSET Bits]
         /\ \A b \in FrameIds : TestBit(b)' <=> (b = bit \/ TestBit(b))
<1>1. bit \div WordBits \in Words /\ bit % WordBits \in Bits
  BY WordAndBit
<1>2. memory_bitmap' \in [Words -> SUBSET Bits]
  BY <1>1 DEF SetBit
<1>3. ASSUME NEW b \in FrameIds PROVE TestBit(b)' <=> (b = bit \/ TestBit(b))
  <2>1. b \div WordBits \in Words
    BY WordAndBit
  <2>2. b \div WordBits = bit \div WordBits /\ b % WordBits = bit % WordBits => b = bit
    BY SameWordAndBit
  <2> QED BY <1>1, <2>1, <2>2 DEF SetBit, TestBit
<1> QED BY <1>2, <1>3

LEMMA ClearBitEffect ==
  ASSUME NEW bit \in FrameIds, memory_bitmap \in [Words -> SUBSET Bits],
         memory_bitmap' = ClearBit(bit)
  PROVE  /\ memory_bitmap' \in [Words -> SUBSET Bits]
         /\ \A b \in FrameIds : TestBit(b)' <=> (b # bit /\ TestBit(b))
<1>1. bit \div WordBits \in Words /\ bit % WordBits \in Bits
  BY WordAndBit
<1>2. memory_bitmap' \in [Words -> SUBSET Bits]
  BY <1>1 DEF ClearBit
<1>3. ASSUME NEW b \in FrameIds PROVE TestBit(b)' <=> (b # bit /\ TestBit(b))
  <2>1. b \div WordBits \in Words
    BY WordAndBit
  <2>2. b \div WordBits = bit \div WordBits /\ b % WordBits = bit % WordBits => b = bit
    BY SameWordAndBit
  <2> QED BY <1>1, <2>1, <2>2 DEF ClearBit, TestBit
<1> QED BY <1>2, <1>3

-----------------------------------------------------------------------------
FrameInv == TypeOK /\ BitmapExact

LEMMA FrameInit == Init => FrameInv
<1> SUFFICES ASSUME Init PROVE FrameInv
  OBVIOUS
<1>1. 0 \in FrameIds /\ 0 * FrameSize = 0
  <2>1. NFrames \in Nat /\ NFrames > 0
    BY FramesAssumption DEF NFrames
  <2> QED BY <2>1 DEF FrameIds, FrameSize
<1>2. TypeOK
  BY <1>1 DEF Init, TypeOK, InitBitmap
<1>3. ASSUME NEW bit \in FrameIds PROVE TestBit(bit) <=> bit \in Reserved
  <2>1. /\ bit \div WordBits \in Words /\ bit % WordBits \in Bits
        /\ bit = (bit \div WordBits) * WordBits + (bit % WordBits)
    BY WordAndBit
  <2>2. TestBit(bit) <=> bit < NReserved
    BY <2>1 DEF Init, InitBitmap, TestBit
  <2> QED BY <2>2, FramesAssumption DEF Reserved, FrameIds
<1> QED BY <1>2, <1>3 DEF FrameInv, BitmapExact, Init

LEMMA FrameAlloc == ASSUME FrameInv, Alloc PROVE FrameInv'
<1>1. CASE \A bit \in FrameIds : TestBit(bit)
  <2>1. UNCHANGED <<memory_bitmap, held>> /\ ptr' = 0
    BY <1>1 DEF Alloc, AllocFrame, FirstClear
  <2>2. \A bit \in FrameIds : TestBit(bit)' <=> TestBit(bit)
    BY <2>1 DEF TestBit
  <2>3. 0 \in FrameIds /\ 0 * FrameSize = 0
    <3>1. NFrames \in Nat /\ NFrames > 0
      BY FramesAssumption DEF NFrames
    <3> QED BY <3>1 DEF FrameIds, FrameSize
  <2> QED BY <2>1, <2>2, <2>3 DEF FrameInv, TypeOK, BitmapExact
<1>2. ASSUME NEW bit \in FrameIds, FirstClear(bit), memory_bitmap' = SetBit(bit),
             held' = held \cup {bit}, ptr' = bit * FrameSize
      PROVE FrameInv'
  <2>1. /\ memory_bitmap' \in [Words -> SUBSET Bits]
        /\ \A b \in FrameIds : TestBit(b)' <=> (b = bit \/ TestBit(b))
    BY <1>2, SetBitEffect DEF FrameInv, TypeOK
  <2>2. bit \notin Reserved
    BY <1>2 DEF FirstClear, FrameInv, BitmapExact
  <2>3. TypeOK'
    BY <1>2, <2>1 DEF FrameInv, TypeOK
  <2>4. BitmapExact'
    BY <1>2, <2>1, <2>2 DEF FrameInv, BitmapExact
  <2> QED BY <2>3, <2>4 DEF FrameInv
<1> QED BY <1>1, <1>2 DEF Alloc, AllocFrame

LEMMA FrameFree == ASSUME FrameInv, NEW bit \in held, FreeFrame(bit) PROVE FrameInv'
<1>1. bit \in FrameIds /\ bit \notin Reserved
  BY DEF FrameInv, TypeOK, BitmapExact
<1>2. /\ memory_bitmap' \in [Words -> SUBSET Bits]
      /\ \A b \in FrameIds : TestBit(b)' <=> (b # bit /\ TestBit(b))
  BY <1>1, ClearBitEffect DEF FreeFrame, FrameInv, TypeOK
<1>3. TypeOK'
  BY <1>2 DEF FreeFrame, FrameInv, TypeOK
<1>4. BitmapExact'
  BY <1>1, <1>2 DEF FreeFrame, FrameInv, BitmapExact
<1> QED BY <1>3, <1>4 DEF FrameInv

LEMMA FrameStep == ASSUME FrameInv, [Next]_frameVars PROVE FrameInv'
<1>1. CASE Alloc
  BY <1>1, FrameAlloc
<1>2. CASE Free
  BY <1>2, FrameFree DEF Free
<1>3. CASE UNCHANGED frameVars
  BY <1>3 DEF frameVars, FrameInv, TypeOK, BitmapExact, TestBit
<1> QED BY <1>1, <1>2, <1>3 DEF Next

(* The bitmap says exactly which frames are reserved or granted. *)
THEOREM BitmapAlwaysExact == Spec => []BitmapExact
<1>1. Init => FrameInv
  BY FrameInit
<1>2. FrameInv /\ [Next]_frameVars => FrameInv'
  BY FrameStep
<1>3. FrameInv => BitmapExact
  BY DEF FrameInv
<1> QED BY <1>1, <1>2, <1>3, PTL DEF Spec

-----------------------------------------------------------------------------
(* The first-fit bitmap implements the abstract set of free frames. *)

LEMMA GrantedAddress ==
  ASSUME NEW bit \in FrameIds, bit \notin Reserved
  PROVE  bit * FrameSize # 0 /\ (bit * FrameSize) \div FrameSize = bit
BY FramesAssumption DEF FrameIds, Reserved, FrameSize

LEMMA RefineInit == Init => FS!Init
<1> SUFFICES ASSUME Init PROVE FS!Init
  OBVIOUS
<1>1. BitmapExact
  BY FrameInit DEF FrameInv
<1> QED BY <1>1 DEF Init, FS!Init, FreeIds, BitmapExact

LEMMA RefineStep == ASSUME FrameInv, [Next]_frameVars PROVE [FS!Next]_(FS!vars)
<1>1. CASE Alloc /\ \A bit \in FrameIds : TestBit(bit)
  <2>1. UNCHANGED <<memory_bitmap, held>> /\ ptr' = 0
    BY <1>1 DEF Alloc, AllocFrame, FirstClear
  <2>2. FreeIds = {} /\ FreeIds' = FreeIds
    BY <1>1, <2>1 DEF FreeIds, TestBit
  <2>3. FS!Refuse
    BY <2>1, <2>2 DEF FS!Refuse
  <2> QED BY <2>3 DEF FS!Next
<1>2. ASSUME NEW bit \in FrameIds, FirstClear(bit), memory_bitmap' = SetBit(bit),
             held' = held \cup {bit}, ptr' = bit * FrameSize
      PROVE FS!Next
  <2>1. \A b \in FrameIds : TestBit(b)' <=> (b = bit \/ TestBit(b))
    BY <1>2, SetBitEffect DEF FrameInv, TypeOK
  <2>2. bit \in FreeIds /\ FreeIds' = FreeIds \ {bit}
    BY <1>2, <2>1 DEF FreeIds, FirstClear
  <2>3. bit \notin Reserved
    BY <1>2 DEF FirstClear, FrameInv, BitmapExact
  <2>4. ptr' # 0 /\ ptr' \div FrameSize = bit
    BY <1>2, <2>3, GrantedAddress
  <2>5. FS!Grant(bit)
    BY <1>2, <2>2, <2>4 DEF FS!Grant
  <2> QED BY <2>5 DEF FS!Next
<1>3. ASSUME NEW bit \in held, FreeFrame(bit) PROVE FS!Next
  <2>1. bit \in FrameIds
    BY DEF FrameInv, TypeOK
  <2>2. \A b \in FrameIds : TestBit(b)' <=> (b # bit /\ TestBit(b))
    BY <1>3, <2>1, ClearBitEffect DEF FreeFrame, FrameInv, TypeOK
  <2>3. FreeIds' = FreeIds \cup {bit}
    BY <2>1, <2>2 DEF FreeIds
  <2>4. FS!GiveBack(bit)
    BY <1>3, <2>3 DEF FreeFrame, FS!GiveBack
  <2> QED BY <2>1, <2>4 DEF FS!Next
<1>4. CASE UNCHANGED frameVars
  BY <1>4 DEF frameVars, FS!vars, FreeIds, TestBit
<1> QED BY <1>1, <1>2, <1>3, <1>4 DEF Next, Alloc, AllocFrame, Free

(* Every behaviour of the bitmap allocator is one of the abstract one: in  *)
(* particular address 0 is returned only when no frame is left.            *)
THEOREM ImplementsFrames == Spec => ImplementsFrameSet
<1>1. Init => FrameInv /\ FS!Init
  BY FrameInit, RefineInit
<1>2. FrameInv /\ [Next]_frameVars => FrameInv'
  BY FrameStep
<1>3. FrameInv /\ [Next]_frameVars => [FS!Next]_(FS!vars)
  BY RefineStep
<1> QED BY <1>1, <1>2, <1>3, PTL DEF Spec, ImplementsFrameSet, FS!Spec
=============================================================================
