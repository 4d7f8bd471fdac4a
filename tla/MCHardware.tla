------------------------------ MODULE MCHardware ------------------------------
(***************************************************************************)
(* The modules about the processor and the devices, on small instances, in *)
(* one run: Descriptors, Disk, Interrupts, Ps2 and Pointer.                *)
(*                                                                         *)
(* They share no variable: each is about other steps of the same code, and *)
(* what one of them needs of another is said in its comments.  So part,    *)
(* which is chosen at first and kept, says which of them moves; the others *)
(* rest in one of their initial states.  The behaviours of this module are *)
(* those of the five, side by side.                                        *)
(***************************************************************************)
EXTENDS Descriptors, Interrupts, Disk, Pointer

-----------------------------------------------------------------------------
(* Descriptors: addresses in the kernel's image and, to have every byte of *)
(* a base used, far above it, once just below a megabyte.  The stubs are   *)
(* 40 bytes apart; in one image they lie across a multiple of 65536.       *)
TssAddresses == {74688, 196600, 3145623, 305419264 + 200}
Images == {[n \in Gates |-> first + 40 * n] : first \in {65744, 196000, 305419264}}
Stacks == {589784, 589700}
IntStackTops == {4096, 8192}

-----------------------------------------------------------------------------
(* Disk: sectors of two words on a drive with registers of one bit.        *)
ImageSectors == 0 .. 13
AskedSectors == {1, 12, 15}
Written == {<<1, 2>>, <<2, 1>>}
ZeroSector == <<0, 0>>

-----------------------------------------------------------------------------
(* Ps2: two keys, q and z; two movements, whose bytes all differ.  The     *)
(* BIOS has keyboard interrupt and translation on, the mouse on or off.    *)
KeysStruck == {16, 44}
PacketsSent == {<<8, 1, 2>>, <<9, 3, 4>>}
Configs == {65, 97}

CONSTANTS Keys, Packets, BiosConfigs, MaxKeys, MaxMoves
VARIABLES
  ps_pc, status, out, last, cq, kq, mq, config, expects, order, reporting,
  latched, ps_serving, mouse_bytes, typed, handled, moved, drawn

ps2Vars == <<ps_pc, status, out, last, cq, kq, mq, config, expects, order, reporting,
             latched, ps_serving, mouse_bytes, typed, handled, moved, drawn>>

Kbc == INSTANCE Ps2 WITH pc <- ps_pc, serving <- ps_serving

-----------------------------------------------------------------------------
(* Pointer: 2 x 2 pixels, one of them transparent, on a screen of 4 x 3,   *)
(* whose last row belongs to no line of text.  A byte has two bits: its    *)
(* half is 2, and the mouse reports no more than 1 to the right and up.    *)
OutlinePixels == {<<0, 0>>, <<0, 1>>}
InsidePixel == {<<1, 1>>}
Center == <<1, 1>>
MovesMade == {<<1, 0>>, <<-2, 1>>, <<-3, -3>>, <<1, 1>>, <<0, -1>>}
Ink == {3}

-----------------------------------------------------------------------------
ASSUME Ps2Ok == Kbc!Ps2Assumption

VARIABLE part   \* the component that moves

hwVars == <<part, vars, diskVars, picVars, ps2Vars, pointerVars>>

(* A component that rests needs one of its initial states only.            *)
OneStart ==
  /\ part # "tables" => /\ tssAt = 74688 /\ stub[0] = 65744 /\ cpu.esp = 589784
  /\ part # "ps2" => config = 65

HwInit ==
  /\ part \in {"tables", "disk", "interrupts", "ps2", "pointer"}
  /\ Init /\ DiskInit /\ PicInit /\ Kbc!Init /\ PointerInit
  /\ OneStart

TablesMove == part = "tables" /\ UNCHANGED <<part, diskVars, picVars, ps2Vars, pointerVars>>
DiskMoves == part = "disk" /\ UNCHANGED <<part, vars, picVars, ps2Vars, pointerVars>>
PicMoves == part = "interrupts" /\ UNCHANGED <<part, vars, diskVars, ps2Vars, pointerVars>>
Ps2Moves == part = "ps2" /\ UNCHANGED <<part, vars, diskVars, picVars, pointerVars>>
PointerMoves == part = "pointer" /\ UNCHANGED <<part, vars, diskVars, picVars, ps2Vars>>

HwNext ==
  \/ (TablesMove /\ Next)
  \/ (DiskMoves /\ DiskNext)
  \/ (PicMoves /\ PicNext)
  \/ (Ps2Moves /\ Kbc!Next)
  \/ (PointerMoves /\ PointerNext)

(* The fairness of the FairSpec of each module, for the one that moves:    *)
(* the processor goes on, and so do drive, keyboard and mouse.             *)
ProcessorGoesOn ==
  \/ (DiskMoves /\ Host)
  \/ (PicMoves /\ Processor)
  \/ (Ps2Moves /\ Kbc!Host)
DevicesGoOn ==
  \/ (DiskMoves /\ Drive)
  \/ (Ps2Moves /\ Kbc!Devices)

HwSpec ==
  HwInit /\ [][HwNext]_hwVars /\ WF_hwVars(ProcessorGoesOn) /\ WF_hwVars(DevicesGoOn)

-----------------------------------------------------------------------------
(* No component leaves its types: no counter its width, no register its    *)
(* bits, no pointer the screen.                                            *)
HardwareTypes == TypeOK /\ DiskTypeOK /\ PicTypeOK /\ Kbc!TypeOK /\ PointerTypeOK

(* Ps2: each key and each movement gets to its own handler, once, complete *)
(* and in order.                                                           *)
StreamsWhole == Kbc!ImplementsStreams
=============================================================================
