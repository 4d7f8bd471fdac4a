----------------------------------- MODULE Ps2 -----------------------------------
(***************************************************************************)
(* The keyboard and the mouse behind one controller with one data port:    *)
(* init_mouse step by step with interrupts off, then the two interrupt     *)
(* handlers, which both read port 0x60.                                    *)
(*                                                                         *)
(* The controller is the PC's 8042 as the emulator of the Makefile makes   *)
(* it: one output byte at a time, marked in the status if it is the        *)
(* mouse's; its own answers and the keyboard's bytes raise line 1, the     *)
(* mouse's line 12; a line that was raised stays latched even if the byte  *)
(* is fetched by polling; and a read with no byte there gives the one      *)
(* before.  It takes what is written to it at once.                        *)
(***************************************************************************)
EXTENDS Integers, Sequences

CONSTANTS
  Keys,         \* scancodes struck, of those the handler does something with
  Packets,      \* what the mouse sends: three bytes, the first with its mark
  BiosConfigs,  \* what the BIOS may leave in the configuration byte
  MaxKeys, MaxMoves,
  None

VARIABLES
  pc, status,                      \* main in init_mouse, and its local
  out, last, cq, kq, mq,           \* output byte, the one before; what waits behind it
  config, expects,                 \* configuration byte; what a byte to 0x60 is for
  order, reporting,                \* the mouse: a command not answered yet, enabled or not
  latched, serving,                \* lines latched; the line whose handler runs
  mouse_bytes,                     \* mouse_bytes up to mouse_cycle
  typed, handled, moved, drawn     \* what was done, and what the handlers made of it

hostVars == <<pc, status>>
ctlVars == <<out, last, cq, kq, mq, config, expects>>
mouseVars == <<order, reporting>>
cpuVars == <<latched, serving, mouse_bytes>>
streamVars == <<typed, handled, moved, drawn>>
vars == <<hostVars, ctlVars, mouseVars, cpuVars, streamVars>>

KbdIrq == 1  AuxIrq == 2  KbdOff == 16  AuxOff == 32   \* bits of the configuration
Marked == 8                                            \* bit of a packet's first byte
Ack == 250                                             \* 0xFA
On(c, b) == (c \div b) % 2 = 1                         \* b: 1, 2, 4, ...
Clear(c, b) == IF On(c, b) THEN c - b ELSE c
SetBit(c, b) == IF On(c, b) THEN c ELSE c + b

(* Scancodes that keyboard_handler does something with.                    *)
Noticed(v) == v \in 0 .. 58 \cup {72, 170, 182}

Ps2Assumption ==
  /\ Keys \subseteq 0 .. 255 /\ \A k \in Keys : Noticed(k)
  /\ Packets \subseteq [1 .. 3 -> 0 .. 255] /\ \A p \in Packets : On(p[1], Marked)
  /\ BiosConfigs \subseteq 0 .. 255
  /\ MaxKeys \in Nat /\ MaxMoves \in Nat
  /\ None \notin Nat /\ None \notin [src : {"controller", "keyboard", "mouse"}, byte : 0 .. 255]

(* The line a byte in the output buffer raises.                            *)
LineOf(o, c) ==
  IF o = None THEN {}
  ELSE IF o.src = "mouse" THEN IF On(c, AuxIrq) THEN {12} ELSE {}
  ELSE IF On(c, KbdIrq) /\ ~On(c, KbdOff) THEN {1} ELSE {}

-----------------------------------------------------------------------------
(* The controller puts the next byte forward: its own, the keyboard's, the *)
(* mouse's.                                                                *)
Forward(src, q) ==
  /\ out = None /\ q # <<>>
  /\ out' = [src |-> src, byte |-> Head(q)] /\ last' = Head(q)
  /\ latched' = latched \cup LineOf(out', config)
  /\ UNCHANGED <<hostVars, config, expects, mouseVars, serving, mouse_bytes, streamVars>>
ForwardAnswer == Forward("controller", cq) /\ cq' = Tail(cq) /\ UNCHANGED <<kq, mq>>
ForwardKey ==
  /\ cq = <<>> /\ ~On(config, KbdOff)
  /\ Forward("keyboard", kq) /\ kq' = Tail(kq) /\ UNCHANGED <<cq, mq>>
ForwardMouse ==
  /\ cq = <<>> /\ (kq = <<>> \/ On(config, KbdOff)) /\ ~On(config, AuxOff)
  /\ Forward("mouse", mq) /\ mq' = Tail(mq) /\ UNCHANGED <<cq, kq>>

(* The mouse acknowledges a command and carries it out.                    *)
MouseAnswers ==
  /\ order # None /\ order' = None
  /\ reporting' = (order = 244)
  /\ mq' = Append(mq, Ack)
  /\ UNCHANGED <<hostVars, out, last, cq, kq, config, expects, cpuVars, streamVars>>

(* The kernel is up when main runs and nothing is left over from before.   *)
Up == pc = "main" /\ latched = {} /\ serving = None

Strike(k) ==
  /\ Up \/ typed # <<>> \/ moved # <<>>
  /\ Len(typed) < MaxKeys
  /\ kq' = Append(kq, k) /\ typed' = Append(typed, k)
  /\ UNCHANGED <<hostVars, out, last, cq, mq, config, expects, mouseVars, cpuVars, handled, moved, drawn>>

Move(p) ==
  /\ reporting /\ order = None
  /\ Up \/ typed # <<>> \/ moved # <<>>
  /\ Len(moved) < MaxMoves
  /\ mq' = mq \o p /\ moved' = Append(moved, p)
  /\ UNCHANGED <<hostVars, out, last, cq, kq, config, expects, mouseVars, cpuVars, typed, handled, drawn>>

-----------------------------------------------------------------------------
(* init_mouse.  What it writes the controller takes at once; before it     *)
(* reads it waits for a byte, whosever it is.  It would give up after      *)
(* 100000 polls, which takes longer than the devices do.                   *)
EnableAux ==
  /\ pc = "enable" /\ pc' = "ask"
  /\ config' = Clear(config, AuxOff)
  /\ UNCHANGED <<status, out, last, cq, kq, mq, expects, mouseVars, cpuVars, streamVars>>

AskConfig ==
  /\ pc = "ask" /\ pc' = "config"
  /\ cq' = Append(cq, config)
  /\ UNCHANGED <<status, out, last, kq, mq, config, expects, mouseVars, cpuVars, streamVars>>

Waited == out # None
Fetch == out' = None /\ UNCHANGED <<last, cq, kq, mq>>

(* The mouse's interrupt is not asked for. *)
ReadConfig_Unchanged ==
  /\ pc = "config" /\ Waited /\ pc' = "tell"
  /\ status' = last
  /\ Fetch
  /\ UNCHANGED <<config, expects, mouseVars, cpuVars, streamVars>>
ReadConfig ==
  /\ pc = "config" /\ Waited /\ pc' = "tell"
  /\ status' = SetBit(last, AuxIrq)
  /\ Fetch
  /\ UNCHANGED <<config, expects, mouseVars, cpuVars, streamVars>>

(* 0x60 to 0x64, then the byte itself.                                     *)
TellConfig ==
  /\ pc = "tell" /\ pc' = "write"
  /\ expects' = "config"
  /\ UNCHANGED <<status, out, last, cq, kq, mq, config, mouseVars, cpuVars, streamVars>>
WriteConfig ==
  /\ pc = "write" /\ pc' = "defaults"
  /\ expects = "config" /\ expects' = "none"
  /\ config' = status /\ latched' = latched \cup LineOf(out, status)
  /\ UNCHANGED <<status, out, last, cq, kq, mq, mouseVars, serving, mouse_bytes, streamVars>>

(* mouse_write: 0xD4 to 0x64, then the command for the mouse.              *)
MouseWrite(from, to, command) ==
  /\ pc = from /\ pc' = to
  /\ order' = command
  /\ UNCHANGED <<status, ctlVars, reporting, cpuVars, streamVars>>
TakeAck(from, to) ==
  /\ pc = from /\ Waited /\ pc' = to
  /\ Fetch
  /\ UNCHANGED <<status, config, expects, mouseVars, cpuVars, streamVars>>

InitMouse ==
  \/ EnableAux \/ AskConfig \/ ReadConfig \/ TellConfig \/ WriteConfig
  \/ MouseWrite("defaults", "ack1", 246) \/ TakeAck("ack1", "go")
  \/ MouseWrite("go", "ack2", 244) \/ TakeAck("ack2", "sti")

Sti ==
  /\ pc = "sti" /\ pc' = "main"
  /\ UNCHANGED <<status, ctlVars, mouseVars, cpuVars, streamVars>>

-----------------------------------------------------------------------------
(* An interrupt is taken some time before its handler reads the port.      *)
Accept(l) ==
  /\ pc = "main" /\ serving = None /\ l \in latched
  /\ 1 \in latched => l = 1
  /\ serving' = l /\ latched' = latched \ {l}
  /\ UNCHANGED <<hostVars, ctlVars, mouseVars, mouse_bytes, streamVars>>

(* The keyboard's handler does not ask whose byte it is, nor whether there *)
(* is one.                                                                 *)
keyboard_handler ==
  /\ serving = 1 /\ serving' = None
  /\ Fetch
  /\ handled' = IF Noticed(last) THEN Append(handled, last) ELSE handled
  /\ UNCHANGED <<hostVars, config, expects, mouseVars, latched, mouse_bytes, typed, moved, drawn>>

(* The third byte completes a packet; one without its mark is dropped.     *)
Collect ==
  LET bytes == Append(mouse_bytes, last)
  IN  IF Len(bytes) < 3 THEN mouse_bytes' = bytes /\ UNCHANGED drawn
      ELSE /\ mouse_bytes' = <<>>
           /\ drawn' = IF On(bytes[1], Marked) THEN Append(drawn, bytes) ELSE drawn

mouse_handler ==
  /\ serving = 12 /\ serving' = None
  /\ IF out # None /\ out.src = "mouse" THEN Fetch /\ Collect
     ELSE UNCHANGED <<out, last, cq, kq, mq, mouse_bytes, drawn>>
  /\ UNCHANGED <<hostVars, config, expects, mouseVars, latched, typed, handled, moved>>

Init ==
  /\ pc = "enable" /\ status = 0
  /\ out = None /\ last = 0 /\ cq = <<>> /\ kq = <<>> /\ mq = <<>>
  /\ config \in BiosConfigs /\ expects = "none"
  /\ order = None /\ reporting = FALSE
  /\ latched = {} /\ serving = None /\ mouse_bytes = <<>>
  /\ typed = <<>> /\ handled = <<>> /\ moved = <<>> /\ drawn = <<>>

Devices == ForwardAnswer \/ ForwardKey \/ ForwardMouse \/ MouseAnswers
Host == InitMouse \/ Sti \/ \E l \in {1, 12} : Accept(l) \/ keyboard_handler \/ mouse_handler

Next ==
  \/ Devices \/ Host
  \/ \E k \in Keys : Strike(k)
  \/ \E p \in Packets : Move(p)

Spec == Init /\ [][Next]_vars
(* The processor and the devices go on.                                    *)
FairSpec == Spec /\ WF_vars(Devices) /\ WF_vars(Host)
-----------------------------------------------------------------------------
TypeOK ==
  /\ pc \in {"enable", "ask", "config", "tell", "write", "defaults", "ack1", "go", "ack2", "sti", "main"}
  /\ out = None \/ (out # None /\ out.byte = last)
  /\ last \in 0 .. 255 /\ config \in 0 .. 255 /\ status \in 0 .. 255
  /\ latched \subseteq {1, 12} /\ serving \in {None, 1, 12}
  /\ Len(mouse_bytes) < 3

(* If nobody touches keyboard and mouse until the kernel is up, and the    *)
(* mouse answers in time, then from there on each key and each movement    *)
(* reaches its own handler, once, complete and in order, although both     *)
(* handlers read one port and interrupts of initialisation are left over.  *)
Streams == INSTANCE InputStreams
ImplementsStreams == Streams!Spec

=============================================================================
