-------------------------------- MODULE E1000 --------------------------------
(***************************************************************************)
(* drivers/pci.c and drivers/e1000.c: the lspci command and the netinit    *)
(* command, which looks for the network card through the configuration     *)
(* ports and sets it up through its registers.                             *)
(*                                                                         *)
(* Both run with interrupts off, one call to a port or a register after    *)
(* the other.  The machine is not code of the kernel: functions sit at     *)
(* places <<bus, slot, function>>, a place without one reads as all ones,  *)
(* and a card answers at its address once its command register says so.    *)
(* A command register is the set of its bits; an identity is the two       *)
(* halves of its double word.                                              *)
(***************************************************************************)
EXTENDS Integers, Sequences, FiniteSets

CONSTANTS
  NBus,       \* buses that are searched: 256
  NSlot,      \* 32
  Machines,   \* what may be in the machine: functions from places to records
  LeftByFirmware    \* what the firmware may leave in the registers of a card

VARIABLES
  space,            \* the configuration space
  cards,            \* the registers of the cards, by place
  net_pc, bus, slot,    \* where a command is; the loop variables
  bar0, pci_command, e1000_mmio_base, mac_address, k,
  tx_ring,          \* buffer of each descriptor, or 0
  listed,           \* what lspci printed
  machine, left     \* space and cards at boot

driverVars == <<bar0, pci_command, e1000_mmio_base, mac_address, k, tx_ring>>
netVars == <<space, cards, net_pc, bus, slot, driverVars, listed, machine, left>>

Intel1000 == <<32902, 4110>>    \* 0x8086, 0x100E
Ones == 65535
RegisterBase(f) == f.bar0 - (f.bar0 % 16)

(* No vendor has the number of all ones, the firmware gives every card an  *)
(* address of its own, and leaves its transmitter off.                     *)
PciFunctions == [id : (Nat \ {Ones}) \X Nat, command : SUBSET Nat, bar0 : Nat]
CardStates ==
  [mac : [1 .. 6 -> 0 .. 255], interrupts : Nat, tdbal : Nat, tdbah : Nat, tdlen : Nat,
   tdh : Nat, tdt : Nat, enabled : BOOLEAN]
ASSUME E1000Assumption ==
  /\ NBus \in 1 .. 256 /\ NSlot \in 1 .. 32
  /\ \A m \in Machines :
       /\ DOMAIN m \subseteq (0 .. 255) \X (0 .. 31) \X (0 .. 7)
       /\ m \in [DOMAIN m -> PciFunctions]
       /\ \A p, q \in DOMAIN m :
            /\ m[p].id = Intel1000 /\ m[q].id = Intel1000
            /\ RegisterBase(m[p]) = RegisterBase(m[q])
            => p = q
  /\ LeftByFirmware \subseteq CardStates /\ \A c \in LeftByFirmware : ~c.enabled

Nothing == [id |-> <<Ones, Ones>>, command |-> {}, bar0 |-> 0]
TX_DESC_COUNT == 8
TxRing == 65552                 \* where the linker puts tx_ring

IsCard(p) == p \in DOMAIN machine /\ machine[p].id = Intel1000

-----------------------------------------------------------------------------
(* The ports. *)

(* What goes to port 0xCF8, without the bit that enables it.               *)
ConfigAddress(b, s, f, offset) == b * 65536 + s * 2048 + f * 256 + (offset - (offset % 4))

Addressed(a) == <<(a \div 65536) % 256, (a \div 2048) % 32, (a \div 256) % 8>>
FunctionAt(a) == IF Addressed(a) \in DOMAIN space THEN space[Addressed(a)] ELSE Nothing
Register(f, a) == CASE a % 256 = 0  -> f.id
                    [] a % 256 = 4  -> f.command
                    [] a % 256 = 16 -> f.bar0

PciReadDword(b, s, f, offset) ==
  LET a == ConfigAddress(b, s, f, offset) IN Register(FunctionAt(a), a)

PciReadWord(b, s, f, offset) == PciReadDword(b, s, f, offset)[1 + ((offset \div 2) % 2)]

PciWriteCommand(b, s, f, value) ==
  LET p == Addressed(ConfigAddress(b, s, f, 4))
  IN  space' = [q \in DOMAIN space |->
                  IF q = p THEN [space[q] EXCEPT !.command = value] ELSE space[q]]

(* The cards that answer at an address.                                    *)
Answers(p, address) == 1 \in space[p].command /\ RegisterBase(space[p]) = address
(* The registers 0x5400 and 0x5404; what is above the address in the       *)
(* second is not zero.                                                     *)
Ral(mac) == mac[1] + 256 * mac[2] + 65536 * mac[3] + 16777216 * mac[4]
Rah(mac) == mac[5] + 256 * mac[6] + 65536 * 16384
MacRegisters ==
  IF \E p \in DOMAIN cards : Answers(p, e1000_mmio_base)
  THEN LET p == CHOOSE p \in DOMAIN cards : Answers(p, e1000_mmio_base)
       IN  <<Ral(cards[p].mac), Rah(cards[p].mac)>>
  ELSE <<-1, -1>>
WriteReg(r, value) ==
  cards' = [p \in DOMAIN cards |->
              IF Answers(p, e1000_mmio_base) THEN [cards[p] EXCEPT ![r] = value] ELSE cards[p]]

-----------------------------------------------------------------------------
NetInit ==
  /\ machine \in Machines /\ space = machine
  /\ left \in [{p \in DOMAIN machine : IsCard(p)} -> LeftByFirmware] /\ cards = left
  /\ net_pc = "idle" /\ bus = 0 /\ slot = 0
  /\ bar0 = 0 /\ pci_command = {} /\ e1000_mmio_base = 0 /\ k = 0
  /\ mac_address = [i \in 1 .. 6 |-> 0]
  /\ tx_ring = [i \in 0 .. TX_DESC_COUNT - 1 |-> 0]
  /\ listed = <<>>

(* check_all_pci_buses *)
Lspci ==
  /\ net_pc = "idle"
  /\ net_pc' = "lspci" /\ slot' = 0 /\ listed' = <<>>
  /\ UNCHANGED <<space, cards, bus, driverVars, machine, left>>

LspciSlot ==
  /\ net_pc = "lspci"
  /\ LET vendor_id == PciReadWord(0, slot, 0, 0)
         device_id == PciReadWord(0, slot, 0, 2)
     IN  listed' = IF vendor_id # Ones THEN Append(listed, <<vendor_id, device_id>>) ELSE listed
  /\ slot' = slot + 1
  /\ net_pc' = IF slot' = NSlot THEN "idle" ELSE "lspci"
  /\ UNCHANGED <<space, cards, bus, driverVars, machine, left>>

(* init_E1000 *)
Netinit ==
  /\ net_pc = "idle"
  /\ net_pc' = "search" /\ bus' = 0 /\ slot' = 0
  /\ UNCHANGED <<space, cards, driverVars, listed, machine, left>>

(* Any card of the vendor will do.                                         *)
Search_VendorOnly ==
  /\ net_pc = "search"
  /\ LET found == PciReadDword(bus, slot, 0, 0)[1] = Intel1000[1]
         last == slot + 1 = NSlot
     IN  /\ slot' = IF found THEN slot ELSE IF last THEN 0 ELSE slot + 1
         /\ bus' = IF ~found /\ last THEN bus + 1 ELSE bus
         /\ net_pc' = IF found THEN "bar" ELSE IF last /\ bus + 1 = NBus THEN "missing" ELSE "search"
  /\ UNCHANGED <<space, cards, driverVars, listed, machine, left>>

(* One slot after the other; the first card ends both loops.               *)
Search ==
  /\ net_pc = "search"
  /\ LET found == PciReadDword(bus, slot, 0, 0) = Intel1000
         last == slot + 1 = NSlot
     IN  /\ slot' = IF found THEN slot ELSE IF last THEN 0 ELSE slot + 1
         /\ bus' = IF ~found /\ last THEN bus + 1 ELSE bus
         /\ net_pc' = IF found THEN "bar" ELSE IF last /\ bus + 1 = NBus THEN "missing" ELSE "search"
  /\ UNCHANGED <<space, cards, driverVars, listed, machine, left>>

Missing ==
  /\ net_pc = "missing"
  /\ net_pc' = "idle"
  /\ UNCHANGED <<space, cards, bus, slot, driverVars, listed, machine, left>>

ReadBar ==
  /\ net_pc = "bar"
  /\ bar0' = PciReadDword(bus, slot, 0, 16)
  /\ net_pc' = "command"
  /\ UNCHANGED <<space, cards, bus, slot, pci_command, e1000_mmio_base, mac_address, k, tx_ring,
                 listed, machine, left>>

ReadCommand ==
  /\ net_pc = "command"
  /\ pci_command' = PciReadDword(bus, slot, 0, 4) \cup {1, 2, 10}
  /\ net_pc' = "enable"
  /\ UNCHANGED <<space, cards, bus, slot, bar0, e1000_mmio_base, mac_address, k, tx_ring,
                 listed, machine, left>>

WriteCommand ==
  /\ net_pc = "enable"
  /\ PciWriteCommand(bus, slot, 0, pci_command)
  /\ e1000_mmio_base' = bar0 - (bar0 % 16)
  /\ net_pc' = "mask"
  /\ UNCHANGED <<cards, bus, slot, bar0, pci_command, mac_address, k, tx_ring,
                 listed, machine, left>>

(* 0xFFFFFFFF to 0x00D8; the reading of 0x00C0 clears what was pending.    *)
MaskInterrupts ==
  /\ net_pc = "mask"
  /\ WriteReg("interrupts", 0)
  /\ net_pc' = "mac"
  /\ UNCHANGED <<space, bus, slot, driverVars, listed, machine, left>>

MacBytes(low, high) ==
  <<low % 256, (low \div 256) % 256, (low \div 65536) % 256, (low \div 16777216) % 256,
    high % 256, (high \div 256) % 256>>

ReadMacAddress ==
  /\ net_pc = "mac"
  /\ mac_address' = MacBytes(MacRegisters[1], MacRegisters[2])
  /\ net_pc' = "ring"
  /\ UNCHANGED <<space, cards, bus, slot, bar0, pci_command, e1000_mmio_base, k, tx_ring,
                 listed, machine, left>>

(* e1000_init_tx *)
FillRing ==
  /\ net_pc = "ring"
  /\ tx_ring' = [i \in 0 .. TX_DESC_COUNT - 1 |-> i + 1]
  /\ k' = 1
  /\ net_pc' = "registers"
  /\ UNCHANGED <<space, cards, bus, slot, bar0, pci_command, e1000_mmio_base, mac_address,
                 listed, machine, left>>

(* The transmitter is enabled before head and tail are set.                *)
RingRegisters_EnableEarly ==
  <<<<"tdbal", TxRing>>, <<"tdbah", 0>>, <<"tdlen", TX_DESC_COUNT * 16>>, <<"enabled", TRUE>>,
    <<"tdh", 0>>, <<"tdt", 0>>>>
RingRegisters ==
  <<<<"tdbal", TxRing>>, <<"tdbah", 0>>, <<"tdlen", TX_DESC_COUNT * 16>>,
    <<"tdh", 0>>, <<"tdt", 0>>, <<"enabled", TRUE>>>>

WriteRingRegister ==
  /\ net_pc = "registers"
  /\ WriteReg(RingRegisters[k][1], RingRegisters[k][2])
  /\ k' = k + 1
  /\ net_pc' = IF k = Len(RingRegisters) THEN "idle" ELSE "registers"
  /\ UNCHANGED <<space, bus, slot, bar0, pci_command, e1000_mmio_base, mac_address, tx_ring,
                 listed, machine, left>>

NetNext ==
  \/ Lspci \/ LspciSlot \/ Netinit \/ Search \/ Missing \/ ReadBar \/ ReadCommand
  \/ WriteCommand \/ MaskInterrupts \/ ReadMacAddress \/ FillRing \/ WriteRingRegister

NetSpec == NetInit /\ [][NetNext]_netVars

-----------------------------------------------------------------------------
NetTypeOK ==
  /\ net_pc \in {"idle", "lspci", "search", "missing", "bar", "command", "enable", "mask", "mac",
             "ring", "registers"}
  /\ bus \in 0 .. NBus /\ slot \in 0 .. NSlot
  /\ k \in 0 .. Len(RingRegisters) + 1
  /\ mac_address \in [1 .. 6 -> 0 .. 255]
  /\ tx_ring \in [0 .. TX_DESC_COUNT - 1 -> 0 .. TX_DESC_COUNT]

Before(p, q) == p[1] < q[1] \/ (p[1] = q[1] /\ p[2] < q[2])
Found(p) == IsCard(p) /\ p[1] < NBus /\ p[2] < NSlot /\ p[3] = 0
First(p) == Found(p) /\ \A q \in DOMAIN machine : Found(q) => q = p \/ Before(p, q)

(* Among all functions of the machine the search stops at the first card   *)
(* in the order of buses and slots, and gives up only if there is none.    *)
SearchRight ==
  /\ net_pc = "bar" => First(<<bus, slot, 0>>)
  /\ net_pc = "missing" => \A p \in DOMAIN machine : ~First(p)

(* Only that card is configured and only its registers are written, also   *)
(* if there is a second one or a device like it, and its place and its     *)
(* address stay as the firmware chose them.                                *)
OnlyTheFirst ==
  \A p \in DOMAIN space :
    /\ space[p].id = machine[p].id /\ space[p].bar0 = machine[p].bar0
    /\ ~First(p) => space[p] = machine[p] /\ (IsCard(p) => cards[p] = left[p])

(* Whatever else the firmware left in it, and also when netinit is given   *)
(* again, the transmitter never runs with a descriptor to fetch or without *)
(* a ring to fetch it from: it may use the bus, the ring is filled, and    *)
(* head and tail are the same.                                             *)
TransmitterReady ==
  \A p \in DOMAIN cards :
    cards[p].enabled =>
      /\ {1, 2} \subseteq space[p].command
      /\ cards[p].tdbal = TxRing /\ cards[p].tdbah = 0
      /\ cards[p].tdlen = 16 * TX_DESC_COUNT
      /\ cards[p].tdh = cards[p].tdt
      /\ \A i \in DOMAIN tx_ring : tx_ring[i] = i + 1

(* The address shown is that of the card that was found.                   *)
MacKnown ==
  net_pc \in {"ring", "registers"} => \A p \in DOMAIN cards : First(p) => mac_address = cards[p].mac

(* lspci shows what is on bus 0: every device once, and in the order of    *)
(* the slots, so each comes after as many as there are below it.           *)
Below(s) == {t \in 0 .. s - 1 : <<0, t, 0>> \in DOMAIN machine}
ListRight ==
  net_pc = "lspci" \/ (net_pc = "idle" /\ slot = NSlot) =>
    /\ Len(listed) = Cardinality(Below(slot))
    /\ \A t \in Below(slot) :
         listed[Cardinality(Below(t)) + 1] = machine[<<0, t, 0>>].id

(* The first card of the machine is found, it alone is configured, its     *)
(* address is shown, and lspci lists function 0 of every device of bus 0.  *)
NetworkSound == NetTypeOK /\ SearchRight /\ OnlyTheFirst /\ MacKnown /\ ListRight

=============================================================================
