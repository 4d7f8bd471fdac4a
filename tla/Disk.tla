--------------------------------- MODULE Disk ---------------------------------
(***************************************************************************)
(* drivers/disk.c: read_sector and write_sector, step by step, with the    *)
(* drive they talk to through its ports.                                   *)
(*                                                                         *)
(* A call runs with interrupts off, and only the drive moves beside it: it *)
(* may take any time over a command.  The drive is not code of the kernel; *)
(* it is what the ATA commands 0x20, 0x30 and 0xE7 assume, with a cache    *)
(* that is written to the medium when the drive likes or is told to.  A    *)
(* busy drive does not look at what is written to its registers.  A poll   *)
(* that finds nothing changes nothing, so only the last one is a step.     *)
(***************************************************************************)
EXTENDS Integers, Sequences

CONSTANTS
  SectorWords,  \* 256
  RegBase,      \* 256: values of an address register
  TopBase,      \* 16: the four address bits in the drive register
  Image,        \* sectors of the drive
  Asked,        \* sector numbers asked for
  Contents,     \* what callers write: sequences of SectorWords words
  Zeros,        \* what the sectors hold at first
  Junk,         \* a word read from a drive that offers none
  None,
  PowerCuts     \* whether the power can fail

VARIABLES
  phase, op,       \* where the call is, and which it is or was last
  lba, buffer,  \* its arguments; read_sector fills buffer
  i,            \* words transferred
  drive,        \* status, command, address and sector buffer of the drive
  cache, medium \* sectors in its cache, or None; sectors on the medium

hostVars == <<phase, op, lba, buffer, i>>
driveVars == <<drive, cache, medium>>
diskVars == <<hostVars, driveVars>>

ASSUME DiskAssumption ==
  /\ SectorWords \in Nat \ {0} /\ RegBase \in Nat \ {0} /\ TopBase \in Nat \ {0}
  /\ Image \cup Asked \subseteq 0 .. RegBase * RegBase * RegBase * TopBase - 1
  /\ \A c \in Contents \cup {Zeros} : c \in Seq(Nat) /\ Len(c) = SectorWords
  /\ None \notin Contents \cup {Zeros}
  /\ PowerCuts \in BOOLEAN

(* The registers 0x1F3 and 0x1F4 are exchanged.                            *)
AddressRegisters_Swapped(l) ==
  <<(l \div RegBase) % RegBase, l % RegBase, (l \div (RegBase * RegBase)) % RegBase,
    (l \div (RegBase * RegBase * RegBase)) % TopBase>>

(* What a call puts into 0x1F3 to 0x1F6, and the sector a drive finds there. *)
AddressRegisters(l) ==
  <<l % RegBase, (l \div RegBase) % RegBase, (l \div (RegBase * RegBase)) % RegBase,
    (l \div (RegBase * RegBase * RegBase)) % TopBase>>
Addressed(r) == r[1] + RegBase * (r[2] + RegBase * (r[3] + RegBase * r[4]))

(* The sector as the drive hands it out.                                   *)
View == [l \in Image |-> IF cache[l] = None THEN medium[l] ELSE cache[l]]

Ready == ~drive.bsy /\ ~drive.drq
Idle == [bsy |-> FALSE, drq |-> FALSE, cmd |-> "none", lba |-> 0, sector |-> <<>>]

(* The command register is written: a drive that is not ready ignores it.  *)
Command(cmd, l) ==
  /\ drive' = IF ~Ready THEN drive
              ELSE [bsy |-> TRUE, drq |-> FALSE, cmd |-> cmd,
                    lba |-> Addressed(AddressRegisters(l)), sector |-> <<>>]
  /\ UNCHANGED <<cache, medium>>

-----------------------------------------------------------------------------
(* read_sector does not look at the status before its command.             *)
ReadSector(l) ==
  /\ phase = "idle"
  /\ phase' = "rpoll" /\ op' = "read" /\ lba' = l /\ buffer' = <<>> /\ i' = 0
  /\ Command("read", l)

PollRead ==
  /\ phase = "rpoll" /\ drive.drq
  /\ phase' = "rdata"
  /\ UNCHANGED <<op, lba, buffer, i, driveVars>>

TakeWord ==
  LET last == i + 1 = SectorWords
  IN  /\ phase = "rdata"
      /\ buffer' = Append(buffer, IF drive.drq THEN drive.sector[i + 1] ELSE Junk)
      /\ drive' = IF last /\ drive.drq THEN Idle ELSE drive
      /\ i' = i + 1
      /\ phase' = IF last THEN "idle" ELSE "rdata"
      /\ UNCHANGED <<op, lba, cache, medium>>

WriteSector(l, data) ==
  /\ phase = "idle"
  /\ phase' = "wwait" /\ op' = "write" /\ lba' = l /\ buffer' = data /\ i' = 0
  /\ UNCHANGED driveVars

IssueWrite ==
  /\ phase = "wwait" /\ ~drive.bsy
  /\ phase' = "wpoll"
  /\ Command("write", lba)
  /\ UNCHANGED <<op, lba, buffer, i>>

PollWrite ==
  /\ phase = "wpoll" /\ drive.drq
  /\ phase' = "wdata"
  /\ UNCHANGED <<op, lba, buffer, i, driveVars>>

(* After the last word the drive is busy storing the sector.               *)
PutWord ==
  LET sector == Append(drive.sector, buffer[i + 1])
  IN  /\ phase = "wdata"
      /\ drive' = IF ~drive.drq THEN drive
                  ELSE IF Len(sector) = SectorWords
                  THEN [drive EXCEPT !.sector = sector, !.drq = FALSE, !.bsy = TRUE, !.cmd = "store"]
                  ELSE [drive EXCEPT !.sector = sector]
      /\ i' = i + 1
      /\ phase' = IF i + 1 = SectorWords THEN "wflush" ELSE "wdata"
      /\ UNCHANGED <<op, lba, buffer, cache, medium>>

(* The command to empty the cache, without a look at the status.           *)
Flush ==
  /\ phase = "wflush"
  /\ phase' = "wend"
  /\ Command("flush", 0)
  /\ UNCHANGED <<op, lba, buffer, i>>

(* The loop of the data phase once more. *)
WaitEnd_ForData ==
  /\ phase = "wend" /\ drive.drq
  /\ phase' = "idle"
  /\ UNCHANGED <<op, lba, buffer, i, driveVars>>

WaitEnd ==
  /\ phase = "wend" /\ ~drive.bsy
  /\ phase' = "idle"
  /\ UNCHANGED <<op, lba, buffer, i, driveVars>>

-----------------------------------------------------------------------------
(* The drive. *)

FetchSector ==
  /\ drive.bsy /\ drive.cmd = "read" /\ drive.lba \in Image
  /\ drive' = [drive EXCEPT !.bsy = FALSE, !.drq = TRUE, !.sector = View[drive.lba]]
  /\ UNCHANGED <<hostVars, cache, medium>>

AskForData ==
  /\ drive.bsy /\ drive.cmd = "write"
  /\ drive' = [drive EXCEPT !.bsy = FALSE, !.drq = TRUE]
  /\ UNCHANGED <<hostVars, cache, medium>>

StoreSector ==
  /\ drive.bsy /\ drive.cmd = "store" /\ drive.lba \in Image
  /\ cache' = [cache EXCEPT ![drive.lba] = drive.sector]
  /\ drive' = Idle
  /\ UNCHANGED <<hostVars, medium>>

(* A sector that does not exist is an error, at the command or, for a      *)
(* write, after the data; a drive in error is ready and offers nothing.    *)
Refuse ==
  /\ drive.bsy /\ drive.cmd \in {"read", "write", "store"} /\ drive.lba \notin Image
  /\ drive' = Idle
  /\ UNCHANGED <<hostVars, cache, medium>>

EmptyCache ==
  /\ drive.bsy /\ drive.cmd = "flush"
  /\ medium' = View /\ cache' = [l \in Image |-> None]
  /\ drive' = Idle
  /\ UNCHANGED hostVars

(* The drive writes back when it likes, in any order.                      *)
WriteBack(l) ==
  /\ cache[l] # None
  /\ medium' = [medium EXCEPT ![l] = cache[l]]
  /\ cache' = [cache EXCEPT ![l] = None]
  /\ UNCHANGED <<hostVars, drive>>

(* Only the medium survives; the kernel starts again.                      *)
PowerCut ==
  /\ PowerCuts
  /\ phase' = "idle" /\ op' = "write" /\ lba' = 0 /\ buffer' = <<>> /\ i' = 0
  /\ drive' = Idle /\ cache' = [l \in Image |-> None]
  /\ UNCHANGED medium

DiskInit ==
  /\ phase = "idle" /\ op = "write" /\ lba = 0 /\ buffer = <<>> /\ i = 0
  /\ drive = Idle /\ cache = [l \in Image |-> None]
  /\ medium = [l \in Image |-> Zeros]

Host == PollRead \/ TakeWord \/ IssueWrite \/ PollWrite \/ PutWord \/ Flush \/ WaitEnd
Drive == FetchSector \/ AskForData \/ StoreSector \/ Refuse \/ EmptyCache

DiskNext ==
  \/ \E l \in Asked : ReadSector(l) \/ \E data \in Contents : WriteSector(l, data)
  \/ Host \/ Drive \/ \E l \in Image : WriteBack(l)
  \/ PowerCut

DiskSpec == DiskInit /\ [][DiskNext]_diskVars

(* The processor goes on, with interrupts off nothing else takes it; the   *)
(* drive carries out what it accepted.  It need not write back unasked.    *)
DiskFairSpec == DiskSpec /\ WF_diskVars(Host) /\ WF_diskVars(Drive)
-----------------------------------------------------------------------------
Sector == Contents \cup {Zeros}
DiskTypeOK ==
  /\ phase \in {"idle", "rpoll", "rdata", "wwait", "wpoll", "wdata", "wflush", "wend"}
  /\ op \in {"read", "write"} /\ lba \in Asked \cup {0} /\ i \in 0 .. SectorWords
  /\ Len(buffer) <= SectorWords
  /\ drive.lba \in 0 .. RegBase * RegBase * RegBase * TopBase - 1
  /\ Len(drive.sector) <= SectorWords
  /\ cache \in [Image -> Sector \cup {None}] /\ medium \in [Image -> Sector]

(* A call for a sector that exists ends, however long the drive takes over *)
(* each of its steps: every loop polls for something that comes.           *)
CallsEnd == (phase # "idle" /\ lba \in Image) ~> (phase = "idle")

(* The two calls read and write whole sectors, those they are asked for,   *)
(* each at one moment of the call, and a cut of power in the middle of     *)
(* the transfer leaves no sector in part.                                  *)
Done == phase \in {"wflush", "wend"} /\ drive.cmd # "store"
CallNow ==
  IF phase = "idle" THEN None
  ELSE [op |-> op, lba |-> lba, data |-> IF op = "read" THEN None ELSE buffer, done |-> Done]
LastReply == IF phase = "idle" /\ op = "read" THEN buffer ELSE None
Store == INSTANCE SectorStore
  WITH store <- View, safe <- medium, call <- CallNow, reply <- LastReply
SectorsWhole == Store!Spec

ASSUME NoneAssumption == None \notin Store!Calls

(* What makes SectorsWhole and the types inductive: at each point of a     *)
(* call the drive is at the step of the same command that goes with it,    *)
(* for the same sector and with the words transferred so far, and between  *)
(* two calls it is at rest.  It is at rest inside a call, too, when it has *)
(* refused a sector that does not exist.                                   *)
At(cmd, sector) == [bsy |-> TRUE, drq |-> FALSE, cmd |-> cmd, lba |-> lba, sector |-> sector]
Offers(cmd, sector) ==
  [bsy |-> FALSE, drq |-> TRUE, cmd |-> cmd, lba |-> lba, sector |-> sector]
Flushing == [bsy |-> TRUE, drq |-> FALSE, cmd |-> "flush", lba |-> 0, sector |-> <<>>]

ReadInStep ==
  /\ phase \in {"rpoll", "rdata"} => op = "read" /\ lba \in Asked
  /\ phase = "rpoll" =>
       /\ buffer = <<>> /\ i = 0
       /\ \/ drive \in {Idle, At("read", <<>>)}
          \/ lba \in Image /\ drive = Offers("read", View[lba])
  /\ phase = "rdata" =>
       /\ i < SectorWords /\ buffer = SubSeq(View[lba], 1, i)
       /\ lba \in Image /\ drive = Offers("read", View[lba])

WriteInStep ==
  /\ phase \in {"wwait", "wpoll", "wdata", "wflush", "wend"} =>
       op = "write" /\ lba \in Asked /\ buffer \in Contents
  /\ phase = "wwait" => drive = Idle /\ i = 0
  /\ phase = "wpoll" => drive \in {Idle, At("write", <<>>), Offers("write", <<>>)} /\ i = 0
  /\ phase = "wdata" => i < SectorWords /\ drive = Offers("write", SubSeq(buffer, 1, i))
  /\ phase = "wflush" => drive \in {Idle, At("store", buffer)}
  /\ phase = "wend" => drive \in {Idle, At("store", buffer), Flushing}

DiskInv ==
  /\ DiskTypeOK
  /\ phase = "idle" => drive = Idle
  /\ ReadInStep /\ WriteInStep

=============================================================================
