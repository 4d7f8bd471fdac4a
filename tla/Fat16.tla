-------------------------------- MODULE Fat16 --------------------------------
(***************************************************************************)
(* fs/fat16.c: the file system as the shell drives it.                     *)
(*                                                                         *)
(* A command runs inside the keyboard interrupt handler with interrupts    *)
(* off, so nothing interleaves with it; but it writes two or three sectors *)
(* one after the other, and the machine can be switched off between any    *)
(* two of them.  Every action is what happens up to and including one      *)
(* sector write; pc names the write that comes next.  cat takes one step   *)
(* for each cluster it reads.                                              *)
(*                                                                         *)
(* The disk is the root directory (sector 68), the first FAT sector        *)
(* (sector 50) and one data sector per cluster (sector 98 + c).            *)
(***************************************************************************)
EXTENDS Naturals, FiniteSets

CONSTANTS
  MaxCluster,  \* last cluster find_free_cluster looks at: 255
  LastOnDisk,  \* last cluster whose data sector exists in the image
  NEntries,    \* entries of a directory sector: 16
  Names,       \* names a user can type, padded to 8 characters
  Contents,    \* texts a user can save
  ImageWords,  \* FAT words the image may start with: kernel bytes or zero
  CrashAt,     \* where the power can fail: a set of values of pc
  AllowDummy,  \* whether the user types mkdummy
  AsEntries    \* what the sector of a text holds, read as directory entries

FREE == 0
EOC == 65535       \* 0xFFFF, what write_file and make_directory put
Word == {w \in Nat : w <= 65535}
Clusters == 2 .. MaxCluster
OnDisk == 2 .. LastOnDisk
Slots == 1 .. NEntries

DummyName == "SECRET T"  \* the first 8 characters of "SECRET TXT": has a space
JunkName == "<junk>"     \* bytes nobody can type
DirBytes == "<entries>"  \* what a directory sector shows, printed as a text
DummyText == "<dummy>"   \* what create_dummy_file stores in its two sectors
NoText == "<none>"
AllNames == Names \cup {DummyName, JunkName, NoText}
AllTexts == Contents \cup {DummyText, DirBytes, NoText}
Messages == {NoText, "full", "created", "deleted", "not found", "root", "entered",
             "not a directory", "cat", "running", "listed", "injected"}
RootNames == {"/", ".."}

(* "cat" is inside the loop of cat_file; "poll" is read_sector waiting for *)
(* a sector the drive does not have.                                       *)
Steps == {"idle", "data", "fat", "free", "cat", "poll", "dummy2", "dummy3", "dummyfat"}

ASSUME SizeAssumption ==
  /\ MaxCluster \in Nat /\ 3 <= MaxCluster /\ MaxCluster < 65528
  /\ LastOnDisk \in 2 .. MaxCluster
  /\ NEntries \in Nat \ {0}
  /\ ImageWords \subseteq Word

ASSUME TextAssumption ==
  /\ {DummyName, JunkName, NoText} \cap Names = {}
  /\ NoText \notin Contents

ASSUME ModeAssumption == CrashAt \subseteq Steps /\ AllowDummy \in BOOLEAN

------------------------------------------------------------------------------
(* Directory entries and sectors.                                          *)

Marks == {"end", "deleted", "live"}    \* first byte 0x00, 0xE5, anything else
Attrs == {"none", "file", "dir"}       \* any other byte, 0x20 and 0x10

(* cluster_low is any word, as a text can be read as entries; but nobody   *)
(* types the byte 0x10, so only make_directory gives an entry this one.    *)
Entry == {e \in [mark : Marks, name : AllNames, attr : Attrs, cl : Word] :
            e.attr = "dir" => e.cl \in Clusters}
Live(n, a, c) == [mark |-> "live", name |-> n, attr |-> a, cl |-> c]
End == [mark |-> "end", name |-> NoText, attr |-> "none", cl |-> 0]

(* The deleted mark confused with the end mark. *)
Deleted_AsEnd == End

(* Only the first byte changes, but nothing reads the rest of a deleted    *)
(* entry and a new entry overwrites all of it.                             *)
Deleted == [mark |-> "deleted", name |-> NoText, attr |-> "none", cl |-> 0]

Table == [Slots -> Entry]
EmptyTable == [i \in Slots |-> End]

(* Sector 68 follows the kernel in the image: zeros, or its last bytes.    *)
JunkTable == [EmptyTable EXCEPT ![1] = Live(JunkName, "file", 0)]

ASSUME BytesAssumption == AsEntries \in [Contents \cup {DummyText} -> Table]

(* The same 512 bytes can be read as entries or as a text; kind says which *)
(* writer put them there: "mixed" is a directory with a new or changed     *)
(* entry, written over what was not one and keeping the bytes of that.     *)
Sector == [kind : {"dir", "text", "mixed"}, ents : Table, text : AllTexts]
TextSector(t) == [kind |-> "text", ents |-> AsEntries[t], text |-> t]
DirSector(tab) == [kind |-> "dir", ents |-> tab, text |-> DirBytes]
Blank == [kind |-> "text", ents |-> EmptyTable, text |-> NoText]

Rewritten(s, tab) == [DirSector(tab) EXCEPT !.kind = IF s.kind = "dir" THEN "dir" ELSE "mixed"]

JobOf(i, e, s) == [slot |-> i, old |-> e, cl |-> e.cl, sector |-> s, shown |-> {}]
NoJob == JobOf(0, End, Blank)
Job == [slot : {0} \cup Slots, old : Entry, cl : Word, sector : Sector,
        shown : SUBSET AllTexts]
Reply(m, s) == [msg |-> m, shown |-> s]
Replies == [msg : Messages, shown : SUBSET (AllNames \cup AllTexts)]

VARIABLES
  root,  \* sector 68
  fat,   \* sector 50, the words of the clusters that can be allocated
  data,  \* the sectors from 100 on
  cur,   \* current_dir_cluster
  pc,    \* which sector write comes next, or "idle" between commands
  job,   \* the locals of the command in progress: free_entry, free_cluster or
         \* cluster, data_buffer; old is the entry it replaces or shows,
         \* and shown what cat has printed so far
  out    \* what the last command printed

vars == <<root, fat, data, cur, pc, job, out>>
disk == <<root, fat, data>>

------------------------------------------------------------------------------
(* Reading.                                                                *)

(* read_current_directory, for any directory. *)
Tab(d) == IF d = 0 THEN root ELSE data[d].ents

(* A scan stops at the first entry that starts with 0x00 and skips the     *)
(* deleted ones.                                                           *)
Visible(tab) ==
  {i \in Slots : /\ tab[i].mark = "live"
                 /\ \A j \in Slots : j < i => tab[j].mark # "end"}

(* The scan that goes on after a match. *)
Hit_Last(tab, n, i) ==
  /\ i \in Visible(tab) /\ tab[i].name = n
  /\ \A j \in Visible(tab) : j > i => tab[j].name # n

(* The entry a command finds for name n: the first match of the scan. *)
Hit(tab, n, i) ==
  /\ i \in Visible(tab) /\ tab[i].name = n
  /\ \A j \in Visible(tab) : j < i => tab[j].name # n
Missing(tab, n) == \A i \in Visible(tab) : tab[i].name # n

(* The test of the first byte forgotten. *)
FreeSlot_First(tab, i) == i = 1

FreeSlot(tab, i) ==
  /\ i \in Slots /\ tab[i].mark # "live"
  /\ \A j \in Slots : j < i => tab[j].mark = "live"

(* The FAT word read as free when it ends a chain. *)
FreeCluster_EndOfChain(c) ==
  /\ c \in Clusters /\ fat[c] \in {FREE, EOC}
  /\ \A b \in Clusters : b < c => fat[b] \notin {FREE, EOC}

(* The search from the end of the table. *)
FreeCluster_Last(c) ==
  /\ c \in Clusters /\ fat[c] = FREE
  /\ \A b \in Clusters : b > c => fat[b] # FREE

FreeCluster(c) ==
  /\ c \in Clusters /\ fat[c] = FREE
  /\ \A b \in Clusters : b < c => fat[b] # FREE

(* The condition of the loops that follow the FAT. *)
Followed(w) == 2 <= w /\ w < 65528

(* The clusters of the table met by following the FAT from c: the least    *)
(* set that has c and is closed under the FAT, within the table.           *)
Chain(c) ==
  {e \in Clusters :
     \A S \in SUBSET Clusters :
       ({c} \cap Clusters \subseteq S /\ \A s \in S : {fat[s]} \cap Clusters \subseteq S)
         => e \in S}

(* Following it from c leads to a word that is no cluster of the table and *)
(* that the loops follow all the same.                                     *)
Leaves(c) == \E w \in {c} \cup {fat[e] : e \in Chain(c)} : Followed(w) /\ w \notin Clusters

(* read_current_directory returns: its sector exists. *)
DirOnDisk == cur <= LastOnDisk

(* write_current_directory. *)
WriteDir(tab) ==
  IF cur = 0 THEN root' = tab /\ data' = data
             ELSE root' = root /\ data' = [data EXCEPT ![cur] = Rewritten(data[cur], tab)]

Say(m, s) == out' = Reply(m, s)
Refuse(m) == Say(m, {}) /\ UNCHANGED <<root, fat, data, cur, pc, job>>
Finish(m) == Say(m, {}) /\ pc' = "idle" /\ job' = NoJob

Init ==
  /\ root \in {EmptyTable, JunkTable}
  /\ fat \in [Clusters -> ImageWords]
  /\ data = [c \in Clusters |-> Blank]
  /\ cur = 0
  /\ pc = "idle"
  /\ job = NoJob
  /\ out = Reply(NoText, {})

------------------------------------------------------------------------------
(* write_file and make_directory: the entry, the data sector, the FAT.     *)

DiskFull == /\ pc = "idle"
            /\ \A c \in Clusters : fat[c] # FREE
            /\ Refuse("full")

DirFull == /\ pc = "idle" /\ DirOnDisk
           /\ \E c \in Clusters : fat[c] = FREE
           /\ \A i \in Slots : Tab(cur)[i].mark = "live"
           /\ Refuse("full")

Create(n, attr, sector) ==
  /\ pc = "idle" /\ DirOnDisk
  /\ \E c \in Clusters, i \in Slots :
       /\ FreeCluster(c) /\ FreeSlot(Tab(cur), i)
       /\ WriteDir([Tab(cur) EXCEPT ![i] = Live(n, attr, c)])
       /\ job' = [JobOf(i, Tab(cur)[i], sector) EXCEPT !.cl = c]
  /\ pc' = "data"
  /\ UNCHANGED <<fat, cur, out>>

WriteFile(n, t) == Create(n, "file", TextSector(t))
MakeDirectory(n) == Create(n, "dir", DirSector(EmptyTable))

(* write_sector never returns for a sector behind the end of the image:    *)
(* the drive answers with an error and it waits for data to be asked for.  *)
(* find_free_cluster goes on to cluster 255 whatever the image's size.     *)
PutData ==
  /\ pc = "data"
  /\ job.cl <= LastOnDisk
  /\ data' = [data EXCEPT ![job.cl] = job.sector]
  /\ pc' = "fat"
  /\ UNCHANGED <<root, fat, cur, job, out>>

(* The FAT sector changed in memory and not written. *)
PutFat_NotWritten ==
  /\ pc = "fat"
  /\ Finish("created")
  /\ UNCHANGED <<root, fat, data, cur>>

PutFat ==
  /\ pc = "fat"
  /\ fat' = [fat EXCEPT ![job.cl] = EOC]
  /\ Finish("created")
  /\ UNCHANGED <<root, data, cur>>

(* The entry marked in memory and the directory not written. *)
RemoveFile_NotWritten(n) ==
  /\ pc = "idle"
  /\ \E i \in Slots :
       /\ Hit(Tab(cur), n, i)
       /\ pc' = "free"
       /\ job' = JobOf(i, Tab(cur)[i], Blank)
  /\ UNCHANGED <<root, fat, data, cur, out>>

(* remove_file: the entry is marked, then the FAT chain is freed. *)
RemoveFile(n) ==
  /\ pc = "idle" /\ DirOnDisk
  /\ \/ Missing(Tab(cur), n) /\ Refuse("not found")
     \/ \E i \in Slots :
          LET e == Tab(cur)[i] IN
          /\ Hit(Tab(cur), n, i)
          /\ WriteDir([Tab(cur) EXCEPT ![i] = Deleted])
          /\ IF e.cl >= 2
             THEN /\ pc' = "free"
                  /\ job' = JobOf(i, e, Blank)
                  /\ out' = out
             ELSE Finish("deleted")
          /\ UNCHANGED <<fat, cur>>

(* The loop frees the FAT in memory as it goes, so it meets a cluster once *)
(* and then zero.  From a word outside the table it would write past the   *)
(* 512 bytes of its buffer, and nothing is said of what follows.           *)
FreeChain ==
  /\ pc = "free"
  /\ ~Leaves(job.cl)
  /\ fat' = [c \in Clusters |-> IF c \in Chain(job.cl) THEN FREE ELSE fat[c]]
  /\ Finish("deleted")
  /\ UNCHANGED <<root, data, cur>>

------------------------------------------------------------------------------
(* cd, cat, ls and run: no sector is written.                              *)

(* A command that reads the current directory when its sector does not     *)
(* exist never returns.                                                    *)
ReadDirHangs ==
  /\ pc = "idle" /\ ~DirOnDisk
  /\ pc' = "poll"
  /\ UNCHANGED <<root, fat, data, cur, job, out>>

ChangeToRoot ==
  /\ pc = "idle"
  /\ cur' = 0
  /\ Say("root", {})
  /\ UNCHANGED <<root, fat, data, pc, job>>

(* The attribute not looked at. *)
ChangeDirectory_AnyEntry(n) ==
  /\ pc = "idle" /\ DirOnDisk
  /\ n \notin RootNames
  /\ \E i \in Slots : Hit(Tab(cur), n, i) /\ cur' = Tab(cur)[i].cl
  /\ Say("entered", {})
  /\ UNCHANGED <<root, fat, data, pc, job>>

ChangeDirectory(n) ==
  /\ pc = "idle" /\ DirOnDisk
  /\ n \notin RootNames
  /\ \/ Missing(Tab(cur), n) /\ Refuse("not found")
     \/ \E i \in Slots :
          LET e == Tab(cur)[i] IN
          /\ Hit(Tab(cur), n, i)
          /\ IF e.attr = "dir"
             THEN cur' = e.cl /\ Say("entered", {})
             ELSE cur' = cur /\ Say("not a directory", {})
          /\ UNCHANGED <<root, fat, data, pc, job>>

(* cat does not look at the attribute: it prints a directory as a text. *)
CatFile(n) ==
  /\ pc = "idle" /\ DirOnDisk
  /\ \/ Missing(Tab(cur), n) /\ Refuse("not found")
     \/ \E i \in Slots :
          /\ Hit(Tab(cur), n, i)
          /\ pc' = "cat"
          /\ job' = JobOf(i, Tab(cur)[i], Blank)
          /\ UNCHANGED <<root, fat, data, cur, out>>

(* One turn of the loop of cat.  It waits for ever for a cluster that has  *)
(* no sector: those of the table behind the image, and all outside it.     *)
CatNext ==
  /\ pc = "cat"
  /\ job.cl \in OnDisk
  /\ job' = [job EXCEPT !.cl = fat[job.cl], !.shown = @ \cup {data[job.cl].text}]
  /\ UNCHANGED <<root, fat, data, cur, pc, out>>

CatEnds ==
  /\ pc = "cat"
  /\ ~Followed(job.cl)
  /\ Say("cat", job.shown) /\ pc' = "idle" /\ job' = NoJob
  /\ UNCHANGED <<root, fat, data, cur>>

(* execute_program reads the first sector only, whatever the entry is, and *)
(* also those of cluster numbers 0 and 1, which are below the data; the    *)
(* rest of what it does (kmalloc, create_task) is module Kernel.            *)
ExecuteProgram(n) ==
  /\ pc = "idle" /\ DirOnDisk
  /\ \/ Missing(Tab(cur), n) /\ Refuse("not found")
     \/ \E i \in Slots :
          /\ Hit(Tab(cur), n, i)
          /\ Tab(cur)[i].cl <= LastOnDisk
          /\ Say("running", {data[c].text : c \in {Tab(cur)[i].cl} \cap Clusters})
          /\ UNCHANGED <<root, fat, data, cur, pc, job>>
     \/ \E i \in Slots :
          /\ Hit(Tab(cur), n, i)
          /\ Tab(cur)[i].cl > LastOnDisk
          /\ pc' = "poll"
          /\ UNCHANGED <<root, fat, data, cur, job, out>>

ListFiles ==
  /\ pc = "idle" /\ DirOnDisk
  /\ Say("listed", {Tab(cur)[i].name : i \in Visible(Tab(cur))})
  /\ UNCHANGED <<root, fat, data, cur, pc, job>>

------------------------------------------------------------------------------
(* create_dummy_file writes the root directory anew, whatever it holds and *)
(* whatever the current directory is, then sectors 100, 101 and the FAT.   *)

DummyTable == [EmptyTable EXCEPT ![1] = Live(DummyName, "file", 2)]

CreateDummyFile ==
  /\ AllowDummy
  /\ pc = "idle"
  /\ root' = DummyTable
  /\ pc' = "dummy2"
  /\ UNCHANGED <<fat, data, cur, job, out>>

PutDummy(here, c, next) ==
  /\ pc = here
  /\ data' = [data EXCEPT ![c] = TextSector(DummyText)]
  /\ pc' = next
  /\ UNCHANGED <<root, fat, cur, job, out>>

(* The two words linked to each other. *)
PutDummyFat_Loop ==
  /\ pc = "dummyfat"
  /\ fat' = [fat EXCEPT ![2] = 3, ![3] = 2]
  /\ Finish("injected")
  /\ UNCHANGED <<root, data, cur>>

PutDummyFat ==
  /\ pc = "dummyfat"
  /\ fat' = [fat EXCEPT ![2] = 3, ![3] = EOC]
  /\ Finish("injected")
  /\ UNCHANGED <<root, data, cur>>

------------------------------------------------------------------------------
(* Power fails before the write pc names: memory is lost, the disk is not. *)
Crash ==
  /\ pc \in CrashAt
  /\ cur' = 0
  /\ pc' = "idle"
  /\ job' = NoJob
  /\ Say(NoText, {})
  /\ UNCHANGED disk

Command(n) ==
  \/ MakeDirectory(n) \/ RemoveFile(n) \/ ChangeDirectory(n)
  \/ CatFile(n) \/ ExecuteProgram(n)
  \/ \E t \in Contents : WriteFile(n, t)

(* What a command in progress still has to do. *)
Continue ==
  \/ PutData \/ PutFat \/ FreeChain \/ CatNext \/ CatEnds
  \/ PutDummy("dummy2", 2, "dummy3") \/ PutDummy("dummy3", 3, "dummyfat")
  \/ PutDummyFat

Next ==
  \/ \E n \in Names : Command(n)
  \/ DiskFull \/ DirFull \/ ChangeToRoot \/ ListFiles \/ ReadDirHangs
  \/ CreateDummyFile
  \/ Continue
  \/ Crash

Spec == Init /\ [][Next]_vars

(* Interrupts are off until the command returns, so nothing else runs. *)
FairSpec == Spec /\ WF_vars(Continue)

------------------------------------------------------------------------------
(* Correctness.                                                            *)

TypeOK ==
  /\ root \in Table
  /\ fat \in [Clusters -> Word]
  /\ data \in [Clusters -> Sector]
  /\ cur \in {0} \cup Clusters
  /\ pc \in Steps
  /\ job \in Job
  /\ out \in Replies

(* The directories of the disk: the root and the allocated clusters whose  *)
(* sector was written as one.  A removed directory is none; what it held   *)
(* is lost with it.                                                        *)
Dirs == {0} \cup {c \in Clusters : fat[c] # FREE /\ data[c].kind = "dir"}

(* Entry i of directory d is a file or directory stored in cluster c.      *)
Owns(d, i, c) == Tab(d)[i].mark = "live" /\ Tab(d)[i].cl = c

(* The entry a write_file or make_directory in progress has just put.      *)
IsPending(d, i) == pc \in {"data", "fat"} /\ d = cur /\ i = job.slot

(* No cluster belongs to two entries: two files never share a sector, a    *)
(* directory has one parent.                                               *)
UniqueOwner ==
  \A c \in Clusters : \A d, e \in Dirs : \A i, j \in Slots :
    Owns(d, i, c) /\ Owns(e, j, c) => d = e /\ i = j

(* A cluster an entry owns is allocated, so find_free_cluster never hands  *)
(* it out again, and is all of its chain; and an entry that cd would       *)
(* follow leads to a directory.                                            *)
EntriesSound ==
  \A c \in Clusters : \A d \in Dirs : \A i \in Slots :
    Owns(d, i, c) /\ ~IsPending(d, i) =>
      /\ fat[c] = EOC
      /\ Tab(d)[i].attr = "dir" => data[c].kind = "dir"

(* Every live entry is before the first end mark, so the scans of cat, rm, *)
(* cd and ls see all that find_free_dir_entry keeps.                       *)
NoHiddenEntry ==
  \A d \in Dirs : \A i \in Slots : Tab(d)[i].mark = "live" => i \in Visible(Tab(d))

(* The shell stands in a directory that exists and, as rm cannot name the  *)
(* current directory or one above it, that the root still leads to.        *)
Below(S) == {c \in Clusters : \E d \in S : \E i \in Slots :
                             Owns(d, i, c) /\ Tab(d)[i].attr = "dir"}
CurrentDirSound ==
  cur \in Dirs /\ \A S \in SUBSET Dirs : 0 \in S /\ Below(S) \subseteq S => cur \in S

(* Directories can be scanned, and gone up and down, as a whole.           *)
DirectoriesSound == NoHiddenEntry /\ CurrentDirSound

(* A saved text is never written over while its cluster is allocated.      *)
SavedTextStays ==
  [][\A c \in Clusters : (fat[c] = EOC /\ fat'[c] = EOC /\ data[c].kind = "text")
                          => data'[c] = data[c]]_vars

(* A cluster stays allocated without an owner only when rm removes the     *)
(* directory that holds its entry, or a cut of power stops rm half way.    *)
Owned == {c \in Clusters : \E d \in Dirs : \E i \in Slots : Owns(d, i, c)}
LosesOnlyBelowRemoved ==
  [][\A c \in Owned \ Owned' :
        fat'[c] # FREE => \/ pc = "free"
                          \/ pc' = "free" /\ c = job'.cl]_vars

(* In the root and in every directory whose sector mkdir has emptied, and  *)
(* no text has overwritten since, cat and rm follow no word that is not a  *)
(* cluster of the table and come to the end of the chain of whatever file  *)
(* they are given, also when mkdummy has linked clusters 2 and 3 over what *)
(* used them, and wherever power failed.                                   *)
ChainsEnd ==
  pc = "idle" /\ (cur = 0 \/ data[cur].kind = "dir") =>
    \A n \in Names : \A i \in Slots : Hit(Tab(cur), n, i) =>
      LET c == Tab(cur)[i].cl IN
      ~Leaves(c) /\ \A e \in Chain(c) : e \notin Chain(fat[e])

(* A command comes to its end: cat and rm whatever they follow, run and    *)
(* the readings of directories, and a write as long as a cluster that has  *)
(* a sector is free.  (When none is, find_free_cluster still finds one     *)
(* behind the image and write_sector polls for ever.)                      *)
CommandEnds ==
  (pc # "idle" /\ (pc = "data" => \E c \in OnDisk : fat[c] = FREE)) ~> (pc = "idle")

(* What makes UniqueOwner and EntriesSound inductive when power fails only *)
(* between commands or inside rm, and mkdummy is not used.                 *)
WriteInProgress ==
  pc \in {"data", "fat"} =>
    /\ job.slot \in Slots /\ job.cl \in Clusters
    /\ fat[job.cl] = FREE
    /\ Owns(cur, job.slot, job.cl)
    /\ Tab(cur)[job.slot].attr = "dir" => job.sector.kind = "dir"
    /\ job.sector.kind = "dir" => job.sector.ents = EmptyTable
    /\ pc = "fat" => data[job.cl] = job.sector

RemovalInProgress ==
  pc = "free" =>
    /\ job.cl \in Clusters /\ job.cl # cur
    /\ fat[job.cl] = EOC
    /\ \A d \in Dirs : \A i \in Slots : ~Owns(d, i, job.cl)

NamesNothingElse ==
  \A d \in Dirs : \A i \in Slots :
    Tab(d)[i].mark = "live" => Tab(d)[i].cl \in {0} \cup Clusters

NotItsOwnParent == \A d \in Dirs \cap Clusters : \A i \in Slots : ~Owns(d, i, d)

IInv ==
  /\ TypeOK
  /\ cur \in Dirs
  /\ pc \in {"idle", "data", "fat", "free", "cat", "poll"}
  /\ UniqueOwner
  /\ EntriesSound
  /\ NamesNothingElse
  /\ NotItsOwnParent
  /\ WriteInProgress
  /\ RemovalInProgress

(* What makes ChainsEnd inductive: every entry of a directory, in use or   *)
(* not, that a user can name has a chain of one cluster or the chain of    *)
(* mkdummy's two.  The name mkdummy writes is one nobody can type.         *)
EndsAt(c) == c \in Clusters /\ fat[c] \in {FREE, EOC}
Settled(c) == EndsAt(c) \/ (c = 2 /\ fat[2] = 3 /\ EndsAt(3))
AllSettled(tab) ==
  \A i \in Slots : tab[i].mark = "live" /\ tab[i].name \in Names => Settled(tab[i].cl)

SettledSector(s) == s.kind = "dir" => AllSettled(s.ents)

ChainInv ==
  /\ TypeOK
  /\ AllSettled(root)
  /\ \A c \in Clusters : SettledSector(data[c])
  /\ SettledSector(job.sector)

(* The commands are atomic: what a user can tell apart is a run of         *)
(* NodeStore, whose steps are whole commands.  A command counts from its   *)
(* last sector write on: until then the entry it replaces is shown.        *)
ShownEntry(e) == IF e.mark = "live" THEN [name |-> e.name, attr |-> e.attr, id |-> e.cl]
                 ELSE [name |-> NoText, attr |-> "none", id |-> 0]
HalfDone == pc \in {"data", "fat", "free"}
ShownTable(d) ==
  [i \in Slots |-> ShownEntry(IF HalfDone /\ d = cur /\ i = job.slot
                              THEN job.old ELSE Tab(d)[i])]
NoTable == [i \in Slots |-> ShownEntry(End)]
ShownNode(c) ==
  IF fat[c] = FREE THEN [kind |-> "absent", ents |-> NoTable, text |-> NoText]
  ELSE [kind |-> data[c].kind, text |-> data[c].text,
        ents |-> IF data[c].kind = "dir" THEN ShownTable(c) ELSE NoTable]
Store == INSTANCE NodeStore
  WITH NodeIds <- Clusters, Bytes <- DirBytes, Hidden <- JunkName,
       root <- ShownTable(0), node <- [c \in Clusters |-> ShownNode(c)]
ImplementsStore == Store!Spec

(* What the refinement needs beside IInv and NoHiddenEntry: the entries a  *)
(* scan meets are those commands wrote or the image has, the locals of a   *)
(* command are what it was called with, and while rm is half way the entry *)
(* it has marked is the one the abstract command finds.                    *)
EntriesWritten ==
  \A d \in Dirs : \A i \in Slots : Tab(d)[i].mark = "live" =>
    \/ Tab(d)[i] = Live(JunkName, "file", 0)
    \/ Tab(d)[i].name \in Names /\ Tab(d)[i].cl \in Clusters /\ Tab(d)[i].attr # "none"

WriteAsCalled ==
  pc \in {"data", "fat"} =>
    /\ job.old.mark # "live" /\ Tab(cur)[job.slot].name \in Names
    /\ \/ Tab(cur)[job.slot].attr = "file" /\ \E t \in Contents : job.sector = TextSector(t)
       \/ Tab(cur)[job.slot].attr = "dir" /\ job.sector = DirSector(EmptyTable)

RemovalAsCalled ==
  pc = "free" =>
    /\ job.slot \in Slots /\ Tab(cur)[job.slot].mark # "live"
    /\ job.old.mark = "live" /\ job.old.name \in Names /\ job.old.cl = job.cl
    /\ Store!Find(job.old.name, job.slot)

CatAsCalled ==
  pc = "cat" =>
    /\ job.old = Tab(cur)[job.slot] /\ job.old.name \in Names
    /\ Hit(Tab(cur), job.old.name, job.slot)
    /\ \/ job.cl = job.old.cl /\ job.shown = {}
       \/ job.cl = EOC /\ job.shown = {data[job.old.cl].text}

StoreInv ==
  /\ EntriesWritten /\ WriteAsCalled /\ RemovalAsCalled /\ CatAsCalled
  /\ \A c \in Clusters : data[c].kind = "dir" => data[c].text = DirBytes
==============================================================================
