----------------------------- MODULE Fat16Proofs -----------------------------
(***************************************************************************)
(* Theorems about Fat16 for any number of clusters and entries, any names  *)
(* and texts, and any contents of the FAT sector of the image.             *)
(***************************************************************************)
EXTENDS Fat16, TLAPS, WellFoundedInduction

------------------------------------------------------------------------------
(* Types.                                                                  *)

(* The entries and sectors the code builds are entries and sectors. *)
LEMMA ConstantTypes ==
  /\ 0 \notin Clusters /\ FREE \in Word /\ EOC \in Word
  /\ Clusters \subseteq Nat /\ 2 \in Clusters /\ 3 \in Clusters /\ 1 \in Slots
  /\ FREE \notin Clusters /\ EOC \notin Clusters
  /\ End \in Entry /\ Deleted \in Entry
  /\ EmptyTable \in Table /\ JunkTable \in Table /\ DummyTable \in Table
  /\ Blank \in Sector /\ NoJob \in Job
  /\ Clusters \subseteq Word /\ 0 \in Word /\ OnDisk \subseteq Clusters
<1>1. 0 \notin Clusters /\ Clusters \subseteq Nat /\ 2 \in Clusters /\ 3 \in Clusters
  BY SizeAssumption DEF Clusters
<1>2. FREE \notin Clusters /\ EOC \notin Clusters /\ FREE \in Word /\ EOC \in Word
  BY SizeAssumption DEF Clusters, FREE, EOC, Word
<1>3. 1 \in Slots
  BY SizeAssumption DEF Slots
<1>3a. Clusters \subseteq Word /\ 0 \in Word /\ OnDisk \subseteq Clusters
  BY SizeAssumption DEF Clusters, OnDisk, Word
<1>4. End \in Entry /\ Deleted \in Entry
  BY <1>3a DEF End, Deleted, Entry, Marks, Attrs, AllNames
<1>5. Live(JunkName, "file", 0) \in Entry /\ Live(DummyName, "file", 2) \in Entry
  BY <1>1, <1>3a DEF Live, Entry, Marks, Attrs, AllNames
<1>6. EmptyTable \in Table
  BY <1>4 DEF EmptyTable, Table
<1>7. JunkTable \in Table /\ DummyTable \in Table
  BY <1>5, <1>6 DEF JunkTable, DummyTable, Table
<1>8. Blank \in Sector
  BY <1>6 DEF Blank, Sector, AllTexts
<1>9. NoJob \in Job
  BY <1>3a, <1>4, <1>8 DEF NoJob, JobOf, Job, End
<1> QED BY <1>1, <1>2, <1>3, <1>3a, <1>4, <1>6, <1>7, <1>8, <1>9

LEMMA SectorTypes ==
  /\ \A t \in Contents \cup {DummyText} : TextSector(t) \in Sector
  /\ \A tab \in Table : DirSector(tab) \in Sector
  /\ \A tab \in Table : \A s : Rewritten(s, tab) \in Sector
<1>1. \A t \in Contents \cup {DummyText} : AsEntries[t] \in Table
  BY BytesAssumption
<1> QED BY <1>1 DEF TextSector, DirSector, Rewritten, Sector, AllTexts

(* A job of a command, whatever the command. *)
LEMMA JobType ==
  ASSUME NEW i \in Slots, NEW e \in Entry, NEW s \in Sector
  PROVE  JobOf(i, e, s) \in Job
BY DEF JobOf, Job, Entry

LEMMA TabType == ASSUME TypeOK, NEW d \in {0} \cup Clusters
                 PROVE Tab(d) \in Table
BY DEF TypeOK, Tab, Sector

(* A directory write keeps the types of the two variables it touches. *)
LEMMA WriteDirType == ASSUME TypeOK, NEW tab \in Table, WriteDir(tab)
                      PROVE root' \in Table /\ data' \in [Clusters -> Sector]
BY SectorTypes DEF TypeOK, WriteDir

LEMMA SayType == ASSUME NEW m \in Messages, NEW s \in SUBSET (AllNames \cup AllTexts), Say(m, s)
                 PROVE out' \in Replies
BY DEF Say, Reply, Replies

LEMMA TypeInit == Init => TypeOK
<1> SUFFICES ASSUME Init PROVE TypeOK
  OBVIOUS
<1>1. out \in Replies
  BY DEF Init, Reply, Replies, Messages
<1>2. fat \in [Clusters -> Word]
  BY SizeAssumption DEF Init
<1> QED BY <1>1, <1>2, ConstantTypes DEF Init, TypeOK, Steps

LEMMA TypeCreate ==
  ASSUME TypeOK, NEW n \in Names, NEW a \in Attrs, NEW s \in Sector, Create(n, a, s)
  PROVE TypeOK'
<1>1. PICK c \in Clusters, i \in Slots :
        /\ WriteDir([Tab(cur) EXCEPT ![i] = Live(n, a, c)])
        /\ job' = [JobOf(i, Tab(cur)[i], s) EXCEPT !.cl = c]
  BY DEF Create
<1>2. Tab(cur) \in Table
  BY TabType DEF TypeOK
<1>3. Live(n, a, c) \in Entry
  BY ConstantTypes DEF Live, Entry, Marks, AllNames
<1>4. [Tab(cur) EXCEPT ![i] = Live(n, a, c)] \in Table
  BY <1>2, <1>3 DEF Table
<1>5. root' \in Table /\ data' \in [Clusters -> Sector]
  BY <1>1, <1>4, WriteDirType
<1>6. job' \in Job
  <2>1. JobOf(i, Tab(cur)[i], s) \in Job
    BY <1>2, JobType DEF Table
  <2> QED BY <1>1, <2>1, ConstantTypes DEF Job
<1> QED BY <1>5, <1>6 DEF TypeOK, Create, Steps

LEMMA TypeRemove == ASSUME TypeOK, NEW n \in Names, RemoveFile(n) PROVE TypeOK'
<1>1. CASE Missing(Tab(cur), n) /\ Refuse("not found")
  <2>1. out' \in Replies
    BY <1>1, SayType DEF Messages, Refuse
  <2> QED BY <1>1, <2>1 DEF Refuse, TypeOK
<1>2. ASSUME NEW i \in Slots,
             WriteDir([Tab(cur) EXCEPT ![i] = Deleted]),
             IF Tab(cur)[i].cl >= 2
             THEN /\ pc' = "free"
                  /\ job' = JobOf(i, Tab(cur)[i], Blank)
                  /\ out' = out
             ELSE Finish("deleted"),
             UNCHANGED <<fat, cur>>
      PROVE TypeOK'
  <2>1. Tab(cur) \in Table
    BY TabType DEF TypeOK
  <2>2. [Tab(cur) EXCEPT ![i] = Deleted] \in Table
    BY <2>1, ConstantTypes DEF Table
  <2>3. root' \in Table /\ data' \in [Clusters -> Sector]
    BY <1>2, <2>2, WriteDirType
  <2>4. Tab(cur)[i] \in Entry
    BY <2>1 DEF Table
  <2>5. CASE Tab(cur)[i].cl >= 2
    <3>1. job' \in Job
      BY <1>2, <2>4, <2>5, ConstantTypes, JobType
    <3> QED BY <1>2, <2>3, <2>5, <3>1 DEF TypeOK, Steps
  <2>6. CASE ~ (Tab(cur)[i].cl >= 2)
    <3>1. out' \in Replies
      BY <1>2, <2>6, SayType DEF Messages, Finish
    <3> QED BY <1>2, <2>3, <2>6, <3>1, ConstantTypes DEF TypeOK, Steps, Finish
  <2> QED BY <2>5, <2>6
<1> QED BY <1>1, <1>2 DEF RemoveFile

(* The commands that write no sector keep the disk and show strings. *)
LEMMA TypeShow ==
  ASSUME TypeOK, NEW n \in Names,
         ChangeDirectory(n) \/ CatFile(n) \/ ExecuteProgram(n)
  PROVE TypeOK'
<1>1. Tab(cur) \in Table
  BY TabType DEF TypeOK
<1>2. \A i \in Slots : /\ Tab(cur)[i] \in Entry /\ Tab(cur)[i].name \in AllNames
                       /\ Tab(cur)[i].attr = "dir" => Tab(cur)[i].cl \in Clusters
  BY <1>1 DEF Table, Entry
<1>3. \A c \in Clusters : data[c].text \in AllTexts
  BY DEF TypeOK, Sector
<1>4. ASSUME Refuse("not found") PROVE TypeOK'
  <2>1. out' \in Replies
    BY <1>4, SayType DEF Messages, Refuse
  <2> QED BY <1>4, <2>1 DEF Refuse, TypeOK
<1>5. CASE ChangeDirectory(n)
  <2>1. ASSUME NEW i \in Slots,
               IF Tab(cur)[i].attr = "dir"
               THEN cur' = Tab(cur)[i].cl /\ Say("entered", {})
               ELSE cur' = cur /\ Say("not a directory", {}),
               UNCHANGED <<root, fat, data, pc, job>>
        PROVE TypeOK'
    <3>1. cur' \in {0} \cup Clusters
      BY <1>2, <2>1 DEF TypeOK
    <3>2. out' \in Replies
      BY <2>1, SayType DEF Messages
    <3> QED BY <2>1, <3>1, <3>2 DEF TypeOK
  <2> QED BY <1>4, <1>5, <2>1 DEF ChangeDirectory
<1>6. CASE CatFile(n)
  <2>1. ASSUME NEW i \in Slots, pc' = "cat", job' = JobOf(i, Tab(cur)[i], Blank),
               UNCHANGED <<root, fat, data, cur, out>>
        PROVE TypeOK'
    <3>1. job' \in Job
      BY <1>2, <2>1, ConstantTypes, JobType
    <3> QED BY <2>1, <3>1 DEF TypeOK, Steps
  <2> QED BY <1>4, <1>6, <2>1 DEF CatFile
<1>7. CASE ExecuteProgram(n)
  <2>1. ASSUME NEW i \in Slots,
               Say("running", {data[c].text : c \in {Tab(cur)[i].cl} \cap Clusters}),
               UNCHANGED <<root, fat, data, cur, pc, job>>
        PROVE TypeOK'
    <3>1. {data[c].text : c \in {Tab(cur)[i].cl} \cap Clusters}
            \in SUBSET (AllNames \cup AllTexts)
      BY <1>3
    <3>2. out' \in Replies
      BY <2>1, <3>1, SayType DEF Messages
    <3> QED BY <2>1, <3>2 DEF TypeOK
  <2>2. ASSUME pc' = "poll", UNCHANGED <<root, fat, data, cur, job, out>> PROVE TypeOK'
    BY <2>2 DEF TypeOK, Steps
  <2> QED BY <1>4, <1>7, <2>1, <2>2 DEF ExecuteProgram
<1> QED BY <1>5, <1>6, <1>7

LEMMA TypeList == ASSUME TypeOK, ListFiles PROVE TypeOK'
<1>1. Tab(cur) \in Table
  BY TabType DEF TypeOK
<1>2. {Tab(cur)[i].name : i \in Visible(Tab(cur))} \in SUBSET (AllNames \cup AllTexts)
  BY <1>1 DEF Visible, Table, Entry
<1>3. out' \in Replies
  BY <1>2, SayType DEF Messages, ListFiles
<1> QED BY <1>3 DEF ListFiles, TypeOK

LEMMA TypeCat == ASSUME TypeOK, CatNext \/ CatEnds PROVE TypeOK'
<1>1. CASE CatNext
  <2>1. job.cl \in Clusters
    BY <1>1, ConstantTypes DEF CatNext
  <2>2. fat[job.cl] \in Word /\ data[job.cl].text \in AllTexts
    BY <2>1 DEF TypeOK, Sector
  <2>3. job' \in Job
    BY <1>1, <2>2 DEF CatNext, TypeOK, Job
  <2> QED BY <1>1, <2>3 DEF CatNext, TypeOK
<1>2. CASE CatEnds
  <2>1. job.shown \in SUBSET (AllNames \cup AllTexts)
    BY DEF TypeOK, Job
  <2>2. out' \in Replies
    BY <1>2, <2>1, SayType DEF Messages, CatEnds
  <2> QED BY <1>2, <2>2, ConstantTypes DEF CatEnds, TypeOK, Steps
<1> QED BY <1>1, <1>2

LEMMA TypeStep == ASSUME TypeOK, [Next]_vars PROVE TypeOK'
<1>1. ASSUME NEW n \in Names, NEW t \in Contents, WriteFile(n, t) PROVE TypeOK'
  <2>1. TextSector(t) \in Sector /\ "file" \in Attrs
    BY SectorTypes DEF Attrs
  <2> QED BY <1>1, <2>1, TypeCreate DEF WriteFile
<1>2. ASSUME NEW n \in Names, MakeDirectory(n) PROVE TypeOK'
  <2>1. DirSector(EmptyTable) \in Sector /\ "dir" \in Attrs
    BY SectorTypes, ConstantTypes DEF Attrs
  <2> QED BY <1>2, <2>1, TypeCreate DEF MakeDirectory
<1>3. ASSUME NEW n \in Names, Command(n) PROVE TypeOK'
  BY <1>1, <1>2, <1>3, TypeRemove, TypeShow DEF Command
<1>4. CASE DiskFull \/ DirFull
  <2>1. out' \in Replies
    BY <1>4, SayType DEF Messages, DiskFull, DirFull, Refuse
  <2> QED BY <1>4, <2>1 DEF DiskFull, DirFull, Refuse, TypeOK
<1>5. CASE ChangeToRoot
  <2>1. out' \in Replies
    BY <1>5, SayType DEF Messages, ChangeToRoot
  <2> QED BY <1>5, <2>1 DEF ChangeToRoot, TypeOK
<1>6. CASE CreateDummyFile
  BY <1>6, ConstantTypes DEF CreateDummyFile, TypeOK, Steps
<1>7. CASE PutData
  BY <1>7 DEF PutData, TypeOK, Job, Steps
<1>8. CASE PutFat
  <2>1. out' \in Replies
    BY <1>8, SayType DEF Messages, PutFat, Finish
  <2>2. fat' \in [Clusters -> Word]
    BY <1>8, ConstantTypes DEF PutFat, TypeOK
  <2> QED BY <1>8, <2>1, <2>2, ConstantTypes DEF PutFat, Finish, TypeOK, Steps
<1>9. CASE FreeChain
  <2>1. out' \in Replies
    BY <1>9, SayType DEF Messages, FreeChain, Finish
  <2>2. fat' \in [Clusters -> Word]
    BY <1>9, ConstantTypes DEF FreeChain, TypeOK
  <2> QED BY <1>9, <2>1, <2>2, ConstantTypes DEF FreeChain, Finish, TypeOK, Steps
<1>10. CASE PutDummy("dummy2", 2, "dummy3") \/ PutDummy("dummy3", 3, "dummyfat")
  <2>1. TextSector(DummyText) \in Sector
    BY SectorTypes
  <2> QED BY <1>10, <2>1, ConstantTypes DEF PutDummy, TypeOK, Steps
<1>11. CASE PutDummyFat
  <2>1. out' \in Replies
    BY <1>11, SayType DEF Messages, PutDummyFat, Finish
  <2>2. 3 \in Word
    BY DEF Word
  <2>3. fat' \in [Clusters -> Word]
    BY <1>11, <2>2, ConstantTypes DEF PutDummyFat, TypeOK
  <2> QED BY <1>11, <2>1, <2>3, ConstantTypes DEF PutDummyFat, Finish, TypeOK, Steps
<1>12. CASE Crash
  <2>1. out' \in Replies
    BY <1>12, SayType DEF Messages, Crash
  <2> QED BY <1>12, <2>1, ConstantTypes DEF Crash, disk, TypeOK, Steps
<1>13. CASE ListFiles
  BY <1>13, TypeList
<1>14. CASE ReadDirHangs \/ UNCHANGED vars
  BY <1>14 DEF ReadDirHangs, vars, TypeOK, Steps
<1> QED BY <1>3, <1>4, <1>5, <1>6, <1>7, <1>8, <1>9, <1>10, <1>11, <1>12, <1>13, <1>14, TypeCat
        DEF Next, Continue

(* Every variable keeps its type, whatever the power does and whether or   *)
(* not mkdummy is used.                                                    *)
THEOREM TypeCorrect == Spec => []TypeOK
BY TypeInit, TypeStep, PTL DEF Spec

------------------------------------------------------------------------------
(* Ownership of clusters, when power fails only between commands or inside *)
(* rm and mkdummy is not used.                                             *)

(* A directory write changes one table and no other fact about the disk. *)
LEMMA DirectoryWrite ==
  ASSUME TypeOK, cur \in Dirs, NEW tab \in Table, WriteDir(tab), UNCHANGED <<fat, cur>>
  PROVE /\ Dirs' = Dirs
        /\ \A d \in Dirs : Tab(d)' = IF d = cur THEN tab ELSE Tab(d)
        /\ \A c \in Clusters : data'[c].kind = "dir" <=> data[c].kind = "dir"
<1>1. CASE cur = 0
  BY <1>1, ConstantTypes DEF WriteDir, Dirs, Tab
<1>2. CASE cur # 0
  <2>1. cur \in Clusters /\ data[cur].kind = "dir"
    BY <1>2 DEF Dirs
  <2>2. root' = root /\ data' = [data EXCEPT ![cur] = DirSector(tab)]
    <3>1. Rewritten(data[cur], tab) = DirSector(tab)
      BY <2>1 DEF Rewritten, DirSector
    <3> QED BY <1>2, <3>1 DEF WriteDir
  <2>3. data'[cur] = DirSector(tab)
    BY <2>1, <2>2 DEF TypeOK
  <2>4. \A c \in Clusters : c # cur => data'[c] = data[c]
    BY <2>2 DEF TypeOK
  <2>5. \A c \in Clusters : data'[c].kind = "dir" <=> data[c].kind = "dir"
    BY <2>1, <2>3, <2>4 DEF DirSector
  <2>6. Dirs' = Dirs
    BY <2>5 DEF Dirs
  <2>7. \A d \in Dirs : Tab(d)' = IF d = cur THEN tab ELSE Tab(d)
    BY <1>2, <2>2, <2>3, <2>4 DEF Tab, Dirs, DirSector
  <2> QED BY <2>5, <2>6, <2>7
<1> QED BY <1>1, <1>2

(* The chain of a cluster the FAT ends is that cluster alone. *)
LEMMA ChainOfOne == ASSUME NEW c \in Clusters, fat[c] = EOC PROVE Chain(c) = {c}
<1>1. {fat[c]} \cap Clusters = {}
  BY ConstantTypes
<1>2. {c} \in SUBSET Clusters /\ \A s \in {c} : {fat[s]} \cap Clusters \subseteq {c}
  BY <1>1
<1>3. Chain(c) \subseteq {c}
  BY <1>2 DEF Chain
<1>4. c \in Chain(c)
  BY DEF Chain
<1> QED BY <1>3, <1>4

(* What a scan finds is a live entry. *)
LEMMA HitIsLive == ASSUME NEW tab, NEW n, NEW i, Hit(tab, n, i)
                   PROVE i \in Slots /\ tab[i].mark = "live"
BY DEF Hit, Visible

(* What write_file and make_directory write first: one entry of the        *)
(* current directory, which was not live.                                  *)
CreateEffect(n, a, s, c, i) ==
  /\ FreeCluster(c) /\ FreeSlot(Tab(cur), i)
  /\ pc = "idle" /\ pc' = "data" /\ UNCHANGED <<fat, cur, out>>
  /\ job'.slot = i /\ job'.old = Tab(cur)[i] /\ job'.cl = c /\ job'.sector = s
  /\ WriteDir([Tab(cur) EXCEPT ![i] = Live(n, a, c)])
  /\ Dirs' = Dirs
  /\ \A b \in Clusters : data'[b].kind = "dir" <=> data[b].kind = "dir"
  /\ \A d \in Dirs : d # cur => Tab(d)' = Tab(d)
  /\ \A d \in Dirs : \A j \in Slots :
       Tab(d)'[j] = IF d = cur /\ j = i THEN Live(n, a, c) ELSE Tab(d)[j]

LEMMA CreateWrites ==
  ASSUME TypeOK, cur \in Dirs, NEW n, NEW a, NEW s, Create(n, a, s), Live(n, a, 2) \in Entry
  PROVE  \E c \in Clusters, i \in Slots : CreateEffect(n, a, s, c, i)
<1>1. PICK c \in Clusters, i \in Slots :
        /\ FreeCluster(c) /\ FreeSlot(Tab(cur), i)
        /\ WriteDir([Tab(cur) EXCEPT ![i] = Live(n, a, c)])
        /\ job' = [JobOf(i, Tab(cur)[i], s) EXCEPT !.cl = c]
  BY DEF Create
<1>j. job'.slot = i /\ job'.old = Tab(cur)[i] /\ job'.cl = c /\ job'.sector = s
  BY <1>1 DEF JobOf
<1>2. pc = "idle" /\ pc' = "data" /\ UNCHANGED <<fat, cur, out>>
  BY DEF Create
<1> DEFINE tab == [Tab(cur) EXCEPT ![i] = Live(n, a, c)]
<1>3. Tab(cur) \in Table
  BY TabType DEF Dirs
<1>4. Live(n, a, c) \in Entry
  BY ConstantTypes DEF Live, Entry
<1>5. tab \in Table
  BY <1>3, <1>4 DEF Table
<1>6. /\ Dirs' = Dirs
      /\ \A d \in Dirs : Tab(d)' = IF d = cur THEN tab ELSE Tab(d)
      /\ \A b \in Clusters : data'[b].kind = "dir" <=> data[b].kind = "dir"
  BY <1>1, <1>2, <1>5, DirectoryWrite
<1>7. tab[i] = Live(n, a, c) /\ \A j \in Slots : j # i => tab[j] = Tab(cur)[j]
  BY <1>3 DEF Table
<1>8. \A d \in Dirs : d # cur => Tab(d)' = Tab(d)
  BY <1>6
<1>9. \A d \in Dirs : \A j \in Slots :
         Tab(d)'[j] = IF d = cur /\ j = i THEN Live(n, a, c) ELSE Tab(d)[j]
  BY <1>6, <1>7
<1> QED BY <1>1, <1>j, <1>2, <1>6, <1>8, <1>9 DEF CreateEffect

(* What remove_file writes first: the mark of the entry that was found.    *)
RemoveEffect(n, i) ==
  /\ Hit(Tab(cur), n, i)
  /\ pc = "idle" /\ UNCHANGED <<fat, cur>>
  /\ IF Tab(cur)[i].cl >= 2
     THEN /\ pc' = "free" /\ out' = out
          /\ job'.slot = i /\ job'.old = Tab(cur)[i] /\ job'.cl = Tab(cur)[i].cl
     ELSE Finish("deleted")
  /\ WriteDir([Tab(cur) EXCEPT ![i] = Deleted])
  /\ Dirs' = Dirs
  /\ \A b \in Clusters : data'[b].kind = "dir" <=> data[b].kind = "dir"
  /\ \A d \in Dirs : d # cur => Tab(d)' = Tab(d)
  /\ \A d \in Dirs : \A j \in Slots :
       Tab(d)'[j] = IF d = cur /\ j = i THEN Deleted ELSE Tab(d)[j]

LEMMA RemoveWrites ==
  ASSUME TypeOK, cur \in Dirs, NEW n, RemoveFile(n)
  PROVE  \/ Missing(Tab(cur), n) /\ Refuse("not found")
         \/ \E i \in Slots : RemoveEffect(n, i)
<1> SUFFICES ASSUME ~(Missing(Tab(cur), n) /\ Refuse("not found"))
             PROVE  \E i \in Slots : RemoveEffect(n, i)
  OBVIOUS
<1>1. PICK i \in Slots :
        /\ Hit(Tab(cur), n, i)
        /\ WriteDir([Tab(cur) EXCEPT ![i] = Deleted])
        /\ IF Tab(cur)[i].cl >= 2
           THEN /\ pc' = "free"
                /\ job' = JobOf(i, Tab(cur)[i], Blank)
                /\ out' = out
           ELSE Finish("deleted")
        /\ UNCHANGED <<fat, cur>>
  BY DEF RemoveFile
<1>j. job' = JobOf(i, Tab(cur)[i], Blank) =>
        job'.slot = i /\ job'.old = Tab(cur)[i] /\ job'.cl = Tab(cur)[i].cl
  <2> DEFINE made == JobOf(i, Tab(cur)[i], Blank)
  <2>1. made.slot = i /\ made.old = Tab(cur)[i] /\ made.cl = Tab(cur)[i].cl
    BY DEF JobOf
  <2> HIDE DEF made
  <2>2. job' = made => job'.slot = i /\ job'.old = Tab(cur)[i] /\ job'.cl = Tab(cur)[i].cl
    BY <2>1
  <2> QED BY <2>2 DEF made
<1>2. pc = "idle"
  BY DEF RemoveFile
<1> DEFINE tab == [Tab(cur) EXCEPT ![i] = Deleted]
<1>3. Tab(cur) \in Table
  BY TabType DEF Dirs
<1>4. tab \in Table
  BY <1>3, ConstantTypes DEF Table
<1>5. /\ Dirs' = Dirs
      /\ \A d \in Dirs : Tab(d)' = IF d = cur THEN tab ELSE Tab(d)
      /\ \A b \in Clusters : data'[b].kind = "dir" <=> data[b].kind = "dir"
  BY <1>1, <1>4, DirectoryWrite
<1>6. tab[i] = Deleted /\ \A j \in Slots : j # i => tab[j] = Tab(cur)[j]
  BY <1>3 DEF Table
<1>7. \A d \in Dirs : d # cur => Tab(d)' = Tab(d)
  BY <1>5
<1>8. \A d \in Dirs : \A j \in Slots :
          Tab(d)'[j] = IF d = cur /\ j = i THEN Deleted ELSE Tab(d)[j]
  BY <1>5, <1>6
<1> QED BY <1>1, <1>j, <1>2, <1>5, <1>7, <1>8 DEF RemoveEffect

(* Steps that leave the disk alone, outside the commands that write, keep  *)
(* IInv.                                                                   *)
Reading == {"idle", "cat", "poll"}

LEMMA InvUnchanged ==
  ASSUME IInv, TypeOK', UNCHANGED <<root, fat, data>>, cur' \in Dirs,
         (pc \in Reading /\ pc' \in Reading) \/ UNCHANGED <<cur, pc, job>>
  PROVE IInv'
<1>1. Dirs' = Dirs /\ \A d \in Dirs : Tab(d)' = Tab(d)
  BY DEF Dirs, Tab
<1>2. \A d, i, c : d \in Dirs => (Owns(d, i, c)' <=> Owns(d, i, c))
  BY <1>1 DEF Owns
<1>3. UniqueOwner' /\ NotItsOwnParent'
  BY <1>1, <1>2 DEF IInv, UniqueOwner, NotItsOwnParent
<1>4. \A d, i : IsPending(d, i)' <=> IsPending(d, i)
  BY DEF IsPending, Reading
<1>5. EntriesSound'
  BY <1>1, <1>2, <1>4 DEF IInv, EntriesSound
<1>6. WriteInProgress' /\ RemovalInProgress'
  BY <1>1, <1>2 DEF IInv, WriteInProgress, RemovalInProgress, Reading
<1>7. pc' \in {"idle", "data", "fat", "free", "cat", "poll"}
  BY DEF IInv, Reading
<1>8. NamesNothingElse'
  BY <1>1 DEF IInv, NamesNothingElse
<1> QED BY <1>1, <1>3, <1>5, <1>6, <1>7, <1>8 DEF IInv

LEMMA InvInit == Init => IInv
<1> SUFFICES ASSUME Init PROVE IInv
  OBVIOUS
<1>1. Dirs = {0}
  BY ConstantTypes DEF Init, Dirs, Blank
<1>2. \A i \in Slots : Tab(0)[i].mark = "live" => Tab(0)[i].cl = 0
  BY ConstantTypes DEF Init, Tab, EmptyTable, JunkTable, End, Live
<1>3. \A i \in Slots : \A c \in Clusters : ~Owns(0, i, c)
  BY <1>2, ConstantTypes DEF Owns
<1>4. UniqueOwner /\ EntriesSound /\ NotItsOwnParent /\ NamesNothingElse
  BY <1>1, <1>2, <1>3 DEF UniqueOwner, EntriesSound, NotItsOwnParent, NamesNothingElse
<1>5. WriteInProgress /\ RemovalInProgress
  BY DEF Init, WriteInProgress, RemovalInProgress
<1> QED BY <1>1, <1>4, <1>5, TypeInit DEF Init, IInv

(* A new entry points to a cluster no entry owned. *)
LEMMA InvCreate ==
  ASSUME IInv, TypeOK', NEW n, NEW a, NEW s, Create(n, a, s),
         a = "dir" => s.kind = "dir", s.kind = "dir" => s.ents = EmptyTable,
         Live(n, a, 2) \in Entry
  PROVE IInv'
<1>1. PICK c \in Clusters, i \in Slots : CreateEffect(n, a, s, c, i)
  BY CreateWrites DEF IInv
<1>2. pc = "idle" /\ pc' = "data" /\ UNCHANGED <<fat, cur>>
  BY <1>1 DEF CreateEffect
<1>3. TypeOK /\ cur \in Dirs
  BY DEF IInv
<1>7. /\ Dirs' = Dirs
      /\ \A b \in Clusters : data'[b].kind = "dir" <=> data[b].kind = "dir"
  BY <1>1 DEF CreateEffect
<1>9. fat[c] = FREE /\ cur # c
  BY <1>1, <1>3, ConstantTypes DEF CreateEffect, FreeCluster, Dirs
<1>10. \A d \in Dirs : \A j \in Slots : ~Owns(d, j, c)
  <2>1. \A d, j : ~IsPending(d, j)
    BY <1>2 DEF IsPending
  <2> QED BY <1>9, <2>1 DEF IInv, EntriesSound, FREE, EOC
<1>11. \A d \in Dirs : \A j \in Slots :
         Tab(d)'[j] = IF d = cur /\ j = i THEN Live(n, a, c) ELSE Tab(d)[j]
  BY <1>1 DEF CreateEffect
<1>12. \A d \in Dirs : \A j \in Slots : \A b \in Clusters :
         Owns(d, j, b)' <=> IF d = cur /\ j = i THEN b = c ELSE Owns(d, j, b)
  BY <1>11 DEF Owns, Live
<1>13. UniqueOwner'
  BY <1>7, <1>10, <1>12 DEF IInv, UniqueOwner
<1>14. EntriesSound'
  <2>1. \A d \in Dirs : \A j \in Slots : IsPending(d, j)' <=> d = cur /\ j = i
    BY <1>1, <1>2 DEF IsPending, CreateEffect
  <2>2. \A d, j : ~IsPending(d, j)
    BY <1>2 DEF IsPending
  <2>3. \A d \in Dirs : \A j \in Slots : ~(d = cur /\ j = i) => Tab(d)'[j] = Tab(d)[j]
    BY <1>11
  <2> QED BY <1>2, <1>7, <1>12, <2>1, <2>2, <2>3 DEF IInv, EntriesSound
<1>15. NotItsOwnParent'
  BY <1>7, <1>9, <1>12 DEF IInv, NotItsOwnParent
<1>16. WriteInProgress'
  <2>1. Tab(cur)'[i] = Live(n, a, c)
    BY <1>2, <1>3, <1>11 DEF Tab
  <2>2. job'.slot = i /\ job'.cl = c /\ job'.sector = s
    BY <1>1 DEF CreateEffect
  <2>3. Owns(cur, i, c)' /\ Tab(cur)'[i].attr = a
    BY <2>1 DEF Owns, Live
  <2> QED BY <1>2, <1>9, <2>2, <2>3 DEF WriteInProgress
<1>17. RemovalInProgress'
  BY <1>2 DEF RemovalInProgress
<1>18. NamesNothingElse'
  BY <1>7, <1>11 DEF IInv, NamesNothingElse, Live
<1> QED BY <1>2, <1>3, <1>7, <1>13, <1>14, <1>15, <1>16, <1>17, <1>18 DEF IInv

(* The data sector being written is one nothing reads yet. *)
LEMMA InvPutData == ASSUME IInv, TypeOK', PutData PROVE IInv'
<1>1. /\ pc = "data" /\ pc' = "fat" /\ UNCHANGED <<root, fat, cur, job>>
      /\ data' = [data EXCEPT ![job.cl] = job.sector]
  BY DEF PutData
<1>2. /\ job.cl \in Clusters /\ fat[job.cl] = FREE /\ Owns(cur, job.slot, job.cl)
      /\ job.slot \in Slots
      /\ Tab(cur)[job.slot].attr = "dir" => job.sector.kind = "dir"
      /\ job.sector.kind = "dir" => job.sector.ents = EmptyTable
  BY <1>1 DEF IInv, WriteInProgress
<1>3. /\ data'[job.cl] = job.sector
      /\ \A c \in Clusters : fat[c] # FREE => data'[c] = data[c]
  BY <1>1, <1>2 DEF IInv, TypeOK
<1>4. Dirs' = Dirs
  BY <1>1, <1>3 DEF Dirs
<1>5. \A d \in Dirs : Tab(d)' = Tab(d)
  BY <1>1, <1>3 DEF Dirs, Tab
<1>6. \A d \in Dirs : \A i \in Slots : \A c \in Clusters : Owns(d, i, c)' <=> Owns(d, i, c)
  BY <1>5 DEF Owns
<1>7. UniqueOwner' /\ NotItsOwnParent'
  BY <1>4, <1>6 DEF IInv, UniqueOwner, NotItsOwnParent
<1>8. \A d, i : IsPending(d, i)' <=> IsPending(d, i)
  BY <1>1 DEF IsPending
<1>9. EntriesSound'
  <2>1. EOC # FREE
    BY DEF EOC, FREE
  <2> QED BY <1>1, <1>3, <1>4, <1>5, <1>6, <1>8, <2>1 DEF IInv, EntriesSound
<1>10. WriteInProgress'
  <2>1. cur \in Dirs /\ cur' = cur
    BY <1>1 DEF IInv
  <2>2. Tab(cur)' = Tab(cur)
    BY <1>5, <2>1 DEF Tab
  <2>3. Owns(cur, job.slot, job.cl)'
    BY <1>1, <1>2, <2>2 DEF Owns
  <2> QED BY <1>1, <1>2, <1>3, <2>2, <2>3 DEF WriteInProgress
<1>11. RemovalInProgress'
  BY <1>1 DEF RemovalInProgress
<1>12. NamesNothingElse'
  BY <1>4, <1>5 DEF IInv, NamesNothingElse
<1> QED BY <1>1, <1>4, <1>7, <1>9, <1>10, <1>11, <1>12 DEF IInv

(* The pending entry becomes sound; a new directory owns nothing. *)
LEMMA InvPutFat == ASSUME IInv, TypeOK', PutFat PROVE IInv'
<1>1. /\ pc = "fat" /\ pc' = "idle" /\ UNCHANGED <<root, data, cur>>
      /\ fat' = [fat EXCEPT ![job.cl] = EOC]
  BY DEF PutFat, Finish
<1>2. /\ job.cl \in Clusters /\ fat[job.cl] = FREE /\ Owns(cur, job.slot, job.cl)
      /\ job.slot \in Slots
      /\ Tab(cur)[job.slot].attr = "dir" => data[job.cl].kind = "dir"
      /\ data[job.cl].kind = "dir" => data[job.cl].ents = EmptyTable
  BY <1>1 DEF IInv, WriteInProgress
<1>3. /\ fat'[job.cl] = EOC
      /\ \A c \in Clusters : c # job.cl => fat'[c] = fat[c]
  BY <1>1, <1>2 DEF IInv, TypeOK
<1>4. \A d : Tab(d)' = Tab(d)
  BY <1>1 DEF Tab
<1>5. Dirs' = IF data[job.cl].kind = "dir" THEN Dirs \cup {job.cl} ELSE Dirs
  BY <1>1, <1>2, <1>3 DEF Dirs, EOC, FREE
<1>6. data[job.cl].kind = "dir" =>
        \A i \in Slots : \A c \in Clusters : ~Owns(job.cl, i, c)
  BY <1>2, ConstantTypes DEF Owns, Tab, EmptyTable, End
<1>7. \A d \in Dirs' : \A i \in Slots : \A c \in Clusters :
        Owns(d, i, c)' <=> d \in Dirs /\ Owns(d, i, c)
  BY <1>4, <1>5, <1>6 DEF Owns
<1>8. UniqueOwner' /\ NotItsOwnParent'
  BY <1>7 DEF IInv, UniqueOwner, NotItsOwnParent
<1>9. EntriesSound'
  <2> SUFFICES ASSUME NEW c \in Clusters, NEW d \in Dirs', NEW i \in Slots, Owns(d, i, c)'
               PROVE fat'[c] = EOC /\ (Tab(d)[i].attr = "dir" => data[c].kind = "dir")
    BY <1>1, <1>4 DEF EntriesSound
  <2>1. d \in Dirs /\ Owns(d, i, c)
    BY <1>7
  <2>2. CASE IsPending(d, i)
    <3>1. d = cur /\ i = job.slot
      BY <2>2 DEF IsPending
    <3>2. c = job.cl
      BY <1>2, <2>1, <3>1 DEF Owns
    <3> QED BY <1>2, <1>3, <3>1, <3>2
  <2>3. CASE ~IsPending(d, i)
    BY <1>3, <2>1, <2>3 DEF IInv, EntriesSound
  <2> QED BY <2>2, <2>3
<1>10. WriteInProgress' /\ RemovalInProgress'
  BY <1>1 DEF WriteInProgress, RemovalInProgress
<1>11. cur' \in Dirs'
  BY <1>1, <1>5 DEF IInv
<1>12. NamesNothingElse'
  <2>1. data[job.cl].kind = "dir" => \A i \in Slots : Tab(job.cl)[i].mark # "live"
    BY <1>2, ConstantTypes DEF Tab, EmptyTable, End
  <2> QED BY <1>4, <1>5, <2>1 DEF IInv, NamesNothingElse
<1> QED BY <1>1, <1>8, <1>9, <1>10, <1>11, <1>12 DEF IInv

(* rm takes the only entry that owned the cluster. *)
LEMMA InvRemove == ASSUME IInv, TypeOK', NEW n, RemoveFile(n) PROVE IInv'
<1>1. CASE Refuse("not found")
  BY <1>1, InvUnchanged DEF Refuse, IInv
<1>2. ASSUME NEW i \in Slots, RemoveEffect(n, i) PROVE IInv'
  <2>1. pc = "idle" /\ TypeOK /\ cur \in Dirs /\ UNCHANGED <<fat, cur>>
    BY <1>2 DEF RemoveEffect, IInv
  <2>2. Tab(cur) \in Table
    BY <2>1, TabType DEF Dirs
  <2>4. /\ Dirs' = Dirs
        /\ \A b \in Clusters : data'[b].kind = "dir" <=> data[b].kind = "dir"
    BY <1>2 DEF RemoveEffect
  <2>6. \A d \in Dirs : \A j \in Slots :
          Tab(d)'[j] = IF d = cur /\ j = i THEN Deleted ELSE Tab(d)[j]
    BY <1>2 DEF RemoveEffect
  <2>7. \A d \in Dirs : \A j \in Slots : \A c \in Clusters :
          Owns(d, j, c)' <=> ~(d = cur /\ j = i) /\ Owns(d, j, c)
    BY <2>6 DEF Owns, Deleted
  <2>8. UniqueOwner' /\ NotItsOwnParent'
    BY <2>4, <2>7 DEF IInv, UniqueOwner, NotItsOwnParent
  <2>9. pc' \in {"idle", "free"}
    BY <1>2 DEF RemoveEffect, Finish
  <2>10. EntriesSound'
    <3>1. \A d, j : ~IsPending(d, j) /\ ~IsPending(d, j)'
      BY <2>1, <2>9 DEF IsPending
    <3> QED BY <2>1, <2>4, <2>6, <2>7, <3>1 DEF IInv, EntriesSound
  <2>11. WriteInProgress'
    BY <2>9 DEF WriteInProgress
  <2>12. RemovalInProgress'
    <3> SUFFICES ASSUME pc' = "free" PROVE RemovalInProgress'
      BY DEF RemovalInProgress
    <3>1. Tab(cur)[i].cl >= 2 /\ job'.cl = Tab(cur)[i].cl
      BY <1>2 DEF RemoveEffect, Finish
    <3>2. PICK c \in Clusters : c = Tab(cur)[i].cl
      <4>1. Tab(cur)[i].mark = "live"
        BY <1>2, HitIsLive DEF RemoveEffect
      <4>2. Tab(cur)[i].cl \in {0} \cup Clusters
        BY <2>1, <4>1 DEF IInv, NamesNothingElse
      <4> QED BY <3>1, <4>2
    <3>3. Owns(cur, i, c)
      BY <1>2, <3>2, HitIsLive DEF RemoveEffect, Owns
    <3>4. fat[c] = EOC
      BY <2>1, <3>2, <3>3 DEF IInv, EntriesSound, IsPending
    <3>5. \A d \in Dirs : \A j \in Slots : ~Owns(d, j, c)'
      BY <2>1, <2>7, <3>2, <3>3 DEF IInv, UniqueOwner
    <3>6. c # cur
      BY <2>1, <3>2, <3>3 DEF IInv, NotItsOwnParent
    <3>7. job'.cl = c
      BY <3>1, <3>2
    <3>8. fat'[c] = EOC /\ cur' = cur
      BY <2>1, <3>4
    <3>9. \A d \in Dirs' : \A j \in Slots : ~Owns(d, j, job.cl)'
      BY <2>4, <3>5, <3>7 DEF Owns
    <3> QED BY <3>2, <3>6, <3>7, <3>8, <3>9 DEF RemovalInProgress
  <2>13. NamesNothingElse'
    BY <2>4, <2>6 DEF IInv, NamesNothingElse, Deleted
  <2> QED BY <2>1, <2>4, <2>8, <2>9, <2>10, <2>11, <2>12, <2>13 DEF IInv
<1> QED BY <1>1, <1>2, RemoveWrites DEF IInv

(* The cluster that becomes free belongs to no entry. *)
LEMMA InvFreeChain == ASSUME IInv, TypeOK', FreeChain PROVE IInv'
<1>1. /\ job.cl \in Clusters /\ job.cl # cur /\ fat[job.cl] = EOC /\ pc = "free"
      /\ \A d \in Dirs : \A i \in Slots : ~Owns(d, i, job.cl)
  BY DEF FreeChain, IInv, RemovalInProgress
<1>2. Chain(job.cl) = {job.cl}
  BY <1>1, ChainOfOne
<1>3. /\ pc' = "idle" /\ UNCHANGED <<root, data, cur>>
      /\ fat' = [c \in Clusters |-> IF c = job.cl THEN FREE ELSE fat[c]]
  BY <1>2 DEF FreeChain, Finish
<1>4. Dirs' = Dirs \ {job.cl}
  BY <1>1, <1>3, ConstantTypes DEF Dirs
<1>5. \A d : Tab(d)' = Tab(d)
  BY <1>3 DEF Tab
<1>6. \A d, i, c : Owns(d, i, c)' <=> Owns(d, i, c)
  BY <1>5 DEF Owns
<1>7. UniqueOwner' /\ NotItsOwnParent'
  BY <1>4, <1>6 DEF IInv, UniqueOwner, NotItsOwnParent
<1>8. EntriesSound'
  <2>1. \A d, i : ~IsPending(d, i)
    BY <1>1 DEF IsPending
  <2> SUFFICES ASSUME NEW c \in Clusters, NEW d \in Dirs', NEW i \in Slots, Owns(d, i, c)'
               PROVE fat'[c] = EOC /\ (Tab(d)[i].attr = "dir" => data[c].kind = "dir")
    BY <1>3, <1>5 DEF EntriesSound
  <2>2. d \in Dirs /\ Owns(d, i, c)
    BY <1>4, <1>6
  <2>3. c # job.cl
    BY <1>1, <2>2
  <2> QED BY <1>3, <2>1, <2>2, <2>3 DEF IInv, EntriesSound
<1>9. WriteInProgress' /\ RemovalInProgress'
  BY <1>3 DEF WriteInProgress, RemovalInProgress
<1>10. NamesNothingElse'
  BY <1>4, <1>5 DEF IInv, NamesNothingElse
<1> QED BY <1>1, <1>3, <1>4, <1>7, <1>8, <1>9, <1>10 DEF IInv

(* cd goes to an allocated directory. *)
LEMMA InvChangeDirectory ==
  ASSUME IInv, TypeOK', NEW n, ChangeDirectory(n) PROVE IInv'
<1>1. CASE Refuse("not found")
  BY <1>1, InvUnchanged DEF Refuse, IInv
<1>2. ASSUME NEW i \in Slots, Hit(Tab(cur), n, i),
             IF Tab(cur)[i].attr = "dir"
             THEN cur' = Tab(cur)[i].cl /\ Say("entered", {})
             ELSE cur' = cur /\ Say("not a directory", {}),
             UNCHANGED <<root, fat, data, pc, job>>
      PROVE IInv'
  <2>1. pc = "idle" /\ TypeOK /\ cur \in Dirs
    BY DEF ChangeDirectory, IInv
  <2>2. cur' \in Dirs
    <3>1. CASE Tab(cur)[i].attr = "dir"
      <4>1. PICK c \in Clusters : c = Tab(cur)[i].cl
        <5>1. i \in Slots /\ Tab(cur) \in Table
          BY <2>1, TabType DEF Dirs
        <5> QED BY <3>1, <5>1 DEF Table, Entry
      <4>2. Owns(cur, i, c)
        BY <1>2, <4>1, HitIsLive DEF Owns
      <4>3. fat[c] = EOC /\ data[c].kind = "dir"
        BY <2>1, <3>1, <4>2 DEF IInv, EntriesSound, IsPending
      <4> QED BY <1>2, <3>1, <4>1, <4>3 DEF Dirs, EOC, FREE
    <3>2. CASE Tab(cur)[i].attr # "dir"
      BY <1>2, <2>1, <3>2
    <3> QED BY <3>1, <3>2
  <2> QED BY <1>2, <2>1, <2>2, InvUnchanged DEF Reading
<1> QED BY <1>1, <1>2 DEF ChangeDirectory

LEMMA InvCrash == ASSUME IInv, TypeOK', Crash, pc \in {"idle", "free"} PROVE IInv'
<1>1. pc' = "idle" /\ cur' = 0 /\ UNCHANGED <<root, fat, data>>
  BY DEF Crash, disk
<1>2. Dirs' = Dirs /\ (\A d : Tab(d)' = Tab(d)) /\ 0 \in Dirs
  BY <1>1 DEF Dirs, Tab
<1>3. \A d, i, c : Owns(d, i, c)' <=> Owns(d, i, c)
  BY <1>2 DEF Owns
<1>4. \A d, i : ~IsPending(d, i) /\ ~IsPending(d, i)'
  BY <1>1 DEF IsPending
<1>5. UniqueOwner' /\ NotItsOwnParent' /\ NamesNothingElse'
  BY <1>2, <1>3 DEF IInv, UniqueOwner, NotItsOwnParent, NamesNothingElse
<1>6. EntriesSound'
  BY <1>1, <1>2, <1>3, <1>4 DEF IInv, EntriesSound
<1>7. WriteInProgress' /\ RemovalInProgress'
  BY <1>1 DEF WriteInProgress, RemovalInProgress
<1> QED BY <1>1, <1>2, <1>5, <1>6, <1>7 DEF IInv

LEMMA InvStep ==
  ASSUME IInv, [Next]_vars, CrashAt \subseteq {"idle", "free"}, AllowDummy = FALSE
  PROVE IInv'
<1>1. TypeOK'
  BY TypeStep DEF IInv
<1>2. ASSUME NEW n \in Names, NEW t \in Contents, WriteFile(n, t) PROVE IInv'
  <2>1. Live(n, "file", 2) \in Entry
    BY ConstantTypes DEF Live, Entry, Marks, Attrs, AllNames
  <2>2. TextSector(t).kind # "dir"
    BY DEF TextSector
  <2> QED BY <1>1, <1>2, <2>1, <2>2, InvCreate DEF WriteFile
<1>3. ASSUME NEW n \in Names, MakeDirectory(n) PROVE IInv'
  <2>1. Live(n, "dir", 2) \in Entry
    BY ConstantTypes DEF Live, Entry, Marks, Attrs, AllNames
  <2>2. DirSector(EmptyTable).kind = "dir" /\ DirSector(EmptyTable).ents = EmptyTable
    BY DEF DirSector
  <2> QED BY <1>1, <1>3, <2>1, <2>2, InvCreate DEF MakeDirectory
<1>4. ASSUME \/ \E n \in Names : CatFile(n) \/ ExecuteProgram(n)
             \/ CatNext \/ CatEnds \/ ReadDirHangs
      PROVE IInv'
  <2>1. UNCHANGED <<root, fat, data, cur>> /\ pc \in Reading /\ pc' \in Reading
    BY <1>4 DEF CatFile, ExecuteProgram, Refuse, CatNext, CatEnds, ReadDirHangs, Reading
  <2> QED BY <1>1, <2>1, InvUnchanged DEF IInv
<1>5. ASSUME NEW n \in Names, Command(n) PROVE IInv'
  BY <1>1, <1>2, <1>3, <1>4, <1>5, InvRemove, InvChangeDirectory DEF Command
<1>6. CASE DiskFull \/ DirFull \/ ListFiles \/ UNCHANGED vars
  <2>1. UNCHANGED <<root, fat, data, cur, pc, job>>
    BY <1>6 DEF DiskFull, DirFull, Refuse, ListFiles, vars
  <2> QED BY <1>1, <2>1, InvUnchanged DEF IInv
<1>7. CASE ChangeToRoot
  <2>1. pc = "idle" /\ cur' = 0 /\ UNCHANGED <<root, fat, data, pc, job>>
    BY <1>7 DEF ChangeToRoot
  <2>2. cur' \in Dirs
    BY <2>1 DEF Dirs
  <2> QED BY <1>1, <2>1, <2>2, InvUnchanged DEF Reading
<1>8. CASE PutData
  BY <1>1, <1>8, InvPutData
<1>9. CASE PutFat
  BY <1>1, <1>9, InvPutFat
<1>10. CASE FreeChain
  BY <1>1, <1>10, InvFreeChain
<1>11. CASE CreateDummyFile
  BY <1>11 DEF CreateDummyFile
<1>12. CASE PutDummy("dummy2", 2, "dummy3") \/ PutDummy("dummy3", 3, "dummyfat")
            \/ PutDummyFat
  BY <1>12 DEF PutDummy, PutDummyFat, IInv
<1>13. CASE Crash
  <2>1. pc \in {"idle", "free"}
    BY <1>13 DEF Crash
  <2> QED BY <1>1, <1>13, <2>1, InvCrash
<1> QED BY <1>4, <1>5, <1>6, <1>7, <1>8, <1>9, <1>10, <1>11, <1>12, <1>13 DEF Next, Continue

(* Without mkdummy, and when power fails only between commands or between  *)
(* the two writes of rm, no two entries ever share a cluster.              *)
THEOREM OwnersUnique ==
  ASSUME CrashAt \subseteq {"idle", "free"}, AllowDummy = FALSE
  PROVE  Spec => []UniqueOwner
<1>1. Init => IInv
  BY InvInit
<1>2. IInv /\ [Next]_vars => IInv'
  BY InvStep
<1>3. IInv => UniqueOwner
  BY DEF IInv
<1> QED BY <1>1, <1>2, <1>3, PTL DEF Spec

(* Under the same conditions every entry, but the one being written, owns  *)
(* an allocated cluster that is its whole chain.                           *)
THEOREM EntriesAlwaysSound ==
  ASSUME CrashAt \subseteq {"idle", "free"}, AllowDummy = FALSE
  PROVE  Spec => []EntriesSound
<1>1. Init => IInv
  BY InvInit
<1>2. IInv /\ [Next]_vars => IInv'
  BY InvStep
<1>3. IInv => EntriesSound
  BY DEF IInv
<1> QED BY <1>1, <1>2, <1>3, PTL DEF Spec
------------------------------------------------------------------------------
(* What no step does, from the same invariant. *)

(* In a data sector that is written over there was a directory, or the     *)
(* cluster was free.                                                       *)
LEMMA OverwrittenSectors ==
  ASSUME IInv, [Next]_vars, AllowDummy = FALSE, NEW c \in Clusters, data'[c] # data[c]
  PROVE  fat[c] = FREE \/ data[c].kind = "dir"
<1>1. ASSUME NEW tab, WriteDir(tab) PROVE data[c].kind = "dir"
  <2>1. cur # 0 /\ data' = [data EXCEPT ![cur] = Rewritten(data[cur], tab)]
    BY <1>1 DEF WriteDir
  <2>2. c = cur
    BY <2>1 DEF IInv, TypeOK
  <2> QED BY <2>1, <2>2 DEF IInv, Dirs
<1>2. ASSUME PutData PROVE fat[c] = FREE
  <2>1. c = job.cl /\ pc = "data"
    BY <1>2 DEF PutData, IInv, TypeOK
  <2> QED BY <2>1 DEF IInv, WriteInProgress
<1>3. ~CreateDummyFile /\ pc \in {"idle", "data", "fat", "free", "cat", "poll"}
  BY DEF CreateDummyFile, IInv
<1> QED BY <1>1, <1>2, <1>3
     DEF Next, vars, Command, Continue, WriteFile, MakeDirectory, Create, RemoveFile,
         ChangeDirectory, CatFile, ExecuteProgram, Refuse, DiskFull, DirFull, ChangeToRoot,
         ListFiles, ReadDirHangs, PutFat, FreeChain, CatNext, CatEnds, PutDummy, PutDummyFat,
         Crash, disk

(* A saved text is never written over while its cluster is allocated:      *)
(* what write_sector is given by write_file, make_directory and            *)
(* remove_file.                                                            *)
THEOREM SavedTextAlwaysStays ==
  ASSUME CrashAt \subseteq {"idle", "free"}, AllowDummy = FALSE
  PROVE  Spec => SavedTextStays
<1>1. Init => IInv
  BY InvInit
<1>2. IInv /\ [Next]_vars => IInv'
  BY InvStep
<1>3. IInv /\ [Next]_vars =>
        [\A c \in Clusters : (fat[c] = EOC /\ fat'[c] = EOC /\ data[c].kind = "text")
                               => data'[c] = data[c]]_vars
  <2> SUFFICES ASSUME IInv, [Next]_vars, NEW c \in Clusters,
                      fat[c] = EOC, data[c].kind = "text"
               PROVE  data'[c] = data[c]
    OBVIOUS
  <2>1. fat[c] # FREE /\ data[c].kind # "dir"
    BY DEF FREE, EOC
  <2> QED BY <2>1, OverwrittenSectors
<1> QED BY <1>1, <1>2, <1>3, PTL DEF Spec, SavedTextStays

(* No other step changes a directory or its place on the disk; cd and a    *)
(* cut of power change the current one.                                    *)
DirectoriesStay ==
  /\ Dirs' = Dirs /\ \A d \in Dirs : Tab(d)' = Tab(d)
  /\ \/ cur' \in {cur, 0}
     \/ \E i \in Slots : /\ Tab(cur)[i].mark = "live" /\ Tab(cur)[i].attr = "dir"
                         /\ cur' = Tab(cur)[i].cl

LEMMA StepKinds ==
  ASSUME IInv, [Next]_vars, CrashAt \subseteq {"idle", "free"}, AllowDummy = FALSE
  PROVE  \/ \E n, a, s : \E c \in Clusters, i \in Slots : CreateEffect(n, a, s, c, i)
         \/ \E n : \E i \in Slots : RemoveEffect(n, i)
         \/ PutFat \/ FreeChain
         \/ DirectoriesStay
<1> DEFINE Kinds == \/ \E n, a, s : \E c \in Clusters, i \in Slots : CreateEffect(n, a, s, c, i)
                    \/ \E n : \E i \in Slots : RemoveEffect(n, i)
                    \/ PutFat \/ FreeChain
                    \/ DirectoriesStay
<1>1. TypeOK /\ cur \in Dirs
  BY DEF IInv
<1>2. ASSUME UNCHANGED <<root, fat, data>>, cur' \in {cur, 0} PROVE DirectoriesStay
  BY <1>2 DEF DirectoriesStay, Dirs, Tab
<1>3. ASSUME NEW n \in Names, NEW t \in Contents, WriteFile(n, t) PROVE Kinds
  <2>1. Live(n, "file", 2) \in Entry
    BY ConstantTypes DEF Live, Entry, Marks, Attrs, AllNames
  <2> QED BY <1>1, <1>3, <2>1, CreateWrites DEF WriteFile
<1>4. ASSUME NEW n \in Names, MakeDirectory(n) PROVE Kinds
  <2>1. Live(n, "dir", 2) \in Entry
    BY ConstantTypes DEF Live, Entry, Marks, Attrs, AllNames
  <2> QED BY <1>1, <1>4, <2>1, CreateWrites DEF MakeDirectory
<1>5. ASSUME NEW n \in Names, RemoveFile(n) PROVE Kinds
  <2>1. CASE Refuse("not found")
    BY <1>2, <2>1 DEF Refuse
  <2> QED BY <1>1, <1>5, <2>1, RemoveWrites
<1>6. ASSUME NEW n \in Names, ChangeDirectory(n) PROVE Kinds
  <2>1. CASE Refuse("not found")
    BY <1>2, <2>1 DEF Refuse
  <2>2. ASSUME NEW i \in Slots, Hit(Tab(cur), n, i), Tab(cur)[i].attr = "dir",
               cur' = Tab(cur)[i].cl, UNCHANGED <<root, fat, data>>
        PROVE  DirectoriesStay
    BY <2>2, HitIsLive DEF DirectoriesStay, Dirs, Tab
  <2> QED BY <1>2, <1>6, <2>1, <2>2 DEF ChangeDirectory
<1>7. ASSUME NEW n \in Names, CatFile(n) \/ ExecuteProgram(n) PROVE Kinds
  BY <1>2, <1>7 DEF CatFile, ExecuteProgram, Refuse
<1>8. CASE PutData
  <2>1. fat[job.cl] = FREE /\ job.cl \in Clusters
    BY <1>8 DEF PutData, IInv, WriteInProgress
  <2>2. \A b \in Clusters : fat[b] # FREE => data'[b] = data[b]
    BY <1>1, <1>8, <2>1 DEF PutData, TypeOK
  <2> QED BY <1>8, <2>2 DEF PutData, DirectoriesStay, Dirs, Tab
<1>9. CASE CreateDummyFile \/ PutDummy("dummy2", 2, "dummy3")
            \/ PutDummy("dummy3", 3, "dummyfat") \/ PutDummyFat
  BY <1>9 DEF CreateDummyFile, PutDummy, PutDummyFat, IInv
<1>10. CASE \/ DiskFull \/ DirFull \/ ChangeToRoot \/ ListFiles \/ ReadDirHangs
            \/ CatNext \/ CatEnds \/ Crash \/ UNCHANGED vars
  BY <1>2, <1>10 DEF DiskFull, DirFull, ChangeToRoot, ListFiles, ReadDirHangs, CatNext,
                     CatEnds, Refuse, Crash, disk, vars
<1>11. ASSUME NEW n \in Names, Command(n) PROVE Kinds
  BY <1>3, <1>4, <1>5, <1>6, <1>7, <1>11 DEF Command
<1> QED BY <1>8, <1>9, <1>10, <1>11 DEF Next, Continue

(* PutFat may make a cluster a directory, an empty one; FreeChain may end  *)
(* one that no entry owns.                                                 *)
LEMMA FatWritten ==
  ASSUME IInv, PutFat
  PROVE  /\ job.cl \in Clusters \ Dirs /\ cur' = cur /\ cur # job.cl
         /\ Owns(cur, job.slot, job.cl) /\ job.slot \in Slots
         /\ Dirs' \in {Dirs, Dirs \cup {job.cl}} /\ \A d : Tab(d)' = Tab(d)
         /\ job.cl \in Dirs' => Tab(job.cl) = EmptyTable
<1>1. /\ pc = "fat" /\ UNCHANGED <<root, data, cur>> /\ fat' = [fat EXCEPT ![job.cl] = EOC]
  BY DEF PutFat, Finish
<1>2. /\ job.cl \in Clusters /\ fat[job.cl] = FREE /\ Owns(cur, job.slot, job.cl)
      /\ job.slot \in Slots
      /\ data[job.cl].kind = "dir" => data[job.cl].ents = EmptyTable
  BY <1>1 DEF IInv, WriteInProgress
<1>3. job.cl \notin Dirs /\ cur \in Dirs
  BY <1>2, ConstantTypes DEF IInv, Dirs
<1>4. Dirs' = IF data[job.cl].kind = "dir" THEN Dirs \cup {job.cl} ELSE Dirs
  BY <1>1, <1>2 DEF IInv, TypeOK, Dirs, EOC, FREE
<1>5. job.cl \in Dirs' => Tab(job.cl) = EmptyTable
  BY <1>2, <1>3, <1>4, ConstantTypes DEF Tab
<1> QED BY <1>1, <1>2, <1>3, <1>4, <1>5 DEF Tab

LEMMA FatFreed ==
  ASSUME IInv, FreeChain
  PROVE  /\ job.cl \in Clusters /\ cur' = cur
         /\ Dirs' = Dirs \ {job.cl} /\ \A d : Tab(d)' = Tab(d)
         /\ \A d \in Dirs : \A i \in Slots : ~Owns(d, i, job.cl)
<1>1. /\ job.cl \in Clusters /\ fat[job.cl] = EOC /\ UNCHANGED <<root, data, cur>>
      /\ \A d \in Dirs : \A i \in Slots : ~Owns(d, i, job.cl)
  BY DEF FreeChain, IInv, RemovalInProgress
<1>2. fat' = [c \in Clusters |-> IF c = job.cl THEN FREE ELSE fat[c]]
  BY <1>1, ChainOfOne DEF FreeChain
<1>3. Dirs' = Dirs \ {job.cl}
  BY <1>1, <1>2, ConstantTypes DEF Dirs
<1> QED BY <1>1, <1>3 DEF Tab

(* Who owns what changes with the entry written by write, mkdir or rm, and *)
(* when a cluster is freed.                                                *)
LEMMA OwnersLost ==
  ASSUME IInv, [Next]_vars, CrashAt \subseteq {"idle", "free"}, AllowDummy = FALSE,
         NEW c \in Owned, c \notin Owned'
  PROVE  pc = "free" \/ (pc' = "free" /\ c = job'.cl)
<1>1. PICK d \in Dirs, k \in Slots : Owns(d, k, c)
  BY DEF Owned
<1>2. c \in Clusters /\ TypeOK /\ cur \in Dirs /\ ~(d \in Dirs' /\ Owns(d, k, c)')
  BY DEF Owned, IInv
<1>3. CASE DirectoriesStay
  BY <1>1, <1>2, <1>3 DEF DirectoriesStay, Owns
<1>4. ASSUME NEW n, NEW a, NEW s, NEW b \in Clusters, NEW i \in Slots,
             CreateEffect(n, a, s, b, i)
      PROVE  FALSE
  <2>1. ~(d = cur /\ k = i)
    BY <1>1, <1>4 DEF CreateEffect, FreeSlot, Owns
  <2> QED BY <1>1, <1>2, <1>4, <2>1 DEF CreateEffect, Owns
<1>5. ASSUME NEW n, NEW i \in Slots, RemoveEffect(n, i)
      PROVE  pc' = "free" /\ c = job'.cl
  <2>1. d = cur /\ k = i
    BY <1>1, <1>2, <1>5 DEF RemoveEffect, Owns
  <2>2. Tab(cur)[i].cl = c /\ c >= 2
    BY <1>1, <1>2, <2>1, ConstantTypes DEF Owns, Clusters
  <2> QED BY <1>5, <2>2 DEF RemoveEffect
<1>6. CASE PutFat
  BY <1>1, <1>2, <1>6, FatWritten DEF Owns
<1>7. CASE FreeChain
  BY <1>7 DEF FreeChain
<1> QED BY <1>3, <1>4, <1>5, <1>6, <1>7, StepKinds

(* A cluster is left without an owner, and allocated, only by rm: when the *)
(* directory with its entry is freed, or between the two writes of rm.     *)
THEOREM LosesOnlyBelowRemovedAlways ==
  ASSUME CrashAt \subseteq {"idle", "free"}, AllowDummy = FALSE
  PROVE  Spec => LosesOnlyBelowRemoved
<1>1. Init => IInv
  BY InvInit
<1>2. IInv /\ [Next]_vars => IInv'
  BY InvStep
<1>3. IInv /\ [Next]_vars =>
        [\A c \in Owned \ Owned' :
            fat'[c] # FREE => \/ pc = "free"
                              \/ pc' = "free" /\ c = job'.cl]_vars
  BY OwnersLost
<1> QED BY <1>1, <1>2, <1>3, PTL DEF Spec, LosesOnlyBelowRemoved
------------------------------------------------------------------------------
(* Directories as a whole: nothing in them is hidden behind an end mark,   *)
(* and the current one is reached from the root.                           *)

LEMMA ScansSeeAll ==
  NoHiddenEntry <=> \A d \in Dirs : \A i, j \in Slots :
                      Tab(d)[i].mark = "live" /\ j < i => Tab(d)[j].mark # "end"
BY DEF NoHiddenEntry, Visible

(* The first entry that is not live is the one a new entry takes, and a    *)
(* deleted entry gets a mark of its own: no end mark gets before a live    *)
(* entry.                                                                  *)
LEMMA NoneHidden ==
  ASSUME IInv, NoHiddenEntry, [Next]_vars,
         CrashAt \subseteq {"idle", "free"}, AllowDummy = FALSE
  PROVE  NoHiddenEntry'
<1> DEFINE Sees(d) == \A i, j \in Slots :
                        Tab(d)[i].mark = "live" /\ j < i => Tab(d)[j].mark # "end"
<1>1. \A d \in Dirs : Sees(d)
  BY ScansSeeAll
<1>2. NoHiddenEntry' <=> \A d \in Dirs' : Sees(d)'
  BY DEF NoHiddenEntry, Visible
<1>3. CASE DirectoriesStay
  BY <1>1, <1>2, <1>3 DEF DirectoriesStay
<1>4. ASSUME NEW n, NEW a, NEW s, NEW c \in Clusters, NEW k \in Slots,
             CreateEffect(n, a, s, c, k)
      PROVE  NoHiddenEntry'
  <2> SUFFICES ASSUME NEW d \in Dirs, NEW i \in Slots, NEW j \in Slots,
                      Tab(d)'[i].mark = "live", j < i
               PROVE  Tab(d)'[j].mark # "end"
    BY <1>2, <1>4 DEF CreateEffect
  <2>1. /\ Tab(d)'[i] = IF d = cur /\ i = k THEN Live(n, a, c) ELSE Tab(d)[i]
        /\ Tab(d)'[j] = IF d = cur /\ j = k THEN Live(n, a, c) ELSE Tab(d)[j]
    BY <1>4 DEF CreateEffect
  <2>2. Live(n, a, c).mark # "end"
    BY DEF Live
  <2>3. CASE d = cur /\ i = k /\ j # k
    BY <1>4, <2>1, <2>3 DEF CreateEffect, FreeSlot
  <2>4. CASE ~(d = cur /\ i = k)
    BY <1>1, <2>1, <2>2, <2>4
  <2> QED BY <2>1, <2>2, <2>3, <2>4
<1>5. ASSUME NEW n, NEW k \in Slots, RemoveEffect(n, k) PROVE NoHiddenEntry'
  <2> SUFFICES ASSUME NEW d \in Dirs, NEW i \in Slots, NEW j \in Slots,
                      Tab(d)'[i].mark = "live", j < i
               PROVE  Tab(d)'[j].mark # "end"
    BY <1>2, <1>5 DEF RemoveEffect
  <2>1. /\ Tab(d)'[i] = IF d = cur /\ i = k THEN Deleted ELSE Tab(d)[i]
        /\ Tab(d)'[j] = IF d = cur /\ j = k THEN Deleted ELSE Tab(d)[j]
    BY <1>5 DEF RemoveEffect
  <2>2. Deleted.mark = "deleted"
    BY DEF Deleted
  <2> QED BY <1>1, <2>1, <2>2
<1>6. CASE PutFat
  <2>1. \A i \in Slots : EmptyTable[i].mark = "end"
    BY DEF EmptyTable, End
  <2> QED BY <1>1, <1>2, <1>6, <2>1, FatWritten
<1>7. CASE FreeChain
  BY <1>1, <1>2, <1>7, FatFreed
<1> QED BY <1>3, <1>4, <1>5, <1>6, <1>7, StepKinds

(* A set with the root and all directories below it that lacks the current *)
(* directory after a step would have made one before the step.             *)
LEMMA CurrentReached ==
  ASSUME IInv, CurrentDirSound, [Next]_vars, IInv',
         CrashAt \subseteq {"idle", "free"}, AllowDummy = FALSE
  PROVE  CurrentDirSound'
<1> SUFFICES ASSUME NEW S \in SUBSET Dirs', 0 \in S, Below(S)' \subseteq S, cur' \notin S
             PROVE  FALSE
  BY DEF CurrentDirSound, IInv
<1>1. /\ TypeOK /\ cur \in Dirs
      /\ \A R \in SUBSET Dirs : 0 \in R /\ Below(R) \subseteq R => cur \in R
  BY DEF CurrentDirSound, IInv
<1>2. ASSUME S \subseteq Dirs, \A d \in S : \A i \in Slots : Tab(d)'[i] = Tab(d)[i]
      PROVE  cur \in S
  <2>1. Below(S) \subseteq S
    BY <1>2 DEF Below, Owns
  <2> QED BY <1>1, <1>2, <2>1
<1>3. CASE DirectoriesStay
  <2>1. cur \in S /\ cur' # cur /\ cur' # 0
    BY <1>2, <1>3 DEF DirectoriesStay
  <2>2. PICK i \in Slots : /\ Tab(cur)[i].mark = "live" /\ Tab(cur)[i].attr = "dir"
                           /\ cur' = Tab(cur)[i].cl
    BY <1>3, <2>1 DEF DirectoriesStay
  <2>3. PICK d : d = cur
    OBVIOUS
  <2>4. Tab(d)'[i] = Tab(d)[i]
    BY <1>1, <1>3, <2>3 DEF DirectoriesStay
  <2>5. PICK c \in Clusters : c = cur'
    BY <2>1 DEF IInv, Dirs
  <2>6. c \in Below(S)'
    BY <2>1, <2>2, <2>3, <2>4, <2>5 DEF Below, Owns
  <2> QED BY <2>5, <2>6
<1>4. ASSUME NEW n, NEW a, NEW s, NEW c \in Clusters, NEW i \in Slots,
             CreateEffect(n, a, s, c, i)
      PROVE  FALSE
  BY <1>2, <1>4 DEF CreateEffect
<1>5. ASSUME NEW n, NEW i \in Slots, RemoveEffect(n, i) PROVE FALSE
  BY <1>2, <1>5 DEF RemoveEffect
<1>6. CASE PutFat
  <2> DEFINE R == S \ {job.cl}
  <2>1. /\ cur \notin R /\ R \subseteq Dirs /\ 0 \in R
        /\ Owns(cur, job.slot, job.cl) /\ job.slot \in Slots /\ job.cl \in Clusters
    BY <1>6, FatWritten, ConstantTypes
  <2>2. ASSUME NEW d \in R, NEW i \in Slots, NEW c \in Clusters,
               Owns(d, i, c), Tab(d)[i].attr = "dir"
        PROVE  c \in R
    <3>1. c # job.cl
      BY <1>1, <2>1, <2>2 DEF IInv, UniqueOwner
    <3>2. Tab(d)' = Tab(d)
      BY <1>6, FatWritten
    <3>3. c \in Below(S)'
      BY <2>2, <3>2 DEF Below, Owns
    <3> QED BY <3>1, <3>3
  <2>3. Below(R) \subseteq R
    BY <2>2 DEF Below
  <2> QED BY <1>1, <2>1, <2>3
<1>7. CASE FreeChain
  BY <1>2, <1>7, FatFreed
<1> QED BY <1>3, <1>4, <1>5, <1>6, <1>7, StepKinds

(* The scans of every directory see all its entries, and the shell stands  *)
(* in a directory the root leads to: find_free_dir_entry, remove_file,     *)
(* make_directory and change_directory.                                    *)
THEOREM DirectoriesAlwaysSound ==
  ASSUME CrashAt \subseteq {"idle", "free"}, AllowDummy = FALSE
  PROVE  Spec => []DirectoriesSound
<1>1. Init => IInv /\ DirectoriesSound
  <2> SUFFICES ASSUME Init PROVE DirectoriesSound
    BY InvInit
  <2>1. Dirs = {0} /\ cur = 0
    BY ConstantTypes DEF Init, Dirs, Blank
  <2>2. \A i \in Slots : Tab(0)[i].mark = "live" => i = 1
    BY DEF Init, Tab, EmptyTable, JunkTable, End
  <2>3. NoHiddenEntry
    BY <2>1, <2>2, ScansSeeAll DEF Slots
  <2> QED BY <2>1, <2>3 DEF DirectoriesSound, CurrentDirSound
<1>2. (IInv /\ DirectoriesSound) /\ [Next]_vars => (IInv /\ DirectoriesSound)'
  BY InvStep, NoneHidden, CurrentReached DEF DirectoriesSound
<1> QED BY <1>1, <1>2, PTL DEF Spec
------------------------------------------------------------------------------
(* Chains.  Power may fail anywhere here, and mkdummy may be used: a       *)
(* cluster may have two owners and a text may be read as a directory, but  *)
(* no chain loops or leaves the table that an entry of a directory starts. *)

LEMMA ChainOfNone == ASSUME NEW c, c \notin Clusters PROVE Chain(c) = {}
<1>1. {c} \cap Clusters \subseteq {} /\ {} \in SUBSET Clusters
  OBVIOUS
<1> QED BY <1>1 DEF Chain

LEMMA ChainIn ==
  ASSUME NEW c, NEW S \in SUBSET Clusters, {c} \cap Clusters \subseteq S,
         \A s \in S : {fat[s]} \cap Clusters \subseteq S
  PROVE  Chain(c) \subseteq S
BY DEF Chain

(* A settled chain loops nowhere and leads nowhere outside the table. *)
LEMMA SettledChainEnds ==
  ASSUME NEW e, Settled(e)
  PROVE  ~Leaves(e) /\ \A c \in Chain(e) : c \notin Chain(fat[c])
<1>1. ASSUME NEW b, EndsAt(b)
      PROVE  Chain(fat[b]) = {} /\ ~Followed(fat[b]) /\ Chain(b) \subseteq {b} /\ b \in Clusters
  <2>1. b \in Clusters /\ fat[b] \notin Clusters
    BY <1>1, ConstantTypes DEF EndsAt
  <2>2. Chain(fat[b]) = {}
    BY <2>1, ChainOfNone
  <2>3. ~Followed(fat[b])
    BY <1>1 DEF EndsAt, Followed, FREE, EOC
  <2>4. Chain(b) \subseteq {b}
    <3>1. {b} \in SUBSET Clusters /\ {b} \cap Clusters \subseteq {b}
      BY <2>1
    <3>2. \A s \in {b} : {fat[s]} \cap Clusters \subseteq {b}
      BY <2>1
    <3> QED BY <3>1, <3>2, ChainIn
  <2> QED BY <2>1, <2>2, <2>3, <2>4
<1>2. CASE EndsAt(e)
  <2>1. ~Leaves(e)
    BY <1>1, <1>2 DEF Leaves
  <2> QED BY <1>1, <1>2, <2>1
<1>3. CASE e = 2 /\ fat[2] = 3 /\ EndsAt(3)
  <2>1. fat[3] \notin Clusters /\ 2 \in Clusters /\ 3 \in Clusters
    BY <1>3, ConstantTypes DEF EndsAt
  <2>2. Chain(2) \subseteq {2, 3}
    <3>1. \A s \in {2, 3} : {fat[s]} \cap Clusters \subseteq {2, 3}
      BY <1>3, <2>1
    <3>2. {2, 3} \in SUBSET Clusters /\ {2} \cap Clusters \subseteq {2, 3}
      BY <2>1
    <3> QED BY <3>1, <3>2, ChainIn
  <2>3. ~Leaves(2)
    BY <1>1, <1>3, <2>1, <2>2 DEF Leaves
  <2> QED BY <1>1, <1>3, <2>2, <2>3
<1> QED BY <1>2, <1>3 DEF Settled

(* Tables without a name a user can type hold settled entries only. *)
LEMMA UnnamedSettled ==
  /\ AllSettled(EmptyTable) /\ AllSettled(JunkTable) /\ AllSettled(DummyTable)
  /\ AllSettled(EmptyTable)' /\ AllSettled(DummyTable)'
<1>1. \A i \in Slots : EmptyTable[i].mark # "live"
  BY DEF EmptyTable, End
<1>2. \A i \in Slots : JunkTable[i].mark = "live" => JunkTable[i].name \notin Names
  BY TextAssumption DEF JunkTable, EmptyTable, End, Live
<1>3. \A i \in Slots : DummyTable[i].mark = "live" => DummyTable[i].name \notin Names
  BY TextAssumption DEF DummyTable, EmptyTable, End, Live
<1> QED BY <1>1, <1>2, <1>3 DEF AllSettled

(* Settled clusters stay so when the FAT changes as PutFat, FreeChain and  *)
(* PutDummyFat change it, or not at all.                                   *)
LEMMA SettledStays ==
  ASSUME TypeOK, NEW c, Settled(c),
         \/ \A b \in Clusters : fat'[b] \in {fat[b], FREE, EOC}
         \/ fat' = [fat EXCEPT ![2] = 3, ![3] = EOC]
  PROVE  Settled(c)'
BY ConstantTypes DEF Settled, EndsAt, TypeOK

LEMMA TableStays ==
  ASSUME NEW tab, AllSettled(tab), \A c : Settled(c) => Settled(c)'
  PROVE  AllSettled(tab)'
BY DEF AllSettled

(* A step keeps what is settled if it leaves settled clusters settled and  *)
(* the directories it writes are settled before it.                        *)
LEMMA ChainInvAfter ==
  ASSUME TypeOK', \A c : Settled(c) => Settled(c)',
         NEW r, root' = r, AllSettled(r),
         NEW d, data' = d, \A c \in Clusters : SettledSector(d[c]),
         NEW s, job'.sector = s, SettledSector(s)
  PROVE  ChainInv'
<1>1. AllSettled(r)'
  BY TableStays
<1>2. ASSUME NEW c \in Clusters PROVE SettledSector(d[c])'
  BY TableStays DEF SettledSector
<1>3. SettledSector(s)'
  BY TableStays DEF SettledSector
<1> QED BY <1>1, <1>2, <1>3 DEF ChainInv, SettledSector, AllSettled, Settled, EndsAt

LEMMA ChainStep == ASSUME ChainInv, [Next]_vars PROVE ChainInv'
<1>1. TypeOK /\ TypeOK'
  BY TypeStep DEF ChainInv
<1>2. fat' = fat => \A c : Settled(c) => Settled(c)'
  BY DEF Settled, EndsAt
<1>3. /\ AllSettled(root) /\ \A c \in Clusters : SettledSector(data[c])
      /\ SettledSector(job.sector) /\ SettledSector(Blank) /\ NoJob.sector = Blank
  BY DEF ChainInv, SettledSector, Blank, NoJob, JobOf
<1>4. ASSUME UNCHANGED <<root, fat, data>>, job'.sector \in {job.sector, Blank}
      PROVE  ChainInv'
  BY <1>1, <1>2, <1>3, <1>4, ChainInvAfter
<1>5. ASSUME NEW tab, WriteDir(tab), cur = 0 \/ data[cur].kind = "dir" => AllSettled(tab),
             fat' = fat, NEW s, job'.sector = s, SettledSector(s)
      PROVE  ChainInv'
  <2>1. PICK r : r = root'
    OBVIOUS
  <2>2. PICK d : d = data'
    OBVIOUS
  <2>3. AllSettled(r)
    BY <1>3, <1>5, <2>1 DEF WriteDir
  <2>4. ASSUME NEW c \in Clusters PROVE SettledSector(d[c])
    <3>1. CASE cur = c
      <4>1. d[c] = Rewritten(data[c], tab)
        BY <1>1, <1>5, <2>2, <3>1, ConstantTypes DEF WriteDir, TypeOK
      <4>2. CASE data[c].kind = "dir"
        BY <1>5, <3>1, <4>1, <4>2 DEF Rewritten, DirSector, SettledSector
      <4>3. CASE data[c].kind # "dir"
        BY <4>1, <4>3 DEF Rewritten, DirSector, SettledSector
      <4> QED BY <4>2, <4>3
    <3>2. CASE cur # c
      BY <1>1, <1>3, <1>5, <2>2, <3>2 DEF WriteDir, TypeOK
    <3> QED BY <3>1, <3>2
  <2> QED BY <1>1, <1>2, <1>5, <2>1, <2>2, <2>3, <2>4, ChainInvAfter
<1>6. Tab(cur) \in Table /\ (cur = 0 \/ data[cur].kind = "dir" => AllSettled(Tab(cur)))
  BY <1>1, <1>3, TabType DEF TypeOK, Tab, SettledSector
<1>7. ASSUME NEW n, NEW a, NEW s, Create(n, a, s), SettledSector(s) PROVE ChainInv'
  <2>1. PICK c \in Clusters, i \in Slots :
          /\ FreeCluster(c)
          /\ WriteDir([Tab(cur) EXCEPT ![i] = Live(n, a, c)])
          /\ job' = [JobOf(i, Tab(cur)[i], s) EXCEPT !.cl = c]
    BY <1>7 DEF Create
  <2>2. fat' = fat /\ job'.sector = s
    BY <1>7, <2>1 DEF Create, JobOf
  <2>3. Settled(c)
    BY <2>1 DEF FreeCluster, Settled, EndsAt
  <2>4. ASSUME AllSettled(Tab(cur)) PROVE AllSettled([Tab(cur) EXCEPT ![i] = Live(n, a, c)])
    BY <1>6, <2>3, <2>4 DEF AllSettled, Table, Live
  <2> QED BY <1>5, <1>6, <1>7, <2>1, <2>2, <2>4
<1>8. ASSUME NEW n \in Names, RemoveFile(n) PROVE ChainInv'
  <2>1. CASE Refuse("not found")
    BY <1>4, <2>1 DEF Refuse
  <2>2. ASSUME NEW i \in Slots, WriteDir([Tab(cur) EXCEPT ![i] = Deleted]),
               IF Tab(cur)[i].cl >= 2
               THEN /\ pc' = "free"
                    /\ job' = JobOf(i, Tab(cur)[i], Blank)
                    /\ out' = out
               ELSE Finish("deleted"),
               UNCHANGED <<fat, cur>>
        PROVE  ChainInv'
    <3>1. job'.sector = Blank
      <4>1. CASE Tab(cur)[i].cl >= 2
        BY <2>2, <4>1 DEF JobOf
      <4>2. CASE ~(Tab(cur)[i].cl >= 2)
        BY <1>3, <2>2, <4>2 DEF Finish
      <4> QED BY <4>1, <4>2
    <3>2. ASSUME AllSettled(Tab(cur)) PROVE AllSettled([Tab(cur) EXCEPT ![i] = Deleted])
      BY <1>6, <3>2 DEF AllSettled, Table, Deleted
    <3> QED BY <1>3, <1>5, <1>6, <2>2, <3>1, <3>2
  <2> QED BY <1>8, <2>1, <2>2 DEF RemoveFile
<1>9. ASSUME NEW n \in Names, Command(n) PROVE ChainInv'
  <2>1. ASSUME NEW t \in Contents, WriteFile(n, t) PROVE ChainInv'
    <3>1. SettledSector(TextSector(t))
      BY DEF SettledSector, TextSector
    <3> QED BY <1>7, <2>1, <3>1 DEF WriteFile
  <2>2. ASSUME MakeDirectory(n) PROVE ChainInv'
    <3>1. SettledSector(DirSector(EmptyTable))
      BY UnnamedSettled DEF SettledSector, DirSector
    <3> QED BY <1>7, <2>2, <3>1 DEF MakeDirectory
  <2>3. ASSUME ChangeDirectory(n) \/ CatFile(n) \/ ExecuteProgram(n) PROVE ChainInv'
    <3>1. CASE ChangeDirectory(n) \/ ExecuteProgram(n)
      <4>1. UNCHANGED <<root, fat, data, job>>
        BY <3>1 DEF ChangeDirectory, ExecuteProgram, Refuse
      <4> QED BY <1>4, <4>1
    <3>2. CASE CatFile(n)
      <4>1. CASE Refuse("not found")
        BY <1>4, <4>1 DEF Refuse
      <4>2. ASSUME NEW i \in Slots, job' = JobOf(i, Tab(cur)[i], Blank),
                   UNCHANGED <<root, fat, data>>
            PROVE  ChainInv'
        <5>1. job'.sector = Blank
          BY <4>2 DEF JobOf
        <5> QED BY <1>4, <4>2, <5>1
      <4> QED BY <3>2, <4>1, <4>2 DEF CatFile
    <3> QED BY <2>3, <3>1, <3>2
  <2> QED BY <1>8, <1>9, <2>1, <2>2, <2>3 DEF Command
<1>10. CASE DiskFull \/ DirFull \/ ChangeToRoot \/ ListFiles \/ ReadDirHangs \/ UNCHANGED vars
  BY <1>4, <1>10 DEF DiskFull, DirFull, ChangeToRoot, ListFiles, ReadDirHangs, Refuse, vars
<1>11. CASE CatNext \/ CatEnds \/ Crash
  <2>1. job'.sector \in {job.sector, Blank}
    BY <1>1, <1>3, <1>11 DEF CatNext, CatEnds, Crash, TypeOK, Job
  <2> QED BY <1>4, <1>11, <2>1 DEF CatNext, CatEnds, Crash, disk
<1>12. CASE CreateDummyFile
  BY <1>1, <1>2, <1>3, <1>12, UnnamedSettled, ChainInvAfter DEF CreateDummyFile
<1>13. ASSUME NEW c, NEW s, data' = [data EXCEPT ![c] = s], SettledSector(s),
              UNCHANGED <<root, fat, job>>
       PROVE  ChainInv'
  <2>1. PICK d : d = data'
    OBVIOUS
  <2>2. \A b \in Clusters : SettledSector(d[b])
    BY <1>1, <1>3, <1>13, <2>1 DEF TypeOK
  <2> QED BY <1>1, <1>2, <1>3, <1>13, <2>1, <2>2, ChainInvAfter
<1>14. CASE PutData
  BY <1>3, <1>13, <1>14 DEF PutData
<1>15. CASE PutDummy("dummy2", 2, "dummy3") \/ PutDummy("dummy3", 3, "dummyfat")
  <2>1. SettledSector(TextSector(DummyText))
    BY DEF SettledSector, TextSector
  <2> QED BY <1>13, <1>15, <2>1 DEF PutDummy
<1>16. ASSUME \A c : Settled(c) => Settled(c)', UNCHANGED <<root, data>>, job' = NoJob
       PROVE  ChainInv'
  BY <1>1, <1>3, <1>16, ChainInvAfter
<1>17. CASE PutFat \/ FreeChain
  <2>1. \A b \in Clusters : fat'[b] \in {fat[b], FREE, EOC}
    BY <1>1, <1>17 DEF PutFat, FreeChain, TypeOK
  <2> QED BY <1>1, <1>16, <1>17, <2>1, SettledStays DEF PutFat, FreeChain, Finish
<1>18. CASE PutDummyFat
  BY <1>1, <1>16, <1>18, SettledStays DEF PutDummyFat, Finish
<1> QED BY <1>9, <1>10, <1>11, <1>12, <1>14, <1>15, <1>17, <1>18 DEF Next, Continue

(* In the root and in every directory whose sector make_directory emptied, *)
(* and no text has overwritten since, cat_file and remove_file neither     *)
(* walk a chain for ever nor follow a word that is no cluster of the       *)
(* table: whatever name a user types, whatever words the image starts      *)
(* with, wherever power fails, and with mkdummy in use.                    *)
THEOREM ChainsAlwaysEnd == Spec => []ChainsEnd
<1>1. Init => ChainInv
  <2> SUFFICES ASSUME Init PROVE ChainInv
    OBVIOUS
  <2>1. TypeOK
    BY TypeInit
  <2>2. AllSettled(root)
    BY UnnamedSettled DEF Init
  <2> QED BY <2>1, <2>2 DEF Init, ChainInv, SettledSector, Blank, NoJob, JobOf
<1>2. ChainInv /\ [Next]_vars => ChainInv'
  BY ChainStep
<1>3. ChainInv => ChainsEnd
  <2> SUFFICES ASSUME ChainInv, cur = 0 \/ data[cur].kind = "dir",
                      NEW n \in Names, NEW i \in Slots, Hit(Tab(cur), n, i)
               PROVE  /\ ~Leaves(Tab(cur)[i].cl)
                      /\ \A e \in Chain(Tab(cur)[i].cl) : e \notin Chain(fat[e])
    BY DEF ChainsEnd
  <2>1. AllSettled(Tab(cur))
    BY DEF ChainInv, SettledSector, TypeOK, Tab
  <2>2. Tab(cur)[i].mark = "live" /\ Tab(cur)[i].name \in Names
    BY HitIsLive DEF Hit
  <2>3. Settled(Tab(cur)[i].cl)
    BY <2>1, <2>2 DEF AllSettled
  <2> QED BY <2>3, SettledChainEnds
<1> QED BY <1>1, <1>2, <1>3, PTL DEF Spec
------------------------------------------------------------------------------
(* The commands are atomic: Fat16 implements NodeStore under the           *)
(* conditions of the theorems on ownership.                                *)

Refines == IInv /\ NoHiddenEntry /\ StoreInv

LEMMA StoreInvInit == Init => StoreInv
<1> SUFFICES ASSUME Init PROVE StoreInv
  OBVIOUS
<1>1. Dirs = {0}
  BY ConstantTypes DEF Init, Dirs, Blank
<1>2. EntriesWritten
  BY <1>1 DEF Init, Tab, EmptyTable, JunkTable, End, EntriesWritten
<1> QED BY <1>2 DEF Init, StoreInv, WriteAsCalled, RemovalAsCalled, CatAsCalled, Blank

(* What the shell sees of the disk.                                        *)

LEMMA ShownEntries ==
  /\ ShownEntry(End) = Store!Nothing /\ NoTable = Store!NoEnts
  /\ \A e : e.mark # "live" => ShownEntry(e) = Store!Nothing
  /\ \A e : e.mark = "live" /\ e.attr # "none" => ShownEntry(e) # Store!Nothing
<1>1. ShownEntry(End) = Store!Nothing
  BY DEF ShownEntry, End, Store!Nothing, NoText
<1>2. \A e : e.mark # "live" => ShownEntry(e) = Store!Nothing
  BY DEF ShownEntry, Store!Nothing, NoText
<1>3. \A e : e.mark = "live" /\ e.attr # "none" => ShownEntry(e) # Store!Nothing
  BY DEF ShownEntry, Store!Nothing
<1> QED BY <1>1, <1>2, <1>3 DEF NoTable, Store!NoEnts

LEMMA ShownHere == ASSUME cur \in Dirs PROVE Store!Here = ShownTable(cur)
BY ConstantTypes DEF Store!Here, Dirs, ShownNode

(* The least-number principle, from the order of the natural numbers being *)
(* well-founded.                                                           *)
LEMMA SmallestOf == ASSUME NEW T, T \subseteq Nat, T # {}
                    PROVE  \E x \in T : \A y \in T : x <= y
<1> DEFINE R == OpToRel(<, Nat)
<1>1. IsWellFoundedOn(R, Nat)
  BY NatLessThanWellFounded
<1>2. \A x, y \in Nat : <<y, x>> \in R <=> y < x
  BY DEF OpToRel
<1> HIDE DEF R
<1>3. PICK x \in T : \A y \in T : ~(<<y, x>> \in R)
  BY <1>1, WFMin
<1>4. \A y \in T : x \in Nat /\ y \in Nat /\ ~(y < x)
  BY <1>2, <1>3
<1> QED BY <1>4

(* While no command has written half of its sectors, the scan of the code  *)
(* and that of the abstract store find the same entry.                     *)
LEMMA ShownWhenWhole ==
  ASSUME Refines, ~HalfDone
  PROVE  /\ \A i \in Slots : Store!Here[i] = ShownEntry(Tab(cur)[i])
         /\ Store!Used = Visible(Tab(cur))
         /\ Visible(Tab(cur)) = {i \in Slots : Tab(cur)[i].mark = "live"}
         /\ \A i \in Visible(Tab(cur)) : Store!Here[i].name = Tab(cur)[i].name
         /\ \A n, i : Store!Find(n, i) <=> Hit(Tab(cur), n, i)
         /\ \A n : ~Store!Known(n) <=> Missing(Tab(cur), n)
<1>1. cur \in Dirs
  BY DEF Refines, IInv
<1>2. \A i \in Slots : Store!Here[i] = ShownEntry(Tab(cur)[i])
  BY <1>1, ShownHere DEF ShownTable
<1>3. \A i \in Slots : Tab(cur)[i].mark = "live" =>
        Tab(cur)[i].attr # "none" /\ i \in Visible(Tab(cur))
  BY <1>1 DEF Refines, StoreInv, EntriesWritten, NoHiddenEntry, Live
<1>4. Visible(Tab(cur)) = {i \in Slots : Tab(cur)[i].mark = "live"}
  BY <1>3 DEF Visible
<1>5. Store!Used = Visible(Tab(cur))
  BY <1>2, <1>3, <1>4, ShownEntries DEF Store!Used
<1>6. \A i \in Visible(Tab(cur)) : Store!Here[i].name = Tab(cur)[i].name
  <2> TAKE i \in Visible(Tab(cur))
  <2>1. i \in Slots /\ Tab(cur)[i].mark = "live"
    BY <1>4
  <2>2. Store!Here[i] = ShownEntry(Tab(cur)[i])
    BY <1>2, <2>1
  <2> QED BY <2>1, <2>2 DEF ShownEntry
<1>7. Visible(Tab(cur)) \subseteq Slots /\ Slots \subseteq Nat
  BY SizeAssumption DEF Visible, Slots
<1>8. \A n, i : Store!Find(n, i) <=> Hit(Tab(cur), n, i)
  BY <1>5, <1>6 DEF Store!Find, Hit
<1>9. ASSUME NEW n, Missing(Tab(cur), n) PROVE ~Store!Known(n)
  BY <1>5, <1>6, <1>9 DEF Store!Find, Store!Known, Missing
<1>10. ASSUME NEW n, ~Missing(Tab(cur), n) PROVE Store!Known(n)
  <2> DEFINE T == {i \in Visible(Tab(cur)) : Tab(cur)[i].name = n}
  <2>1. T \subseteq Nat /\ T # {}
    BY <1>7, <1>10 DEF Missing
  <2>2. PICK i \in T : \A j \in T : i <= j
    BY <2>1, SmallestOf
  <2>3. ASSUME NEW j \in Visible(Tab(cur)), j < i PROVE Tab(cur)[j].name # n
    <3>1. i \in Slots /\ j \in Slots
      BY <1>7, <2>3
    <3>2. i \in Nat /\ j \in Nat
      BY <1>7, <3>1
    <3>3. ~(i <= j)
      BY <2>3, <3>2
    <3> QED BY <2>2, <2>3, <3>3
  <2>4. Hit(Tab(cur), n, i) /\ i \in Slots
    BY <1>7, <2>3 DEF Hit
  <2> QED BY <1>8, <2>4 DEF Store!Known
<1> QED BY <1>2, <1>4, <1>5, <1>6, <1>8, <1>9, <1>10

(* What changes of what the shell sees, by table and by sector.            *)
TablesKeep == \A d \in Dirs : ShownTable(d)' = ShownTable(d)

LEMMA NothingSeen ==
  ASSUME TypeOK, TablesKeep, UNCHANGED <<fat, cur, out>>,
         \A c \in Clusters : fat[c] # FREE =>
            data'[c].kind = data[c].kind /\ data'[c].text = data[c].text
  PROVE  UNCHANGED <<ShownTable(0), [c \in Clusters |-> ShownNode(c)], cur, out>>
<1>1. ShownTable(0)' = ShownTable(0)
  BY DEF TablesKeep, Dirs
<1>2. ASSUME NEW c \in Clusters PROVE ShownNode(c)' = ShownNode(c)
  <2>1. CASE fat[c] = FREE
    BY <2>1 DEF ShownNode, NoTable
  <2>2. CASE fat[c] # FREE /\ data[c].kind = "dir"
    BY <2>2 DEF ShownNode, TablesKeep, Dirs
  <2>3. CASE fat[c] # FREE /\ data[c].kind # "dir"
    BY <2>3 DEF ShownNode
  <2> QED BY <2>1, <2>2, <2>3
<1> QED BY <1>1, <1>2

LEMMA TableSeen ==
  ASSUME NEW d \in Dirs, \A i \in Slots : ShownTable(d)'[i] = ShownTable(d)[i]
  PROVE  ShownTable(d)' = ShownTable(d)
BY DEF ShownTable

(* The first of several writes is not seen: the entry it replaces is shown *)
(* until the last one.                                                     *)
LEMMA FirstWriteUnseen ==
  ASSUME Refines, NEW tab, WriteDir(tab), UNCHANGED <<fat, cur, out>>, ~HalfDone,
         HalfDone', NEW i \in Slots, job'.slot = i, job'.old = Tab(cur)[i],
         \A d \in Dirs : d # cur => Tab(d)' = Tab(d),
         \A d \in Dirs : \A j \in Slots : d # cur \/ j # i => Tab(d)'[j] = Tab(d)[j]
  PROVE  UNCHANGED <<ShownTable(0), [c \in Clusters |-> ShownNode(c)], cur, out>>
<1>1. TypeOK /\ cur \in Dirs
  BY DEF Refines, IInv
<1>2. ASSUME NEW d \in Dirs PROVE ShownTable(d)' = ShownTable(d)
  <2>1. ASSUME NEW j \in Slots PROVE ShownTable(d)'[j] = ShownTable(d)[j]
    <3>1. ShownTable(d)[j] = ShownEntry(Tab(d)[j])
      BY DEF ShownTable
    <3>2. ShownTable(d)'[j] = ShownEntry(IF d = cur /\ j = i THEN Tab(cur)[i] ELSE Tab(d)'[j])
      BY DEF ShownTable, ShownEntry
    <3> QED BY <3>1, <3>2
  <2> QED BY <2>1, TableSeen
<1>3. TablesKeep
  BY <1>2 DEF TablesKeep
<1>4. ASSUME NEW c \in Clusters, fat[c] # FREE
      PROVE  data'[c].kind = data[c].kind /\ data'[c].text = data[c].text
  <2>1. CASE cur = c
    <3>1. data[c].kind = "dir" /\ cur # 0
      BY <1>1, <2>1, ConstantTypes DEF Dirs
    <3>2. data[c].text = DirBytes
      BY <3>1 DEF Refines, StoreInv
    <3>3. data'[c] = Rewritten(data[c], tab)
      BY <1>1, <2>1, <3>1 DEF WriteDir, TypeOK
    <3> QED BY <3>1, <3>2, <3>3 DEF Rewritten, DirSector
  <2>2. CASE cur # c
    BY <1>1, <2>2 DEF WriteDir, TypeOK
  <2> QED BY <2>1, <2>2
<1> QED BY <1>1, <1>3, <1>4, NothingSeen

(* A last write puts x at entry i of the current directory and leaves the  *)
(* nodes ns.                                                               *)
LEMMA LastWriteSeen ==
  ASSUME Refines, NEW i \in Slots, NEW x, NEW ns, ns = [c \in Clusters |-> ns[c]],
         cur' = cur, cur \in Dirs',
         \A j \in Slots : ShownTable(cur)'[j] = IF j = i THEN x ELSE ShownTable(cur)[j],
         \A d \in Dirs : d # cur => ShownTable(d)' = ShownTable(d),
         \A c \in Clusters : c # cur => ShownNode(c)' = ns[c],
         \A c \in Clusters : data'[c].kind = "dir" /\ c = cur => data'[c].text = DirBytes
  PROVE  Store!Store([Store!Here EXCEPT ![i] = x], ns)
<1>1. cur \in Dirs
  BY DEF Refines, IInv
<1>2. Store!Here = ShownTable(cur)
  BY <1>1, ShownHere
<1> DEFINE e == [Store!Here EXCEPT ![i] = x]
<1>3. e = ShownTable(cur)'
  BY <1>2 DEF ShownTable
<1>4. CASE cur = 0
  <2>1. ShownTable(0)' = e
    BY <1>3, <1>4 DEF ShownTable
  <2>2. [c \in Clusters |-> ShownNode(c)]' = ns
    BY <1>4, ConstantTypes
  <2> QED BY <1>4, <2>1, <2>2 DEF Store!Store
<1>5. CASE cur # 0
  <2>1. cur \in Clusters /\ fat'[cur] # FREE /\ data'[cur].kind = "dir"
    BY <1>1, <1>5 DEF Dirs
  <2>2. ShownTable(0)' = ShownTable(0)
    BY <1>5 DEF Dirs
  <2>3. PICK c \in Clusters : c = cur
    BY <2>1
  <2>4. ShownNode(c)' = Store!DirNode(e)
    BY <1>3, <2>1, <2>3 DEF ShownNode, Store!DirNode, ShownTable
  <2>5. [b \in Clusters |-> ShownNode(b)]' = [ns EXCEPT ![cur] = Store!DirNode(e)]
    BY <2>3, <2>4
  <2> QED BY <1>5, <2>2, <2>5 DEF Store!Store
<1> QED BY <1>4, <1>5

(* StoreInv after a step that leaves disk and command alone.               *)
LEMMA StoreInvKept ==
  ASSUME Refines, IInv', UNCHANGED <<root, fat, data>>, pc' \in {"idle", "poll"}
  PROVE  StoreInv'
BY DEF Refines, StoreInv, EntriesWritten, WriteAsCalled, RemovalAsCalled, CatAsCalled, Dirs, Tab

LEMMA CreateUnseen ==
  ASSUME Refines, IInv', NEW n \in Names, NEW a, NEW s, Create(n, a, s),
         Live(n, a, 2) \in Entry,
         \/ a = "file" /\ \E t \in Contents : s = TextSector(t)
         \/ a = "dir" /\ s = DirSector(EmptyTable)
  PROVE  StoreInv' /\ UNCHANGED Store!vars
<1>1. PICK c \in Clusters, i \in Slots : CreateEffect(n, a, s, c, i)
  BY CreateWrites DEF Refines, IInv
<1>2. TypeOK /\ cur \in Dirs /\ pc = "idle" /\ pc' = "data" /\ cur' = cur
  BY <1>1 DEF Refines, IInv, CreateEffect
<1>3. UNCHANGED Store!vars
  <2>1. /\ \A d \in Dirs : d # cur => Tab(d)' = Tab(d)
        /\ \A d \in Dirs : \A j \in Slots : d # cur \/ j # i => Tab(d)'[j] = Tab(d)[j]
        /\ UNCHANGED <<fat, cur, out>> /\ WriteDir([Tab(cur) EXCEPT ![i] = Live(n, a, c)])
    BY <1>1 DEF CreateEffect
  <2>2. job'.slot = i /\ job'.old = Tab(cur)[i]
    BY <1>1 DEF CreateEffect
  <2> QED BY <1>2, <2>1, <2>2, FirstWriteUnseen DEF Store!vars, HalfDone
<1>4. \A d \in Dirs' : \A j \in Slots :
         Tab(d)'[j] = IF d = cur /\ j = i THEN Live(n, a, c) ELSE Tab(d)[j]
  BY <1>1 DEF CreateEffect
<1>5. EntriesWritten'
  <2>1. Live(n, a, c).name \in Names /\ Live(n, a, c).cl \in Clusters /\ Live(n, a, c).attr # "none"
    BY DEF Live
  <2>2. Dirs' = Dirs
    BY <1>1 DEF CreateEffect
  <2> SUFFICES ASSUME NEW d \in Dirs, NEW j \in Slots, Tab(d)'[j].mark = "live"
               PROVE  \/ Tab(d)'[j] = Live(JunkName, "file", 0)
                      \/ /\ Tab(d)'[j].name \in Names /\ Tab(d)'[j].cl \in Clusters
                         /\ Tab(d)'[j].attr # "none"
    BY <2>2 DEF EntriesWritten
  <2>3. CASE d = cur /\ j = i
    BY <1>4, <2>1, <2>2, <2>3
  <2>4. CASE ~(d = cur /\ j = i)
    BY <1>4, <2>2, <2>4 DEF Refines, StoreInv, EntriesWritten
  <2> QED BY <2>3, <2>4
<1>6. WriteAsCalled'
  <2>1. Tab(cur)'[i] = Live(n, a, c) /\ Tab(cur)[i].mark # "live"
    <3>1. cur \in Dirs'
      BY <1>1, <1>2 DEF CreateEffect
    <3> QED BY <1>1, <1>2, <1>4, <3>1 DEF Tab, CreateEffect, FreeSlot
  <2>2. job'.slot = i /\ job'.old = Tab(cur)[i] /\ job'.sector = s
    BY <1>1 DEF CreateEffect
  <2> QED BY <1>2, <2>1, <2>2 DEF WriteAsCalled, Live
<1>7. \A b \in Clusters : data'[b].kind = "dir" => data'[b].text = DirBytes
  BY <1>1, <1>2 DEF CreateEffect, WriteDir, TypeOK, Rewritten, DirSector, Refines, StoreInv
<1> QED BY <1>2, <1>3, <1>5, <1>6, <1>7 DEF StoreInv, RemovalAsCalled, CatAsCalled

LEMMA RemoveUnseen ==
  ASSUME Refines, IInv', NEW n \in Names, NEW i \in Slots, RemoveEffect(n, i)
  PROVE  StoreInv' /\ UNCHANGED Store!vars
<1>1. TypeOK /\ cur \in Dirs /\ pc = "idle" /\ cur' = cur
  BY DEF Refines, IInv, RemoveEffect
<1>2. Tab(cur)[i].mark = "live" /\ Tab(cur)[i].name = n
  BY HitIsLive DEF RemoveEffect, Hit
<1>3. Tab(cur)[i].cl \in Clusters
  <2>1. Tab(cur)[i] # Live(JunkName, "file", 0)
    BY <1>2, TextAssumption DEF Live
  <2> QED BY <1>1, <1>2, <2>1 DEF Refines, StoreInv, EntriesWritten
<1>4. /\ pc' = "free" /\ out' = out /\ fat' = fat
      /\ job'.slot = i /\ job'.old = Tab(cur)[i] /\ job'.cl = Tab(cur)[i].cl
  <2>1. Tab(cur)[i].cl >= 2
    BY <1>3, SizeAssumption DEF Clusters
  <2> QED BY <2>1 DEF RemoveEffect
<1>5. UNCHANGED Store!vars
  <2>1. /\ \A d \in Dirs : d # cur => Tab(d)' = Tab(d)
        /\ \A d \in Dirs : \A j \in Slots : d # cur \/ j # i => Tab(d)'[j] = Tab(d)[j]
        /\ WriteDir([Tab(cur) EXCEPT ![i] = Deleted])
    BY DEF RemoveEffect
  <2>2. job'.slot = i /\ job'.old = Tab(cur)[i]
    BY <1>4
  <2> QED BY <1>1, <1>4, <2>1, <2>2, FirstWriteUnseen DEF Store!vars, HalfDone
<1>6. \A d \in Dirs' : \A j \in Slots :
         Tab(d)'[j] = IF d = cur /\ j = i THEN Deleted ELSE Tab(d)[j]
  BY DEF RemoveEffect
<1>7. EntriesWritten'
  BY <1>6 DEF RemoveEffect, EntriesWritten, Refines, StoreInv, Deleted
<1>8. RemovalAsCalled'
  <2>1. Tab(cur)'[i] = Deleted
    BY <1>1, <1>6 DEF Tab, RemoveEffect
  <2>2. job'.slot = i /\ job'.old = Tab(cur)[i] /\ job'.cl = Tab(cur)[i].cl
    BY <1>4
  <2>3. Store!Find(n, i)
    BY <1>1, ShownWhenWhole DEF RemoveEffect, HalfDone
  <2>4. Store!Find(n, i)'
    BY <1>5, <2>3 DEF Store!Find, Store!Used, Store!Here, Store!vars
  <2>5. Store!Find(job.old.name, job.slot)'
    BY <1>2, <2>2, <2>4 DEF Store!Find, Store!Used, Store!Here
  <2> QED BY <1>2, <2>1, <2>2, <2>5 DEF RemovalAsCalled, Deleted
<1>9. \A b \in Clusters : data'[b].kind = "dir" => data'[b].text = DirBytes
  BY <1>1 DEF RemoveEffect, WriteDir, TypeOK, Rewritten, DirSector, Refines, StoreInv
<1> QED BY <1>4, <1>5, <1>7, <1>8, <1>9 DEF StoreInv, WriteAsCalled, CatAsCalled

LEMMA PutDataUnseen ==
  ASSUME Refines, IInv', PutData
  PROVE  StoreInv' /\ UNCHANGED Store!vars
<1>1. /\ pc = "data" /\ pc' = "fat" /\ UNCHANGED <<root, fat, cur, job, out>>
      /\ data' = [data EXCEPT ![job.cl] = job.sector]
  BY DEF PutData
<1>2. fat[job.cl] = FREE /\ job.cl \in Clusters /\ TypeOK /\ cur \in Dirs
  BY <1>1 DEF Refines, IInv, WriteInProgress
<1>3. \A c \in Clusters : fat[c] # FREE => data'[c] = data[c]
  BY <1>1, <1>2 DEF TypeOK
<1>4. Dirs' = Dirs /\ \A d \in Dirs : Tab(d)' = Tab(d)
  BY <1>1, <1>3 DEF Dirs, Tab
<1>5. UNCHANGED Store!vars
  <2>1. ASSUME NEW d \in Dirs PROVE ShownTable(d)' = ShownTable(d)
    BY <1>1, <1>4 DEF ShownTable, HalfDone
  <2>2. TablesKeep
    BY <2>1 DEF TablesKeep
  <2> QED BY <1>1, <1>2, <1>3, <2>2, NothingSeen DEF Store!vars
<1>6. EntriesWritten'
  BY <1>4 DEF EntriesWritten, Refines, StoreInv
<1>7. WriteAsCalled'
  <2>1. PICK d : d = cur
    OBVIOUS
  <2>2. Tab(d)' = Tab(d)
    BY <1>2, <1>4, <2>1
  <2> QED BY <1>1, <2>1, <2>2 DEF WriteAsCalled, Refines, StoreInv
<1>8. \A b \in Clusters : data'[b].kind = "dir" => data'[b].text = DirBytes
  <2>1. job.sector.kind = "dir" => job.sector.text = DirBytes
    <3>1. (\E t \in Contents : job.sector = TextSector(t)) \/ job.sector = DirSector(EmptyTable)
      BY <1>1 DEF Refines, StoreInv, WriteAsCalled
    <3>2. ASSUME NEW t \in Contents, job.sector = TextSector(t) PROVE job.sector.kind # "dir"
      BY <3>2 DEF TextSector
    <3>3. DirSector(EmptyTable).text = DirBytes
      BY DEF DirSector
    <3> QED BY <3>1, <3>2, <3>3
  <2> QED BY <1>1, <1>2, <2>1 DEF TypeOK, Refines, StoreInv
<1> QED BY <1>1, <1>5, <1>6, <1>7, <1>8 DEF StoreInv, RemovalAsCalled, CatAsCalled

(* The write of the FAT is the abstract command.                           *)
LEMMA PutFatCreates ==
  ASSUME Refines, IInv', PutFat
  PROVE  StoreInv' /\ \E n \in Names : Store!Mkdir(n) \/ \E t \in Contents : Store!Write(n, t)
<1>1. /\ pc = "fat" /\ pc' = "idle" /\ UNCHANGED <<root, data, cur>> /\ job' = NoJob
      /\ fat' = [fat EXCEPT ![job.cl] = EOC] /\ out' = Reply("created", {})
  BY DEF PutFat, Finish, Say
<1>a. PICK c \in Clusters \ Dirs, i \in Slots : c = job.cl /\ i = job.slot
  BY FatWritten DEF Refines
<1>e. PICK e : e = Tab(cur)[i]
  OBVIOUS
<1>n. PICK new : new = IF e.attr = "dir" THEN Store!DirNode(Store!NoEnts)
                                         ELSE Store!TextNode(job.sector.text)
  OBVIOUS
<1>s. PICK ns : ns = [b \in Clusters |-> IF b = c THEN new ELSE ShownNode(b)]
  OBVIOUS
<1>2. /\ cur # c /\ Owns(cur, i, c)
      /\ Dirs' \in {Dirs, Dirs \cup {c}} /\ \A d : Tab(d)' = Tab(d)
      /\ c \in Dirs' => Tab(c) = EmptyTable
  BY <1>a, FatWritten DEF Refines
<1>3. TypeOK /\ cur \in Dirs /\ fat[c] = FREE /\ data[c] = job.sector
  BY <1>a, <1>1 DEF Refines, IInv, WriteInProgress
<1>4. /\ job.old.mark # "live" /\ e.name \in Names /\ e.mark = "live" /\ e.cl = c
      /\ \/ e.attr = "file" /\ \E t \in Contents : job.sector = TextSector(t)
         \/ e.attr = "dir" /\ job.sector = DirSector(EmptyTable)
  BY <1>a, <1>1, <1>2, <1>e DEF Refines, StoreInv, WriteAsCalled, Owns
<1>5. fat'[c] = EOC /\ EOC # FREE /\ \A b \in Clusters : b # c => fat'[b] = fat[b]
  BY <1>a, <1>1, <1>3 DEF TypeOK, EOC, FREE
<1>6. \A d \in Dirs : d # cur => ShownTable(d)' = ShownTable(d)
  BY <1>1, <1>2 DEF ShownTable
<1>7. ASSUME NEW j \in Slots
      PROVE  ShownTable(cur)'[j] = IF j = i THEN ShownEntry(e) ELSE ShownTable(cur)[j]
  BY <1>a, <1>1, <1>2, <1>e DEF ShownTable, HalfDone
<1>8. ShownTable(cur)[i] = Store!Nothing /\ i \notin Store!Used
  <2>1. ShownTable(cur)[i] = ShownEntry(job.old)
    BY <1>a, <1>1 DEF ShownTable, HalfDone
  <2> QED BY <1>3, <1>4, <2>1, ShownEntries, ShownHere DEF Store!Used
<1>9. ShownNode(c) = Store!Absent
  BY <1>3, ShownEntries DEF ShownNode, Store!Absent, NoText
<1>10. ShownNode(c)' = new
  <2>1. CASE e.attr = "dir"
    <3>1. ShownTable(c)' = Store!NoEnts
      <4>1. \A j \in Slots : ShownTable(c)'[j] = ShownEntry(End)
        BY <1>1, <1>3, <1>4, <2>1, ConstantTypes
           DEF ShownTable, HalfDone, Tab, DirSector, EmptyTable
      <4> QED BY <4>1, ShownEntries DEF ShownTable, Store!NoEnts
    <3>2. data'[c].kind = "dir" /\ data'[c].text = DirBytes
      BY <1>1, <1>3, <1>4, <2>1 DEF DirSector
    <3> QED BY <1>5, <1>n, <2>1, <3>1, <3>2 DEF ShownNode, Store!DirNode
  <2>2. CASE e.attr = "file"
    <3>1. data'[c].kind = "text" /\ data'[c].text = job.sector.text
      <4>1. PICK t \in Contents : job.sector = TextSector(t)
        BY <1>4, <2>2
      <4>2. data'[c] = job.sector
        BY <1>1, <1>3
      <4> QED BY <4>1, <4>2 DEF TextSector
    <3>2. new = Store!TextNode(job.sector.text)
      BY <1>n, <2>2
    <3> QED BY <1>5, <3>1, <3>2, ShownEntries DEF ShownNode, Store!TextNode
  <2> QED BY <1>4, <2>1, <2>2
<1>11. ASSUME NEW b \in Clusters, b # cur PROVE ShownNode(b)' = ns[b]
  <2>1. CASE b = c
    BY <1>10, <1>s, <2>1
  <2>2. CASE b # c
    <3>1. ShownTable(b)' = ShownTable(b)
      BY <1>1, <1>2, <1>11 DEF ShownTable
    <3>2. ShownNode(b)' = ShownNode(b)
      BY <1>1, <1>5, <2>2, <3>1 DEF ShownNode, NoTable
    <3> QED BY <1>s, <2>2, <3>2
  <2> QED BY <2>1, <2>2
<1>12. Store!Store([Store!Here EXCEPT ![i] = ShownEntry(e)], ns)
  <2>1. cur' = cur /\ cur \in Dirs'
    BY <1>1, <1>2, <1>3
  <2>2. \A b \in Clusters : data'[b].kind = "dir" /\ b = cur => data'[b].text = DirBytes
    BY <1>1 DEF Refines, StoreInv
  <2>3. ns = [b \in Clusters |-> ns[b]]
    BY <1>s
  <2> QED BY <1>2, <1>6, <1>7, <1>11, <2>1, <2>2, <2>3, LastWriteSeen
<1>13. ShownEntry(e) = [name |-> e.name, attr |-> e.attr, id |-> c]
  BY <1>4 DEF ShownEntry
<1>14. Store!Create(e.name, e.attr, new)
  <2>1. c \in {x \in Clusters : [b \in Clusters |-> ShownNode(b)][x] = Store!Absent}
    BY <1>9
  <2>2. i \in Slots \ Store!Used
    BY <1>8
  <2>3. out' = Store!Reply("created", {}) /\ cur' = cur
    BY <1>1 DEF Reply, Store!Reply
  <2>4. ns = [[b \in Clusters |-> ShownNode(b)] EXCEPT ![c] = new]
    BY <1>s
  <2> QED BY <1>12, <2>4, <1>13, <2>1, <2>2, <2>3 DEF Store!Create
<1>15. \E n \in Names : Store!Mkdir(n) \/ \E t \in Contents : Store!Write(n, t)
  <2>1. CASE e.attr = "dir"
    <3>1. Store!Mkdir(e.name)
      BY <1>14, <1>n, <2>1 DEF Store!Mkdir
    <3> QED BY <1>4, <3>1
  <2>2. CASE e.attr = "file"
    <3>1. PICK t \in Contents : job.sector = TextSector(t)
      BY <1>4, <2>2
    <3>2. new = Store!TextNode(t)
      BY <1>n, <2>2, <3>1 DEF TextSector
    <3>3. Store!Write(e.name, t)
      BY <1>14, <2>2, <3>2 DEF Store!Write
    <3> QED BY <1>4, <3>3
  <2> QED BY <1>4, <2>1, <2>2
<1>16. EntriesWritten'
  <2>1. \A j \in Slots : EmptyTable[j].mark # "live"
    BY DEF EmptyTable, End
  <2> QED BY <1>2, <2>1 DEF EntriesWritten, Refines, StoreInv
<1> QED BY <1>1, <1>15, <1>16
     DEF StoreInv, WriteAsCalled, RemovalAsCalled, CatAsCalled, Refines

LEMMA FreeChainRemoves ==
  ASSUME Refines, IInv', FreeChain
  PROVE  StoreInv' /\ \E n \in Names : Store!Remove(n)
<1>1. /\ pc = "free" /\ pc' = "idle" /\ UNCHANGED <<root, data, cur>> /\ job' = NoJob
      /\ fat' = [b \in Clusters |-> IF b \in Chain(job.cl) THEN FREE ELSE fat[b]]
      /\ out' = Reply("deleted", {})
  BY DEF FreeChain, Finish, Say
<1>2. TypeOK /\ cur \in Dirs /\ job.cl # cur /\ fat[job.cl] = EOC
  BY <1>1 DEF Refines, IInv, RemovalInProgress
<1>3. PICK c \in Clusters, i \in Slots : c = job.cl /\ i = job.slot
  BY <1>1 DEF Refines, IInv, RemovalInProgress, StoreInv, RemovalAsCalled
<1>4. PICK n \in Names : n = job.old.name
  BY <1>1 DEF Refines, StoreInv, RemovalAsCalled
<1>5. /\ job.old.mark = "live" /\ job.old.cl = c /\ Tab(cur)[i].mark # "live"
      /\ Store!Find(n, i)
  BY <1>1, <1>3, <1>4 DEF Refines, StoreInv, RemovalAsCalled
<1>6. PICK ns : ns = [b \in Clusters |-> IF b = c THEN Store!Absent ELSE ShownNode(b)]
  OBVIOUS
<1>7. Dirs' = Dirs \ {c} /\ \A d : Tab(d)' = Tab(d)
  BY <1>3, FatFreed DEF Refines
<1>8. fat'[c] = FREE /\ \A b \in Clusters : b # c => fat'[b] = fat[b]
  BY <1>1, <1>2, <1>3, ChainOfOne
<1>9. \A d \in Dirs : d # cur => ShownTable(d)' = ShownTable(d)
  BY <1>1, <1>7 DEF ShownTable
<1>10. ASSUME NEW j \in Slots
       PROVE  ShownTable(cur)'[j] = IF j = i THEN Store!Nothing ELSE ShownTable(cur)[j]
  <2>1. ShownTable(cur)'[j] = ShownEntry(Tab(cur)[j])
    BY <1>1, <1>7 DEF ShownTable, HalfDone
  <2>2. CASE j = i
    BY <1>5, <2>1, <2>2, ShownEntries
  <2>3. CASE j # i
    BY <1>3, <2>1, <2>3 DEF ShownTable, HalfDone
  <2> QED BY <2>2, <2>3
<1>11. ASSUME NEW b \in Clusters, b # cur PROVE ShownNode(b)' = ns[b]
  <2>1. CASE b = c
    BY <1>6, <1>8, <2>1, ShownEntries DEF ShownNode, Store!Absent, NoText
  <2>2. CASE b # c
    <3>1. ShownTable(b)' = ShownTable(b)
      BY <1>1, <1>7, <1>11 DEF ShownTable
    <3>2. ShownNode(b)' = ShownNode(b)
      BY <1>1, <1>8, <2>2, <3>1 DEF ShownNode, NoTable
    <3> QED BY <1>6, <2>2, <3>2
  <2> QED BY <2>1, <2>2
<1>12. Store!Store([Store!Here EXCEPT ![i] = Store!Nothing], ns)
  <2>1. cur' = cur /\ cur \in Dirs'
    BY <1>1, <1>2, <1>3, <1>7
  <2>2. \A b \in Clusters : data'[b].kind = "dir" /\ b = cur => data'[b].text = DirBytes
    BY <1>1 DEF Refines, StoreInv
  <2>3. ns = [b \in Clusters |-> ns[b]]
    BY <1>6
  <2> QED BY <1>9, <1>10, <1>11, <2>1, <2>2, <2>3, LastWriteSeen
<1>13. Store!Here[i].id = c
  <2>1. ShownTable(cur)[i] = ShownEntry(job.old)
    BY <1>1, <1>3 DEF ShownTable, HalfDone
  <2>2. Store!Here[i] = ShownEntry(job.old)
    BY <1>2, <2>1, ShownHere
  <2> QED BY <1>5, <2>2 DEF ShownEntry
<1>14. Store!Remove(n)
  <2>1. out' = Store!Reply("deleted", {}) /\ cur' = cur
    BY <1>1 DEF Reply, Store!Reply
  <2>2. ns = [[b \in Clusters |-> ShownNode(b)] EXCEPT ![Store!Here[i].id] = Store!Absent]
    BY <1>6, <1>13
  <2> QED BY <1>5, <1>12, <2>1, <2>2 DEF Store!Remove
<1>15. EntriesWritten'
  BY <1>7 DEF EntriesWritten, Refines, StoreInv
<1> QED BY <1>1, <1>4, <1>14, <1>15
     DEF StoreInv, WriteAsCalled, RemovalAsCalled, CatAsCalled, Refines

(* A cut of power between the two writes of rm loses the entry.            *)
LEMMA CrashSeen ==
  ASSUME Refines, IInv', Crash, pc \in {"idle", "free"}
  PROVE  StoreInv' /\ Store!PowerCut
<1>1. /\ UNCHANGED <<root, fat, data>> /\ pc' = "idle" /\ cur' = 0 /\ job' = NoJob
      /\ out' = Store!Reply("<none>", {})
  BY DEF Crash, disk, Say, Reply, Store!Reply, NoText
<1>2. StoreInv'
  BY <1>1, StoreInvKept
<1>3. TypeOK /\ cur \in Dirs /\ Dirs' = Dirs /\ \A d : Tab(d)' = Tab(d)
  BY <1>1 DEF Refines, IInv, Dirs, Tab
<1>4. \A d : d # cur \/ pc = "idle" => ShownTable(d)' = ShownTable(d)
  BY <1>1, <1>3 DEF ShownTable, HalfDone
<1>5. \A c \in Clusters : c # cur \/ pc = "idle" => ShownNode(c)' = ShownNode(c)
  BY <1>1, <1>4 DEF ShownNode, NoTable
<1>6. CASE pc = "idle"
  BY <1>1, <1>2, <1>4, <1>5, <1>6 DEF Store!PowerCut
<1>7. CASE pc = "free"
  <2>1. PICK i \in Slots : i = job.slot
    BY <1>7 DEF Refines, StoreInv, RemovalAsCalled
  <2>2. Tab(cur)[i].mark # "live" /\ i \in Store!Used
    BY <1>7, <2>1 DEF Refines, StoreInv, RemovalAsCalled, Store!Find
  <2>3. PICK e : e = [Store!Here EXCEPT ![i] = Store!Nothing]
    OBVIOUS
  <2>4. PICK d \in Dirs : d = cur
    BY <1>3
  <2>5. ShownTable(d)' = e
    <3>1. ASSUME NEW j \in Slots
          PROVE  ShownTable(d)'[j] = IF j = i THEN Store!Nothing ELSE ShownTable(d)[j]
      <4>1. ShownTable(d)'[j] = ShownEntry(Tab(d)[j])
        BY <1>1, <1>3 DEF ShownTable, HalfDone
      <4>2. CASE j = i
        BY <2>2, <2>4, <4>1, <4>2, ShownEntries
      <4>3. CASE j # i
        BY <2>1, <4>1, <4>3 DEF ShownTable, HalfDone
      <4> QED BY <4>2, <4>3
    <3>2. Store!Here = ShownTable(d)
      BY <1>3, <2>4, ShownHere
    <3> QED BY <2>3, <3>1, <3>2 DEF ShownTable
  <2>6. Store!Store(e, [c \in Clusters |-> ShownNode(c)])
    <3>1. CASE cur = 0
      <4>1. \A c \in Clusters : ShownNode(c)' = ShownNode(c)
        BY <1>5, <3>1, ConstantTypes
      <4> QED BY <2>4, <2>5, <3>1, <4>1 DEF Store!Store
    <3>2. CASE cur # 0
      <4>1. d \in Clusters /\ fat[d] # FREE /\ data[d].kind = "dir" /\ data[d].text = DirBytes
        BY <2>4, <3>2 DEF Dirs, Refines, StoreInv
      <4>2. ShownNode(d)' = Store!DirNode(e)
        BY <1>1, <2>5, <4>1 DEF ShownNode, Store!DirNode
      <4>3. ShownTable(0)' = ShownTable(0)
        BY <1>4, <3>2
      <4>4. [c \in Clusters |-> ShownNode(c)]'
              = [[c \in Clusters |-> ShownNode(c)] EXCEPT ![cur] = Store!DirNode(e)]
        BY <1>5, <2>4, <4>1, <4>2
      <4> QED BY <3>2, <4>3, <4>4 DEF Store!Store
    <3> QED BY <3>1, <3>2
  <2> QED BY <1>1, <1>2, <2>2, <2>3, <2>6 DEF Store!PowerCut
<1> QED BY <1>6, <1>7

(* Commands that write no sector.                                          *)
LEMMA DiskSame ==
  ASSUME UNCHANGED <<root, fat, data>>, ~HalfDone, ~HalfDone'
  PROVE  UNCHANGED <<ShownTable(0), [c \in Clusters |-> ShownNode(c)]>>
<1>1. \A d : ShownTable(d)' = ShownTable(d)
  BY DEF ShownTable, Tab
<1>2. \A c \in Clusters : ShownNode(c)' = ShownNode(c)
  BY <1>1 DEF ShownNode, NoTable
<1> QED BY <1>1, <1>2

LEMMA NotFoundSeen ==
  ASSUME Refines, NEW n, pc = "idle", Missing(Tab(cur), n), Refuse("not found")
  PROVE  Store!NotFound(n)
<1>1. ~Store!Known(n)
  BY ShownWhenWhole DEF HalfDone
<1>2. UNCHANGED <<ShownTable(0), [c \in Clusters |-> ShownNode(c)]>>
  BY DiskSame DEF Refuse, HalfDone
<1> QED BY <1>1, <1>2 DEF Store!NotFound, Refuse, Say, Reply, Store!Reply

LEMMA FoundSeen ==
  ASSUME Refines, NEW n \in Names, NEW i \in Slots, ~HalfDone, Hit(Tab(cur), n, i)
  PROVE  /\ Store!Find(n, i) /\ Tab(cur)[i].cl \in Clusters /\ fat[Tab(cur)[i].cl] = EOC
         /\ Store!Here[i].attr = Tab(cur)[i].attr /\ Store!Here[i].id = Tab(cur)[i].cl
         /\ [c \in Clusters |-> ShownNode(c)][Tab(cur)[i].cl].text = data[Tab(cur)[i].cl].text
<1>1. cur \in Dirs /\ TypeOK
  BY DEF Refines, IInv
<1>2. Tab(cur)[i].mark = "live" /\ Tab(cur)[i].name = n
  BY HitIsLive DEF Hit
<1>3. Tab(cur)[i].cl \in Clusters
  <2>1. Tab(cur)[i] # Live(JunkName, "file", 0)
    BY <1>2, TextAssumption DEF Live
  <2> QED BY <1>1, <1>2, <2>1 DEF Refines, StoreInv, EntriesWritten
<1>4. fat[Tab(cur)[i].cl] = EOC
  BY <1>1, <1>2, <1>3 DEF Refines, IInv, EntriesSound, Owns, IsPending, HalfDone
<1>5. Store!Find(n, i) /\ Store!Here[i] = ShownEntry(Tab(cur)[i])
  BY ShownWhenWhole
<1>6. ShownNode(Tab(cur)[i].cl).text = data[Tab(cur)[i].cl].text
  BY <1>3, <1>4 DEF ShownNode, FREE, EOC
<1> QED BY <1>2, <1>3, <1>4, <1>5, <1>6 DEF ShownEntry

LEMMA FullSeen ==
  ASSUME Refines, DiskFull \/ DirFull
  PROVE  Store!Full
<1>1. pc = "idle" /\ Refuse("full")
  BY DEF DiskFull, DirFull
<1>2. /\ UNCHANGED <<ShownTable(0), [c \in Clusters |-> ShownNode(c)]>>
      /\ out' = Store!Reply("full", {}) /\ cur' = cur
  BY <1>1, DiskSame DEF Refuse, Say, Reply, Store!Reply, HalfDone
<1>3. CASE DiskFull
  <2>1. \A c \in Clusters : fat[c] # FREE /\ data[c].kind \in {"dir", "text", "mixed"}
    BY <1>3 DEF DiskFull, Refines, IInv, TypeOK, Sector
  <2>2. \A c \in Clusters : ShownNode(c) # Store!Absent
    BY <2>1 DEF ShownNode, Store!Absent
  <2> QED BY <1>2, <2>2 DEF Store!Full
<1>4. CASE DirFull
  <2>1. Store!Used = Slots
    BY <1>1, <1>4, ShownWhenWhole DEF DirFull, HalfDone
  <2> QED BY <1>2, <2>1 DEF Store!Full
<1> QED BY <1>3, <1>4

LEMMA CommandSeen ==
  ASSUME Refines, IInv', NEW n \in Names, Command(n)
  PROVE  StoreInv' /\ (Store!Next \/ UNCHANGED Store!vars)
<1>1. pc = "idle"
  BY DEF Command, WriteFile, MakeDirectory, Create, RemoveFile, ChangeDirectory, CatFile,
         ExecuteProgram
<1>2. ASSUME NEW t \in Contents, WriteFile(n, t) PROVE StoreInv' /\ UNCHANGED Store!vars
  <2>1. Live(n, "file", 2) \in Entry
    BY ConstantTypes DEF Live, Entry, Marks, Attrs, AllNames
  <2> QED BY <1>2, <2>1, CreateUnseen DEF WriteFile
<1>3. ASSUME MakeDirectory(n) PROVE StoreInv' /\ UNCHANGED Store!vars
  <2>1. Live(n, "dir", 2) \in Entry
    BY ConstantTypes DEF Live, Entry, Marks, Attrs, AllNames
  <2> QED BY <1>3, <2>1, CreateUnseen DEF MakeDirectory
<1>4. ASSUME Missing(Tab(cur), n), Refuse("not found") PROVE StoreInv' /\ Store!Next
  <2>1. Store!NotFound(n)
    BY <1>1, <1>4, NotFoundSeen
  <2>2. StoreInv'
    BY <1>1, <1>4, StoreInvKept DEF Refuse
  <2> QED BY <2>1, <2>2 DEF Store!Next
<1>5. ASSUME RemoveFile(n) PROVE StoreInv' /\ (Store!Next \/ UNCHANGED Store!vars)
  <2>1. TypeOK /\ cur \in Dirs
    BY DEF Refines, IInv
  <2> QED BY <1>4, <1>5, <2>1, RemoveWrites, RemoveUnseen
<1>6. ASSUME NEW i \in Slots, Hit(Tab(cur), n, i), UNCHANGED <<root, fat, data>>,
             pc' \in {"idle", "poll"}
      PROVE  /\ StoreInv' /\ Store!Find(n, i) /\ Tab(cur)[i].cl \in Clusters
             /\ Store!Here[i].attr = Tab(cur)[i].attr /\ Store!Here[i].id = Tab(cur)[i].cl
             /\ [c \in Clusters |-> ShownNode(c)][Tab(cur)[i].cl].text = data[Tab(cur)[i].cl].text
             /\ UNCHANGED <<ShownTable(0), [c \in Clusters |-> ShownNode(c)]>>
  <2>1. /\ Store!Find(n, i) /\ Tab(cur)[i].cl \in Clusters
        /\ Store!Here[i].attr = Tab(cur)[i].attr /\ Store!Here[i].id = Tab(cur)[i].cl
        /\ [c \in Clusters |-> ShownNode(c)][Tab(cur)[i].cl].text = data[Tab(cur)[i].cl].text
    BY <1>1, <1>6, FoundSeen DEF HalfDone
  <2>2. StoreInv'
    BY <1>1, <1>6, StoreInvKept
  <2>3. UNCHANGED <<ShownTable(0), [c \in Clusters |-> ShownNode(c)]>>
    BY <1>1, <1>6, DiskSame DEF HalfDone
  <2> QED BY <2>1, <2>2, <2>3
<1>7. ASSUME ChangeDirectory(n) PROVE StoreInv' /\ Store!Next
  <2>1. ASSUME NEW i \in Slots, Hit(Tab(cur), n, i),
               IF Tab(cur)[i].attr = "dir"
               THEN cur' = Tab(cur)[i].cl /\ Say("entered", {})
               ELSE cur' = cur /\ Say("not a directory", {}),
               UNCHANGED <<root, fat, data, pc, job>>
        PROVE  StoreInv' /\ Store!Next
    <3>1. Store!ChangeDirectory(n)
      BY <1>1, <1>6, <2>1 DEF Store!ChangeDirectory, Say, Reply, Store!Reply
    <3>2. StoreInv'
      BY <1>1, <1>6, <2>1
    <3> QED BY <3>1, <3>2 DEF Store!Next
  <2> QED BY <1>4, <1>7, <2>1, HitIsLive DEF ChangeDirectory
<1>8. ASSUME CatFile(n) PROVE StoreInv' /\ (Store!Next \/ UNCHANGED Store!vars)
  <2>1. ASSUME NEW i \in Slots, Hit(Tab(cur), n, i), pc' = "cat",
               job' = JobOf(i, Tab(cur)[i], Blank), UNCHANGED <<root, fat, data, cur, out>>
        PROVE  StoreInv' /\ UNCHANGED Store!vars
    <3>1. UNCHANGED Store!vars
      BY <1>1, <2>1, DiskSame DEF HalfDone, Store!vars
    <3>2. /\ job'.slot = i /\ job'.old = Tab(cur)[i] /\ job'.cl = Tab(cur)[i].cl
          /\ job'.shown = {}
      BY <2>1 DEF JobOf
    <3>3. Tab(cur)' = Tab(cur) /\ Tab(cur)[i].name = n
      BY <2>1 DEF Tab, Hit
    <3>4. CatAsCalled'
      BY <2>1, <3>2, <3>3 DEF CatAsCalled, Hit, Visible
    <3>5. EntriesWritten'
      BY <2>1 DEF Refines, StoreInv, EntriesWritten, Dirs, Tab
    <3> QED BY <2>1, <3>1, <3>4, <3>5 DEF Refines, StoreInv, WriteAsCalled, RemovalAsCalled
  <2> QED BY <1>4, <1>8, <2>1 DEF CatFile
<1>9. ASSUME ExecuteProgram(n) PROVE StoreInv' /\ (Store!Next \/ UNCHANGED Store!vars)
  <2>1. ASSUME NEW i \in Slots, Hit(Tab(cur), n, i),
               Say("running", {data[c].text : c \in {Tab(cur)[i].cl} \cap Clusters}),
               UNCHANGED <<root, fat, data, cur, pc, job>>
        PROVE  StoreInv' /\ Store!Next
    <3>1. {data[c].text : c \in {Tab(cur)[i].cl} \cap Clusters} = {data[Tab(cur)[i].cl].text}
      BY <1>1, <1>6, <2>1
    <3>2. Store!Show(n, "running")
      BY <1>1, <1>6, <2>1, <3>1 DEF Store!Show, Say, Reply, Store!Reply
    <3>3. StoreInv'
      BY <1>1, <1>6, <2>1
    <3> QED BY <3>2, <3>3 DEF Store!Next
  <2>2. ASSUME NEW i \in Slots, Hit(Tab(cur), n, i), pc' = "poll",
               UNCHANGED <<root, fat, data, cur, job, out>>
        PROVE  StoreInv' /\ UNCHANGED Store!vars
    BY <1>6, <2>2 DEF Store!vars
  <2> QED BY <1>4, <1>9, <2>1, <2>2 DEF ExecuteProgram
<1> QED BY <1>2, <1>3, <1>5, <1>7, <1>8, <1>9 DEF Command

(* cat goes through its one cluster unseen, and its end is the abstract    *)
(* command.                                                                *)
LEMMA CatSeen ==
  ASSUME Refines, IInv', CatNext \/ CatEnds
  PROVE  StoreInv' /\ (Store!Next \/ UNCHANGED Store!vars)
<1>1. pc = "cat" /\ UNCHANGED <<root, fat, data, cur>>
  BY DEF CatNext, CatEnds
<1>2. PICK n \in Names, i \in Slots : n = job.old.name /\ i = job.slot
  BY <1>1, HitIsLive DEF Refines, StoreInv, CatAsCalled
<1>3. PICK c : c = job.old.cl
  OBVIOUS
<1>4. /\ Hit(Tab(cur), n, i) /\ job.old = Tab(cur)[i] /\ c = Tab(cur)[i].cl
      /\ \/ job.cl = c /\ job.shown = {}
         \/ job.cl = EOC /\ job.shown = {data[c].text}
  BY <1>1, <1>2, <1>3 DEF Refines, StoreInv, CatAsCalled
<1>5. /\ Store!Find(n, i) /\ c \in Clusters /\ fat[c] = EOC
      /\ Store!Here[i].id = c
      /\ [b \in Clusters |-> ShownNode(b)][c].text = data[c].text
  BY <1>1, <1>4, FoundSeen DEF HalfDone
<1>6. UNCHANGED <<ShownTable(0), [b \in Clusters |-> ShownNode(b)]>>
  BY <1>1, DiskSame DEF HalfDone, CatNext, CatEnds
<1>7. CASE CatNext
  <2>1. job.cl \in Clusters /\ EOC \notin Clusters
    BY <1>7, ConstantTypes DEF CatNext
  <2>2. job.cl = c /\ job.shown = {}
    BY <1>4, <2>1
  <2>3. job' = [job EXCEPT !.cl = EOC, !.shown = {data[c].text}]
    BY <1>5, <1>7, <2>2 DEF CatNext
  <2>4. job \in Job
    BY DEF Refines, IInv, TypeOK
  <2>5. job'.cl = EOC /\ job'.shown = {data[c].text} /\ job'.old = job.old /\ job'.slot = job.slot
    BY <2>3, <2>4 DEF Job
  <2>6. Tab(cur)' = Tab(cur)
    BY <1>1 DEF Tab
  <2>7. CatAsCalled'
    BY <1>1, <1>2, <1>3, <1>4, <1>7, <2>5, <2>6 DEF CatAsCalled, Hit, Visible
  <2>8. EntriesWritten' /\ pc' = "cat"
    BY <1>1, <1>7 DEF CatNext, Refines, StoreInv, EntriesWritten, Dirs, Tab
  <2> QED BY <1>1, <1>6, <1>7, <2>7, <2>8
      DEF CatNext, Refines, StoreInv, WriteAsCalled, RemovalAsCalled, Store!vars
<1>8. CASE CatEnds
  <2>1. pc' = "idle" /\ ~Followed(job.cl) /\ out' = Reply("cat", job.shown)
    BY <1>8 DEF CatEnds, Say
  <2>2. Followed(c)
    BY <1>5, SizeAssumption DEF Clusters, Followed
  <2>3. job.shown = {data[c].text}
    BY <1>4, <2>1, <2>2
  <2>4. Store!Show(n, "cat")
    BY <1>1, <1>5, <1>6, <2>1, <2>3 DEF Store!Show, Reply, Store!Reply
  <2>5. StoreInv'
    BY <1>1, <2>1, StoreInvKept
  <2> QED BY <2>4, <2>5 DEF Store!Next
<1> QED BY <1>7, <1>8

LEMMA StepSeen ==
  ASSUME Refines, IInv', [Next]_vars, CrashAt \subseteq {"idle", "free"}, AllowDummy = FALSE
  PROVE  StoreInv' /\ (Store!Next \/ UNCHANGED Store!vars)
<1>1. CASE DiskFull \/ DirFull
  <2>1. StoreInv'
    BY <1>1, StoreInvKept DEF DiskFull, DirFull, Refuse
  <2> QED BY <1>1, <2>1, FullSeen DEF Store!Next
<1>2. CASE ChangeToRoot
  <2>1. StoreInv' /\ UNCHANGED <<ShownTable(0), [c \in Clusters |-> ShownNode(c)]>>
    BY <1>2, StoreInvKept, DiskSame DEF ChangeToRoot, HalfDone
  <2>2. Store!ChangeToRoot
    BY <1>2, <2>1 DEF ChangeToRoot, Store!ChangeToRoot, Say, Reply, Store!Reply
  <2> QED BY <2>1, <2>2 DEF Store!Next
<1>3. CASE ListFiles
  <2>1. StoreInv' /\ UNCHANGED <<ShownTable(0), [c \in Clusters |-> ShownNode(c)]>>
    BY <1>3, StoreInvKept, DiskSame DEF ListFiles, HalfDone
  <2>2. {Tab(cur)[i].name : i \in Visible(Tab(cur))} = {Store!Here[i].name : i \in Store!Used}
    BY <1>3, ShownWhenWhole DEF ListFiles, HalfDone
  <2>3. Store!List
    BY <1>3, <2>1, <2>2 DEF ListFiles, Store!List, Say, Reply, Store!Reply
  <2> QED BY <2>1, <2>3 DEF Store!Next
<1>4. CASE PutData
  BY <1>4, PutDataUnseen
<1>5. CASE PutFat
  BY <1>5, PutFatCreates DEF Store!Next
<1>6. CASE FreeChain
  BY <1>6, FreeChainRemoves DEF Store!Next
<1>7. CASE Crash
  <2>1. pc \in {"idle", "free"}
    BY <1>7 DEF Crash
  <2> QED BY <1>7, <2>1, CrashSeen DEF Store!Next
<1>8. CASE CreateDummyFile \/ PutDummy("dummy2", 2, "dummy3")
            \/ PutDummy("dummy3", 3, "dummyfat") \/ PutDummyFat
  BY <1>8 DEF CreateDummyFile, PutDummy, PutDummyFat, Refines, IInv
<1>9. CASE UNCHANGED vars
  <2>1. \A d : ShownTable(d)' = ShownTable(d)
    BY <1>9 DEF vars, ShownTable, HalfDone, Tab
  <2>2. \A c \in Clusters : ShownNode(c)' = ShownNode(c)
    BY <1>9, <2>1 DEF vars, ShownNode, NoTable
  <2>3. UNCHANGED Store!vars
    BY <1>9, <2>1, <2>2 DEF vars, Store!vars
  <2>4. Store!Find(job.old.name, job.slot)' <=> Store!Find(job.old.name, job.slot)
    BY <1>9, <2>3 DEF vars, Store!vars, Store!Find, Store!Used, Store!Here
  <2>5. StoreInv'
    BY <1>9, <2>4 DEF vars, Refines, StoreInv, EntriesWritten, WriteAsCalled, RemovalAsCalled,
                      CatAsCalled, Dirs, Tab, Hit, Visible
  <2> QED BY <2>3, <2>5
<1>10. CASE ReadDirHangs
  <2>1. /\ UNCHANGED <<root, fat, data, cur, out>> /\ pc' = "poll"
        /\ ~HalfDone /\ ~HalfDone'
    BY <1>10 DEF ReadDirHangs, HalfDone
  <2>2. StoreInv'
    BY <2>1, StoreInvKept
  <2>3. UNCHANGED Store!vars
    BY <2>1, DiskSame DEF Store!vars
  <2> QED BY <2>2, <2>3
<1> QED BY <1>1, <1>2, <1>3, <1>4, <1>5, <1>6, <1>7, <1>8, <1>9, <1>10, CommandSeen, CatSeen
        DEF Next, Continue

LEMMA StoreInit == Init => Store!Init
<1> SUFFICES ASSUME Init PROVE Store!Init
  OBVIOUS
<1>1. ShownTable(0) = [i \in Slots |-> ShownEntry(root[i])]
  <2>1. ~HalfDone
    BY DEF Init, HalfDone
  <2> QED BY <2>1 DEF ShownTable, Tab
<1>2. ShownTable(0) \in {Store!NoEnts,
        [Store!NoEnts EXCEPT ![1] = [name |-> JunkName, attr |-> "file", id |-> 0]]}
  <2>1. CASE root = EmptyTable
    BY <1>1, <2>1, ShownEntries DEF EmptyTable, Store!NoEnts
  <2>2. CASE root = JunkTable
    <3>1. ShownEntry(Live(JunkName, "file", 0)) = [name |-> JunkName, attr |-> "file", id |-> 0]
      BY DEF ShownEntry, Live
    <3>2. \A i \in Slots : ShownEntry(root[i]) = IF i = 1 THEN ShownEntry(Live(JunkName, "file", 0))
                                                  ELSE Store!Nothing
      BY <2>2, ShownEntries DEF JunkTable, EmptyTable
    <3> QED BY <1>1, <3>1, <3>2 DEF Store!NoEnts
  <2> QED BY <2>1, <2>2 DEF Init
<1>3. ASSUME NEW c \in Clusters PROVE ShownNode(c) \in {Store!Absent, Store!TextNode("<none>")}
  BY ShownEntries DEF Init, ShownNode, Blank, Store!Absent, Store!TextNode, NoText
<1> QED BY <1>2, <1>3 DEF Init, Store!Init, Reply, Store!Reply, NoText

(* What a user can tell apart is a run of the store of whole commands:     *)
(* write_file, make_directory and remove_file are atomic for cat, ls, cd   *)
(* and run, and a cut of power loses at most the node rm was removing.     *)
THEOREM CommandsAtomic ==
  ASSUME CrashAt \subseteq {"idle", "free"}, AllowDummy = FALSE
  PROVE  Spec => ImplementsStore
<1>1. Init => Refines /\ Store!Init
  <2>1. Init => NoHiddenEntry
    <3> SUFFICES ASSUME Init PROVE NoHiddenEntry
      OBVIOUS
    <3>1. Dirs = {0}
      BY ConstantTypes DEF Init, Dirs, Blank
    <3>2. \A i \in Slots : Tab(0)[i].mark = "live" => i = 1
      BY DEF Init, Tab, EmptyTable, JunkTable, End
    <3> QED BY <3>1, <3>2, ScansSeeAll DEF Slots
  <2> QED BY <2>1, InvInit, StoreInvInit, StoreInit DEF Refines
<1>2. Refines /\ [Next]_vars => Refines' /\ [Store!Next]_(Store!vars)
  BY InvStep, NoneHidden, StepSeen DEF Refines
<1> QED BY <1>1, <1>2, PTL DEF Spec, ImplementsStore, Store!Spec
==============================================================================
