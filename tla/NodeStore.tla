------------------------------ MODULE NodeStore ------------------------------
(***************************************************************************)
(* What the file system of fs/fat16.c promises to the shell, without       *)
(* clusters being linked, marks of deleted entries or several sector       *)
(* writes per command: a set of numbered nodes, each absent, a text file   *)
(* or a directory, where every command is one step.  Node 0 is the root    *)
(* directory.  Fat16 is shown to implement this module.                    *)
(***************************************************************************)
EXTENDS Naturals

CONSTANTS
  NodeIds,   \* the numbers a stored node can have (the clusters)
  Slots,     \* positions of a directory: 1 .. 16 in the code
  Names,     \* names a user can type
  Contents,  \* texts a user can save
  Bytes,     \* what printing a directory as if it were a text shows
  Hidden     \* a name nobody can type (what the image may hold in slot 1)

VARIABLES
  root,  \* the entries of the root directory
  node,  \* node[n]: Absent, a text or a directory
  cur,   \* the current directory
  out    \* what the last command printed

vars == <<root, node, cur, out>>

Nothing == [name |-> "<none>", attr |-> "none", id |-> 0]
NoEnts == [i \in Slots |-> Nothing]
Absent == [kind |-> "absent", ents |-> NoEnts, text |-> "<none>"]
TextNode(t) == [kind |-> "text", ents |-> NoEnts, text |-> t]
DirNode(e) == [kind |-> "dir", ents |-> e, text |-> Bytes]
Reply(m, s) == [msg |-> m, shown |-> s]

Here == IF cur = 0 THEN root ELSE node[cur].ents
Used == {i \in Slots : Here[i] # Nothing}
Find(n, i) == /\ i \in Used /\ Here[i].name = n
              /\ \A j \in Used : j < i => Here[j].name # n
Known(n) == \E i \in Slots : Find(n, i)

(* The current directory becomes e and the other nodes are those of ns. *)
Store(e, ns) ==
  IF cur = 0 THEN root' = e /\ node' = ns
             ELSE root' = root /\ node' = [ns EXCEPT ![cur] = DirNode(e)]

Init ==
  /\ root \in {NoEnts, [NoEnts EXCEPT ![1] = [name |-> Hidden, attr |-> "file", id |-> 0]]}
  /\ node \in [NodeIds -> {Absent, TextNode("<none>")}]
  /\ cur = 0
  /\ out = Reply("<none>", {})

Create(n, attr, new) ==
  \E i \in Slots \ Used, id \in {x \in NodeIds : node[x] = Absent} :
    /\ Store([Here EXCEPT ![i] = [name |-> n, attr |-> attr, id |-> id]],
             [node EXCEPT ![id] = new])
    /\ out' = Reply("created", {})
    /\ UNCHANGED cur

Full ==
  /\ Used = Slots \/ \A id \in NodeIds : node[id] # Absent
  /\ out' = Reply("full", {})
  /\ UNCHANGED <<root, node, cur>>

Write(n, t) == Create(n, "file", TextNode(t))
Mkdir(n) == Create(n, "dir", DirNode(NoEnts))

(* Only the named entry goes, with its own node: what a removed directory  *)
(* held keeps its nodes.                                                   *)
Remove(n) ==
  \E i \in Slots :
    /\ Find(n, i)
    /\ Store([Here EXCEPT ![i] = Nothing], [node EXCEPT ![Here[i].id] = Absent])
    /\ out' = Reply("deleted", {})
    /\ UNCHANGED cur

ChangeToRoot ==
  /\ cur' = 0
  /\ out' = Reply("root", {})
  /\ UNCHANGED <<root, node>>

ChangeDirectory(n) ==
  \E i \in Slots :
    /\ Find(n, i)
    /\ IF Here[i].attr = "dir"
       THEN cur' = Here[i].id /\ out' = Reply("entered", {})
       ELSE cur' = cur /\ out' = Reply("not a directory", {})
    /\ UNCHANGED <<root, node>>

Show(n, m) ==
  \E i \in Slots :
    /\ Find(n, i)
    /\ out' = Reply(m, {node[Here[i].id].text})
    /\ UNCHANGED <<root, node, cur>>

NotFound(n) ==
  /\ ~Known(n)
  /\ out' = Reply("not found", {})
  /\ UNCHANGED <<root, node, cur>>

List ==
  /\ out' = Reply("listed", {Here[i].name : i \in Used})
  /\ UNCHANGED <<root, node, cur>>

(* Power is cut.  The worst a cut does is to lose a node: the removal in   *)
(* progress has taken its entry away and its node is still allocated.      *)
PowerCut ==
  /\ \/ UNCHANGED <<root, node>>
     \/ \E i \in Used : Store([Here EXCEPT ![i] = Nothing], node)
  /\ cur' = 0
  /\ out' = Reply("<none>", {})

Next ==
  \/ \E n \in Names : Mkdir(n) \/ Remove(n) \/ ChangeDirectory(n) \/ NotFound(n)
                      \/ Show(n, "cat") \/ Show(n, "running")
  \/ \E n \in Names, t \in Contents : Write(n, t)
  \/ Full \/ ChangeToRoot \/ List \/ PowerCut

Spec == Init /\ [][Next]_vars
==============================================================================
