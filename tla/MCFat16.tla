------------------------------- MODULE MCFat16 -------------------------------
(* Fat16 on a disk of a few clusters and small directories.                *)
EXTENDS Fat16

(* Every boundary a cut of power can fall on, and those of rm alone. *)
AnyStep == Steps
BetweenAndRm == {"idle", "free"}

(* A text of the user's reads as an entry that can be named and whose      *)
(* cluster_low is two typed characters; that of mkdummy begins with ">> ", *)
(* which cannot be typed as a name.                                        *)
TypedBytes == [t \in Contents \cup {DummyText} |->
  [EmptyTable EXCEPT ![1] = IF t = DummyText THEN Live(JunkName, "none", 29545)
                                             ELSE Live("A", "none", 24930)]]
==============================================================================
