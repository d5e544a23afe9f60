------------------------------ MODULE MCTerminal -----------------------------
(***************************************************************************)
(* Two callers, who ask for two texts or for one; a greeting tried once,   *)
(* one remote announced; results at and just past each cap of the preview. *)
(***************************************************************************)
EXTENDS Terminal

MCApart == [c \in Callers |-> IF c = "c1" THEN "one text" ELSE "another"]
MCTwins == [c \in Callers |-> "one text"]

MCResults ==
  {[rows |-> r, columns |-> c, long |-> l \cap ((1 .. r) \X (1 .. c)), odd |-> FALSE] :
     r \in {0, 2, 3}, c \in {6, 7}, l \in SUBSET {<<2, 6>>, <<3, 7>>}}
  \cup {[rows |-> 1, columns |-> 1, long |-> {}, odd |-> TRUE]}
=============================================================================
