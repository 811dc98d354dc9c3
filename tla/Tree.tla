-------------------------------- MODULE Tree --------------------------------
(***************************************************************************)
(* The directories under "/files/": a tree, given by the directory that    *)
(* each is in and by all those it lies in.                                 *)
(***************************************************************************)
CONSTANTS
  Dir, Root,   \* the directories and "/files/"
  Parent,      \* the directory a directory is in
  Ancestors    \* a directory and those it is in

ASSUME DirAssumption ==
  /\ Root \in Dir
  /\ Parent \in [Dir -> Dir]
  /\ Ancestors \in [Dir -> SUBSET Dir]
  /\ Ancestors[Root] = {Root}
  /\ \A d \in Dir : /\ d \in Ancestors[d] /\ Root \in Ancestors[d]
                    /\ d # Root => /\ Parent[d] # d
                                   /\ Ancestors[d] = {d} \cup Ancestors[Parent[d]]
  /\ \A d, e \in Dir :
       /\ d \in Ancestors[e] => Ancestors[d] \subseteq Ancestors[e]
       /\ d \in Ancestors[e] /\ e \in Ancestors[d] => d = e
       /\ d \in Ancestors[e] /\ d # e =>
            \E c \in Ancestors[e] : c # Root /\ Parent[c] = d
=============================================================================
