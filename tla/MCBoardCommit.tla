---------------------------- MODULE MCBoardCommit ----------------------------
(* BoardCommit on small boards: the constants the .cfg files share.        *)
EXTENDS BoardCommit, TLC

\* A board without groups, or whose one group holds all of its items.
MCInitMembers == [g \in Group |-> IF g \in InitBoard THEN InitBoard \cap Item ELSE {}]

\* Values are interchangeable, and so are the items when they are all on the
\* board, or all off it, to begin with.  No run with a liveness property uses these.
ValueSymmetry == Permutations(Value)
ItemSymmetry == Permutations(Value) \cup Permutations(Item)

==============================================================================
