----------------------------- MODULE RouterWorld -----------------------------
(* What the router's tree of NODEs promises (pns_node.h, Branch(),            *)
(* Overrides(), Commit()): every node is a world of its own, a set of items;  *)
(* a branch begins as its parent, what happens in it is seen nowhere else,    *)
(* and committing it makes its items those of the root.                      *)
(*                                                                           *)
(* PnsNode is shown to implement this module.  It has no indices, overrides,  *)
(* joints or owners.                                                         *)
CONSTANTS
    Node, Root,
    Item,
    Twin(_, _)      \* two segments at the same coordinates

VARIABLES contents      \* the items of each node that there is

Worlds == DOMAIN contents

WInit == contents \in [{Root} -> SUBSET Item]

BranchOff(n, m) ==
    /\ n \in Worlds /\ m \in Node \ Worlds
    /\ contents' = [w \in Worlds \cup {m} |-> IF w = m THEN contents[n] ELSE contents[w]]

\* Items are replaced by new ones, which are nowhere else and, if they are
\* segments, not at the coordinates of another one of the node.
Change(n) ==
    /\ n \in Worlds \ {Root} /\ DOMAIN contents' = Worlds
    /\ \A w \in Worlds \ {n} : contents'[w] = contents[w]
    /\ \A i \in contents'[n] \ contents[n] :
        /\ i \in Item /\ \A w \in Worlds : i \notin contents[w]
        /\ \A k \in contents'[n] \cap contents[n] : ~Twin(i, k)

Discard ==
    /\ {Root} \subseteq DOMAIN contents' /\ DOMAIN contents' \subseteq Worlds
    /\ contents' = [w \in DOMAIN contents' |-> contents[w]]

CommitWorld(n) ==
    /\ n \in Worlds
    /\ contents' = [w \in {Root} |-> contents[n]]

WNext ==
    \/ \E n, m \in Node : BranchOff(n, m)
    \/ \E n \in Node : Change(n) \/ CommitWorld(n)
    \/ Discard

WSpec == WInit /\ [][WNext]_contents
==============================================================================
