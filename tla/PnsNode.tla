------------------------------- MODULE PnsNode -------------------------------
(* PNS::NODE, the world of the interactive router: a root that holds the      *)
(* tracks of the board, and lightweight branches of it, in which the placers  *)
(* and the shove algorithm try things.  A branch has an index of items, the   *)
(* set of the root's items that it overrides, and joints, which link the      *)
(* items that meet at a position.  A branch of the root starts with nothing   *)
(* and copies the root's joints when it first touches them; other branches    *)
(* copy all of their parent.  CommitRouting() carries a branch's changes over *)
(* to the board and to the root.                                             *)
(*                                                                           *)
(* Segments (arcs are the same here) and vias of one net; a via has a hole,   *)
(* whose owner changes with that of the via.  Pads stand still and are left   *)
(* out.  Shapes are constants of the items: an object that is freed may come  *)
(* back as another one of its shape.                                         *)
EXTENDS Naturals, Sequences, FiniteSets, SequencesExt, FiniteSetsExt

CONSTANTS
    Node, Root,
    Segment, Via,       \* the objects: PNS::SEGMENT and PNS::VIA
    Pos,
    Ends,               \* [Item -> SUBSET Pos]: the ends of a segment, the position of a via
    Layers,             \* [Item -> ranges of layers]
    Halves,             \* which segments a segment is split into: tuples <<s, x, y>>
    BoardItem,
    InitItems,          \* the tracks of the board
    MaxItems,           \* bound: items that exist at a time
    MaxChanges,         \* bound: items that a branch overrides and has
    MaxCommits,         \* bound: calls of CommitRouting()
    None

Item == Segment \cup Via
Layer == UNION {Layers[i] : i \in Item}
Own == "own"            \* the hole's owner is its via
Gone == "gone"          \* it has been deleted

ASSUME NodeAssumption ==
    /\ Root \in Node /\ None \notin Node \cup Item \cup BoardItem /\ Own \notin Node
    /\ Segment \cap Via = {} /\ InitItems \subseteq Item
    /\ IsFiniteSet(Item) /\ IsFiniteSet(BoardItem)
    /\ \E names \in [InitItems -> BoardItem] : IsInjective(names)
    /\ Ends \in [Item -> (SUBSET Pos) \ {{}}] /\ Layers \in [Item -> (SUBSET Nat) \ {{}}]
    /\ \A v \in Via : \E p \in Pos : Ends[v] = {p}
    /\ Halves \subseteq Segment \X Segment \X Segment
    /\ \A h \in Halves : /\ Ends[h[2]] \cap Ends[h[3]] # {}
                       /\ Layers[h[2]] = Layers[h[1]] /\ Layers[h[3]] = Layers[h[1]]
    /\ MaxItems \in Nat /\ MaxChanges \in Nat /\ MaxCommits \in Nat

VARIABLES
    parent,             \* m_parent; None: there is no such node
    index,              \* m_index
    override,           \* m_override
    joints,             \* m_joints, by position
    owner,              \* of each item
    holeOwner,          \* of the hole of each via
    garbage,            \* m_garbageItems of the root
    allocated,          \* the items that exist
    parentItem,         \* ITEM::m_parent, the board's item
    board,              \* what the board's items look like: like which item
    commits             \* how often a branch has been committed (history)

vars == <<parent, index, override, joints, owner, holeOwner, garbage, allocated, parentItem, board, commits>>

Live == {n \in Node : n = Root \/ parent[n] # None}
Children(n) == {m \in Node : parent[m] = n}
\* Mutant: releaseChildren() does not go into the branches of a branch.
OnlyChildren(n) == Children(n)

\* The nodes that releaseChildren() deletes: the least set with the children of
\* n and of each of its own members.
Below(n) ==
    LET Closed(S) == Children(n) \subseteq S /\ \A k \in S : Children(k) \subseteq S
    IN {m \in Node : \A S \in SUBSET Node : Closed(S) => m \in S}

Joint == [layers : SUBSET Layer, links : SUBSET Item]

\* Types, and the shape of the tree: the parent of a branch is there (unlinkParent(),
\* releaseChildren()), and what it overrides is in the root's index.
NodeTypeOK ==
    /\ parent \in [Node -> Live \cup {None}] /\ parent[Root] = None
    /\ index \in [Node -> SUBSET Item] /\ override \in [Node -> SUBSET index[Root]]
    /\ joints \in [Node -> [Pos -> SUBSET Joint]]
    /\ owner \in [Item -> Node \cup {None}]
    /\ holeOwner \in [Via -> Node \cup {Own, Gone}]
    /\ garbage \subseteq Item /\ allocated \subseteq Item
    /\ parentItem \in [Item -> BoardItem \cup {None}]
    /\ board \in [BoardItem -> Item \cup {None}]
    /\ commits \in 0..MaxCommits

-----------------------------------------------------------------------------
(* Joints.                                                                   *)

NoJoints == [p \in Pos |-> {}]

\* The joints that a node finds at a position: its own, or else the root's.
JointsAt(js, n, p) == IF js[n][p] = {} THEN js[Root][p] ELSE js[n][p]

\* touchJoint(): joints that overlap become one; link is what is linked to it.
Touched(here, layers, link) ==
    LET hit == {j \in here : j.layers \cap layers # {}}
    IN (here \ hit) \cup {[layers |-> layers \cup UNION {j.layers : j \in hit},
                           links |-> link \cup UNION {j.links : j \in hit}]}

\* linkJoint(), unlinkJoint() for the ends of an item.
LinkItem(js, n, i) ==
    [js EXCEPT ![n] = [p \in Pos |->
        IF p \in Ends[i] THEN Touched(JointsAt(js, n, p), Layers[i], {i}) ELSE @[p]]]
UnlinkItem(js, n, i) ==
    [js EXCEPT ![n] = [p \in Pos |->
        IF p \notin Ends[i] THEN @[p]
        ELSE {IF j.layers \cap Layers[i] = {} THEN j ELSE [j EXCEPT !.links = @ \ {i}] :
                j \in Touched(JointsAt(js, n, p), Layers[i], {})}]]

\* Mutant: what else is linked to the joint is not linked again.
RebuildWithoutLinks(js, n, v) ==
    [js EXCEPT ![n] = [p \in Pos |->
        IF p \in Ends[v] THEN {j \in JointsAt(js, n, p) : j.layers \cap Layers[v] = {}} ELSE @[p]]]

\* removeViaIndex(), rebuildJoint(): the node's joints that overlap the via are
\* deleted and what else was linked to it is linked again.
RebuildJoint(js, n, v) ==
    LET p == CHOOSE q \in Ends[v] : TRUE
        here == JointsAt(js, n, p)
        links == UNION {j.links : j \in {k \in here : Min(Layers[v]) \in k.layers}}
        split == [js EXCEPT ![n][p] = {j \in @ : j.layers \cap Layers[v] = {}}]
        relink(i, before) ==
            [before EXCEPT ![n][p] = Touched(JointsAt(before, n, p), Layers[i], {i})]
    IN FoldSet(relink, split, links \ {v})

RemoveFromJoints(js, n, i) == IF i \in Via THEN RebuildJoint(js, n, i) ELSE UnlinkItem(js, n, i)

\* Items that are added, and removed, one after the other.
LinkAll(js, n, items) == FoldSet(LAMBDA i, before : LinkItem(before, n, i), js, items)
RemoveAll(js, n, items) == FoldSet(LAMBDA i, before : RemoveFromJoints(before, n, i), js, items)

-----------------------------------------------------------------------------
InitNames == CHOOSE f \in [InitItems -> BoardItem] : IsInjective(f)

Init ==
    /\ parent = [n \in Node |-> None]
    /\ index = [n \in Node |-> IF n = Root THEN InitItems ELSE {}]
    /\ override = [n \in Node |-> {}]
    /\ joints = LinkAll([n \in Node |-> NoJoints], Root, InitItems)
    /\ owner = [i \in Item |-> IF i \in InitItems THEN Root ELSE None]
    /\ holeOwner = [v \in Via |-> IF v \in InitItems THEN Root ELSE Own]
    /\ garbage = {} /\ allocated = InitItems /\ commits = 0
    /\ parentItem = [i \in Item |-> IF i \in InitItems THEN InitNames[i] ELSE None]
    /\ board = [b \in BoardItem |->
                    IF b \in Range(InitNames) THEN CHOOSE i \in InitItems : InitNames[i] = b ELSE None]

-----------------------------------------------------------------------------
(* What a node contains, and finds.                                          *)

\* Queries look at the node's index and at the root's, but for what it overrides.
Contents(n) == index[n] \cup IF n = Root THEN {} ELSE index[Root] \ override[n]

Linked(n) == UNION {j.links : j \in UNION {JointsAt(joints, n, p) : p \in Pos}}
\* Items to remove come from queries, or from lines that follow the joints.
Reachable(n) == Contents(n) \cup Linked(n)

Twin(i, k) == {i, k} \subseteq Segment /\ Ends[i] = Ends[k] /\ Layers[i] = Layers[k]

\* findRedundantSegment(): one among the links of a joint of its start.
Redundant(n, i) ==
    \E p \in Ends[i] : \E j \in JointsAt(joints, n, p) :
        j.layers \cap Layers[i] # {} /\ \E k \in j.links : Twin(i, k)

\* The router changes nodes that nothing has been branched off from.
Changeable(n) == n \in Live \ {Root} /\ Children(n) = {}

\* Objects that can be created in a node.
MayCreate(n, new) ==
    /\ new \subseteq Item \ allocated
    /\ Cardinality(allocated) + Cardinality(new) <= MaxItems
    /\ Cardinality(override[n] \cup index[n]) + Cardinality(new) <= MaxChanges

-----------------------------------------------------------------------------
(* The operations of a node.                                                 *)

\* Mutant: the overrides are not copied.
BranchWithoutOverrides(n, m) ==
    /\ n \in Live /\ m \notin Live
    /\ parent' = [parent EXCEPT ![m] = n]
    /\ index' = [index EXCEPT ![m] = IF n = Root THEN {} ELSE index[n]]
    /\ joints' = [joints EXCEPT ![m] = IF n = Root THEN NoJoints ELSE joints[n]]
    /\ UNCHANGED <<override, owner, holeOwner, garbage, allocated, parentItem, board, commits>>

Branch(n, m) ==
    /\ n \in Live /\ m \notin Live
    /\ parent' = [parent EXCEPT ![m] = n]
    /\ index' = [index EXCEPT ![m] = IF n = Root THEN {} ELSE index[n]]
    /\ override' = [override EXCEPT ![m] = IF n = Root THEN {} ELSE override[n]]
    /\ joints' = [joints EXCEPT ![m] = IF n = Root THEN NoJoints ELSE joints[n]]
    /\ UNCHANGED <<owner, holeOwner, garbage, allocated, parentItem, board, commits>>

\* Add(): a redundant segment is refused.
Add(n, i) ==
    /\ Changeable(n) /\ MayCreate(n, {i}) /\ ~Redundant(n, i)
    /\ joints' = LinkItem(joints, n, i)
    /\ index' = [index EXCEPT ![n] = @ \cup {i}]
    /\ owner' = [owner EXCEPT ![i] = n]
    /\ holeOwner' = IF i \in Via THEN [holeOwner EXCEPT ![i] = n] ELSE holeOwner
    /\ allocated' = allocated \cup {i}
    /\ parentItem' = [parentItem EXCEPT ![i] = None]
    /\ UNCHANGED <<parent, override, garbage, board, commits>>

\* An item is removed: Remove( SEGMENT* ), Remove( VIA* ), or Remove( ITEM* ),
\* which gives a via's hole back to the via in any case.  New items, copies of
\* the old one that have its parent, take its place.
Exchange(n, old, new, asItem) ==
    LET mine == owner[old] = n
    IN /\ Changeable(n) /\ MayCreate(n, new) /\ old \in Reachable(n)
       /\ joints' = LinkAll(RemoveFromJoints(joints, n, old), n, new)
       /\ index' = [index EXCEPT ![n] = (@ \ {old}) \cup new]
       /\ override' = IF owner[old] = Root THEN [override EXCEPT ![n] = @ \cup {old}] ELSE override
       /\ owner' = [i \in Item |-> IF i \in new THEN n ELSE IF i = old /\ mine THEN None ELSE owner[i]]
       /\ holeOwner' = [v \in Via |->
                IF v \in new THEN n ELSE IF v = old /\ (mine \/ asItem) THEN Own ELSE holeOwner[v]]
       /\ garbage' = IF mine THEN garbage \cup {old} ELSE garbage
       /\ allocated' = allocated \cup new
       /\ parentItem' = [i \in Item |-> IF i \in new THEN parentItem[old] ELSE parentItem[i]]
       /\ UNCHANGED <<parent, board, commits>>

RemoveItem(n, i, asItem) == Exchange(n, i, {}, asItem)

\* Replace( ITEM* ), and the dragger's Remove( VIA* ) and Add(), of vias.
ReplaceVia(n, v, w, asItem) == Exchange(n, v, {w}, asItem)

\* SplitAdjacentSegments(): unless something is linked where it is to be split.
\* FindJoint() may find a joint of another position if there are only ones of
\* other layers here, and the segment is not split then.
SplitSegment(n, s, x, y) ==
    /\ <<s, x, y>> \in Halves
    /\ \A p \in Ends[x] \cap Ends[y] : \A j \in JointsAt(joints, n, p) :
            j.layers \cap Layers[s] # {} => j.links = {}
    /\ Exchange(n, s, {x, y}, FALSE)

-----------------------------------------------------------------------------
(* The end of nodes.                                                         *)

\* ~NODE() deletes the holes that belong to a node; what else belongs to it is
\* not referred to any more.
Destroyed(nodes, own, holes) ==
    /\ parent' = [n \in Node |-> IF n \in nodes THEN None ELSE parent[n]]
    /\ override' = [n \in Node |-> IF n \in nodes THEN {} ELSE override[n]]
    /\ owner' = [i \in Item |-> IF own[i] \in nodes THEN None ELSE own[i]]
    /\ holeOwner' = [v \in Via |-> IF holes[v] \in nodes THEN Gone ELSE holes[v]]

Lost(nodes, own) == {i \in allocated : own[i] \in nodes}
Freed(items, parents) ==
    /\ allocated' = allocated \ items
    /\ parentItem' = [i \in Item |-> IF i \in items THEN None ELSE parents[i]]

\* KillChildren(), and the placers' delete of a branch that has none.
Kill(nodes) ==
    /\ Destroyed(nodes, owner, holeOwner)
    /\ index' = [n \in Node |-> IF n \in nodes THEN {} ELSE index[n]]
    /\ joints' = [n \in Node |-> IF n \in nodes THEN NoJoints ELSE joints[n]]
    /\ Freed(Lost(nodes, owner), parentItem)
    /\ UNCHANGED <<garbage, board, commits>>

KillChildren(n) == n \in Live /\ Children(n) # {} /\ Kill(Below(n))

\* Mutant: a branch is deleted that another one is branched off from.
DeleteAnyBranch(n) == n \in Live \ {Root} /\ Kill({n})
DeleteBranch(n) == Changeable(n) /\ Kill({n})

\* NODE::Commit() of the root: the overridden items are removed from it and the
\* branch's are added, all branches are deleted, and then the garbage is.
CommitToRoot(n, parents) ==
    LET nodes == Live \ {Root}
        own == [i \in Item |-> IF i \in index[n] THEN Root ELSE IF i \in override[n] THEN None ELSE owner[i]]
        holes == [v \in Via |-> IF v \in index[n] THEN Root ELSE IF v \in override[n] THEN Own ELSE holeOwner[v]]
        linked == LinkAll(RemoveAll(joints, Root, override[n]), Root, index[n])
        released == {i \in garbage \cup override[n] : own[i] # Root}
    IN /\ Destroyed(nodes, own, holes)
       /\ index' = [m \in Node |-> IF m = Root THEN (index[Root] \ override[n]) \cup index[n] ELSE {}]
       /\ joints' = [m \in Node |-> IF m = Root THEN linked[Root] ELSE NoJoints]
       /\ garbage' = {}
       /\ Freed(released \cup Lost(nodes, own), parents)

\* Mutant: whatever is added succeeds what is removed.
AnySuccessors(n, i) == {k \in index[n] : parentItem[k] # None}

\* ROUTER::CommitRouting(): of two items of a parent, one removed and one added,
\* the added one changes the parent; what else is added gets a new one.
Successors(n, i) == {k \in index[n] : parentItem[k] # None /\ parentItem[k] = parentItem[i]}

CommitRouting(n, next) ==
    LET changed == {next[i] : i \in DOMAIN next}
        dropped == {parentItem[i] : i \in override[n] \ DOMAIN next}
        added == SetToSeq(index[n] \ changed)
        names == SetToSeq({b \in BoardItem : board[b] = None})
        named(i) == names[CHOOSE k \in DOMAIN added : added[k] = i]
    IN /\ Changeable(n) /\ commits < MaxCommits
       /\ DOMAIN next = {i \in override[n] : Successors(n, i) # {}}
       /\ \A i \in DOMAIN next : next[i] \in Successors(n, i)
       /\ Len(added) <= Len(names)
       /\ commits' = commits + 1
       /\ board' = [b \in BoardItem |->
                IF \E i \in changed : parentItem[i] = b THEN CHOOSE i \in changed : parentItem[i] = b
                ELSE IF \E i \in ToSet(added) : named(i) = b THEN CHOOSE i \in ToSet(added) : named(i) = b
                ELSE IF b \in dropped THEN None ELSE board[b]]
       /\ CommitToRoot(n, [i \in Item |-> IF i \in ToSet(added) THEN named(i) ELSE parentItem[i]])

-----------------------------------------------------------------------------
Next ==
    \/ \E n, m \in Node : Branch(n, m)
    \/ \E n \in Node : KillChildren(n) \/ DeleteBranch(n)
    \/ \E n \in Node, i \in Item :
        \/ Add(n, i)
        \/ RemoveItem(n, i, FALSE)
        \/ i \in Via /\ RemoveItem(n, i, TRUE)
    \/ \E n \in Node, v, w \in Via, asItem \in BOOLEAN : ReplaceVia(n, v, w, asItem)
    \/ \E n \in Node, h \in Halves : SplitSegment(n, h[1], h[2], h[3])
    \/ \E n \in Node : \E next \in UNION {[D -> index[n]] : D \in SUBSET override[n]} : CommitRouting(n, next)

Spec == Init /\ [][Next]_vars

-----------------------------------------------------------------------------
(* Properties.                                                               *)

\* Branches are worlds of their own: what happens in one changes the contents
\* of no other, neither of its parent nor of its siblings; a branch of a branch
\* begins with all of its parent's changes; committing makes the contents of the
\* branch those of the root (Branch(), doRemove(), Commit()).
World == INSTANCE RouterWorld WITH contents <- [n \in Live |-> Contents(n)]
ImplementsWorld == World!WSpec

\* Whatever is in a node is linked, at each of its ends, to a joint that spans
\* its layers; the joints at a position do not overlap; and they link nothing
\* but what is in the node or has been removed from it.  Joints are copied,
\* merged, split when a via goes and shared with the root until they are touched
\* (touchJoint(), rebuildJoint()).
JointsMatchItems ==
    \A n \in Live : \A p \in Pos :
        LET here == JointsAt(joints, n, p)
        IN /\ \A i \in Contents(n) : p \in Ends[i] => \E j \in here : i \in j.links /\ Layers[i] \subseteq j.layers
           /\ \A j, k \in here : j # k => j.layers \cap k.layers = {}
           /\ \A j \in here : j.links \subseteq Contents(n) \cup override[n]

\* The root and the board agree after each commit: items of the root and of the
\* board correspond one to one, whether they were changed, split in two, added
\* or removed (CommitRouting(), which matches removed and added items by parent).
BoardMatchesWorld ==
    /\ \A i \in index[Root] : parentItem[i] # None /\ board[parentItem[i]] = i
    /\ \A b \in BoardItem : board[b] # None => board[b] \in index[Root] /\ parentItem[board[b]] = b

\* No node refers to an item that has been deleted, as a member, an override or
\* a link of a joint, and no via that it has or overrides has lost its hole to
\* another node's destructor (~NODE(), releaseGarbage(), addVia(), Remove()).
NothingFreedIsUsed ==
    \A n \in Live :
        /\ index[n] \cup override[n] \cup Linked(n) \subseteq allocated
        /\ \A v \in Via \cap (Contents(n) \cup override[n]) : holeOwner[v] \in {Own, owner[v]}

\* What the router does not promise, although pns_joint.h:210 and pns_node.h:313
\* say so: a via that is removed from a branch takes its copy of the joint along,
\* and if nothing else is left there the root's joint, with everything that the
\* branch has removed, is what it finds.  A segment is then refused for one that
\* is not there.
LinkedItemsVisible == \A n \in Live : Linked(n) \subseteq Contents(n)
RefusedOnlyIfThere ==
    \A n \in Live : \A i \in Segment \ allocated : Redundant(n, i) => \E k \in Contents(n) : Twin(i, k)
==============================================================================
