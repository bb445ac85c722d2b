---------------------------- MODULE PnsNode_proofs ----------------------------
(***************************************************************************)
(* The router's tree of nodes, for boards, branches and layers of every     *)
(* number and shape: the types, the correspondence of the root with the     *)
(* board after every commit, the joints, the life of items and holes, and   *)
(* the refinement of RouterWorld.                                          *)
(*                                                                         *)
(* None of the invariants is inductive by itself.  What a commit makes of   *)
(* the board depends on what the branch has: NodeInv says of each branch    *)
(* that what it overrides is the root's, that what it has exists and is not *)
(* the root's, and that it has it from itself or from a node that it was    *)
(* branched off from, so that deleting nodes deletes nothing that others    *)
(* have.  What removing a via makes of the joints depends on which joint    *)
(* the via is linked to: JointsFollow says that nothing is linked to a      *)
(* joint of another position or of fewer layers than it has.  The joints    *)
(* that rebuildJoint() and Commit() make one item at a time are followed by *)
(* induction over the set of items, in the order in which the fold takes    *)
(* them (FoldedSets).                                                      *)
(***************************************************************************)
EXTENDS PnsNode, SequenceFacts

Closed(S) == \A k \in S : Children(k) \subseteq S

\* m is n, or has been branched off from n, or from a branch of it.
Under(n, m) == \A S \in SUBSET Node : n \in S /\ Closed(S) => m \in S

Types ==
    /\ parent \in [Node -> Node \cup {None}] /\ parent[Root] = None
    /\ index \in [Node -> SUBSET Item] /\ override \in [Node -> SUBSET Item]
    /\ owner \in [Item -> Node \cup {None}]
    /\ parentItem \in [Item -> BoardItem \cup {None}]
    /\ board \in [BoardItem -> Item \cup {None}]

RootOwns == \A i \in Item : owner[i] = Root <=> i \in index[Root]
ItemsExist == \A n \in Node : index[n] \subseteq allocated
OverridesInRoot ==
    \A n \in Node : override[n] \subseteq index[Root] /\ (parent[n] = None => override[n] = {})
OwnItems == \A n \in Node \ {Root} : index[n] \cap index[Root] = {}
OwnedAbove == \A n \in Node : \A i \in index[n] : owner[i] \in Node /\ Under(owner[i], n)

NodeInv == Types /\ RootOwns /\ ItemsExist /\ OverridesInRoot /\ OwnItems /\ OwnedAbove

-----------------------------------------------------------------------------
(* Above and below.                                                          *)

\* What KillChildren() deletes leaves the root and no branch of what is deleted.
LEMMA BelowIsClosed ==
    ASSUME Types, NEW n \in Node
    PROVE  Below(n) \subseteq Node \ {Root} /\ Closed(Below(n))
<1>1. Root \notin Below(n)
  <2> DEFINE S == Node \ {Root}
  <2>1. S \in SUBSET Node /\ Root \notin S
    OBVIOUS
  <2>2. \A k \in Node : Children(k) \subseteq S
    BY NodeAssumption DEF Types, Children
  <2> QED  BY <2>1, <2>2 DEF Below
<1>2. Closed(Below(n))
  BY DEF Closed, Below, Children
<1> QED  BY <1>1, <1>2 DEF Below

LEMMA BranchesLeave ==
    ASSUME Types, NEW n \in Node, NEW m \in Node, Under(n, m), NEW nodes \in SUBSET Node,
           Closed(nodes), n \in nodes
    PROVE  m \in nodes
  BY DEF Under

LEMMA NodeUnderItself == \A n : Under(n, n)
  BY DEF Under

-----------------------------------------------------------------------------
(* The tracks of the board.                                                  *)

LEMMA InitHolds == Init => NodeInv /\ BoardMatchesWorld
<1> SUFFICES ASSUME Init PROVE NodeInv /\ BoardMatchesWorld
  OBVIOUS
<1> USE NodeAssumption
<1>1. InitNames \in [InitItems -> BoardItem] /\ IsInjective(InitNames)
  BY DEF InitNames
<1>2. \A i \in InitItems : InitNames[i] \in Range(InitNames) /\ InitNames[i] \in BoardItem
  BY <1>1 DEF Range
<1>3. \A b \in Range(InitNames) : \E i \in InitItems : InitNames[i] = b
  BY <1>1 DEF Range
<1>4. \A i, k \in InitItems : InitNames[i] = InitNames[k] => i = k
  BY <1>1 DEF IsInjective
<1>5. index[Root] = InitItems /\ \A n \in Node \ {Root} : index[n] = {}
  BY DEF Init
<1>6. \A i \in InitItems : parentItem[i] = InitNames[i]
  BY DEF Init
<1>7. \A b \in Range(InitNames) \cap BoardItem : board[b] \in InitItems /\ InitNames[board[b]] = b
  <2> TAKE b \in Range(InitNames) \cap BoardItem
  <2>1. board[b] = CHOOSE i \in InitItems : InitNames[i] = b
    BY DEF Init
  <2> QED  BY <2>1, <1>3
<1>8. \A b \in BoardItem \ Range(InitNames) : board[b] = None
  BY DEF Init
<1>9. Types
  <2>1. board \in [BoardItem -> Item \cup {None}]
    <3> DEFINE first(b) ==
                 IF b \in Range(InitNames) THEN CHOOSE i \in InitItems : InitNames[i] = b ELSE None
    <3>1. board = [b \in BoardItem |-> first(b)]
      BY DEF Init
    <3>2. \A b \in BoardItem : first(b) \in Item \cup {None}
      BY <1>3
    <3> HIDE DEF first
    <3> QED  BY <3>1, <3>2
  <2>2. parentItem \in [Item -> BoardItem \cup {None}]
    BY <1>2 DEF Init
  <2> QED  BY <2>1, <2>2 DEF Init, Types
<1>10. RootOwns /\ ItemsExist /\ OverridesInRoot /\ OwnItems
  BY <1>5 DEF Init, RootOwns, ItemsExist, OverridesInRoot, OwnItems
<1>11. OwnedAbove
  BY <1>5, NodeUnderItself DEF Init, OwnedAbove
<1>12. \A i \in index[Root] : parentItem[i] # None /\ board[parentItem[i]] = i
  BY <1>2, <1>4, <1>5, <1>6, <1>7
<1>13. \A b \in BoardItem : board[b] # None => board[b] \in index[Root] /\ parentItem[board[b]] = b
  BY <1>5, <1>6, <1>7, <1>8
<1> QED  BY <1>9, <1>10, <1>11, <1>12, <1>13 DEF NodeInv, BoardMatchesWorld

-----------------------------------------------------------------------------
(* Steps that leave the root and the board alone.                            *)

\* Branch().
LEMMA BranchKeeps ==
    ASSUME NodeInv, BoardMatchesWorld, NEW n \in Node, NEW m \in Node, Branch(n, m)
    PROVE  (NodeInv /\ BoardMatchesWorld)'
<1> USE NodeAssumption
<1>1. n \in Live /\ m \notin Live /\ m # Root /\ n # m /\ parent[m] = None
  BY DEF Branch, Live
<1>2. parent' = [parent EXCEPT ![m] = n] /\ UNCHANGED <<owner, allocated, parentItem, board>>
  BY DEF Branch
<1>3. Types
  BY DEF NodeInv
<1>4. /\ index'[m] = (IF n = Root THEN {} ELSE index[n])
      /\ \A k \in Node \ {m} : index'[k] = index[k]
      /\ index' \in [Node -> SUBSET Item]
  BY <1>3 DEF Branch, Types
<1>5. /\ override'[m] = (IF n = Root THEN {} ELSE override[n])
      /\ \A k \in Node \ {m} : override'[k] = override[k]
      /\ override' \in [Node -> SUBSET Item]
  BY <1>3 DEF Branch, Types
<1>6. index'[Root] = index[Root]
  BY <1>1, <1>4
<1>7. \A k \in Node : Children(k) \subseteq Children(k)'
  BY <1>1, <1>2, <1>3 DEF Children, Types
<1>8. \A a, b \in Node : Under(a, b) => Under(a, b)'
  <2> SUFFICES ASSUME NEW a \in Node, NEW b \in Node, Under(a, b),
                      NEW S \in SUBSET Node, a \in S, Closed(S)'
               PROVE  b \in S
    BY DEF Under
  <2>1. Closed(S)
    BY <1>7 DEF Closed
  <2> QED  BY <2>1 DEF Under
<1>9. \A a \in Node : Under(a, n) => Under(a, m)'
  <2> SUFFICES ASSUME NEW a \in Node, Under(a, n), NEW S \in SUBSET Node, a \in S, Closed(S)'
               PROVE  m \in S
    BY DEF Under
  <2>1. Closed(S)
    BY <1>7 DEF Closed
  <2>2. n \in S
    BY <2>1 DEF Under
  <2>3. m \in Children(n)'
    BY <1>2, <1>3 DEF Children, Types
  <2> QED  BY <2>2, <2>3 DEF Closed
<1>10. Types'
  BY <1>1, <1>2, <1>3, <1>4, <1>5 DEF Types
<1>11. RootOwns' /\ ItemsExist' /\ OwnItems'
  BY <1>1, <1>2, <1>4, <1>6 DEF NodeInv, RootOwns, ItemsExist, OwnItems
<1>12. OverridesInRoot'
  BY <1>1, <1>2, <1>3, <1>5, <1>6 DEF NodeInv, OverridesInRoot, Types
<1>13. OwnedAbove'
  <2>1. \A k \in Node : \A i \in index[k] : owner[i] \in Node /\ Under(owner[i], k)
    BY DEF NodeInv, OwnedAbove
  <2>2. owner' = owner
    BY <1>2
  <2>3. \A k \in Node \ {m} : \A i \in index'[k] : owner[i] \in Node /\ Under(owner[i], k)'
    BY <2>1, <2>2, <1>4, <1>8
  <2>4. \A i \in index'[m] : owner[i] \in Node /\ Under(owner[i], m)'
    BY <2>1, <2>2, <1>4, <1>9
  <2>5. \A k \in Node : \A i \in index'[k] : owner'[i] \in Node /\ Under(owner[i], k)'
    BY <2>2, <2>3, <2>4
  <2> QED  BY <2>5 DEF OwnedAbove
<1>14. BoardMatchesWorld'
  BY <1>2, <1>6 DEF BoardMatchesWorld
<1> QED  BY <1>10, <1>11, <1>12, <1>13, <1>14 DEF NodeInv

\* Add(), Remove() and Replace(): items of a branch go and new ones come, and what
\* goes from the root is overridden.
ItemsChange(n, gone, new) ==
    /\ Changeable(n) /\ new \subseteq Item \ allocated
    /\ index' = [index EXCEPT ![n] = (@ \ gone) \cup new]
    /\ override' = [override EXCEPT ![n] = @ \cup {i \in gone : owner[i] = Root}]
    /\ owner' = [i \in Item |-> IF i \in new THEN n
                                ELSE IF i \in gone /\ owner[i] = n THEN None ELSE owner[i]]
    /\ allocated' = allocated \cup new
    /\ parentItem' \in [Item -> BoardItem \cup {None}]
    /\ \A i \in Item \ new : parentItem'[i] = parentItem[i]
    /\ UNCHANGED <<parent, board>>

LEMMA ChangeKeeps ==
    ASSUME NodeInv, BoardMatchesWorld, NEW n \in Node, NEW gone \in SUBSET Item, NEW new \in SUBSET Item,
           ItemsChange(n, gone, new)
    PROVE  (NodeInv /\ BoardMatchesWorld)'
<1> USE NodeAssumption
<1>1. Types /\ RootOwns /\ ItemsExist /\ OverridesInRoot /\ OwnItems /\ OwnedAbove
  BY DEF NodeInv
<1>2. n # Root /\ Children(n) = {} /\ parent[n] # None
  BY DEF ItemsChange, Changeable, Live
<1>3. /\ index'[n] = (index[n] \ gone) \cup new
      /\ \A m \in Node \ {n} : index'[m] = index[m]
      /\ index' \in [Node -> SUBSET Item]
  BY <1>1 DEF ItemsChange, Types
<1>4. /\ override'[n] = override[n] \cup {i \in gone : owner[i] = Root}
      /\ \A m \in Node \ {n} : override'[m] = override[m]
      /\ override' \in [Node -> SUBSET Item]
  BY <1>1 DEF ItemsChange, Types
<1>5. /\ owner' \in [Item -> Node \cup {None}]
      /\ \A i \in new : owner'[i] = n
      /\ \A i \in Item \ new : owner'[i] = IF i \in gone /\ owner[i] = n THEN None ELSE owner[i]
  BY <1>1 DEF ItemsChange, Types
<1>6. parent' = parent /\ board' = board /\ allocated' = allocated \cup new
  BY DEF ItemsChange
<1>7. \A m \in Node : index[m] \cap new = {}
  BY <1>1 DEF ItemsChange, ItemsExist
<1>8. index'[Root] = index[Root]
  BY <1>2, <1>3
<1>9. Types'
  BY <1>1, <1>3, <1>4, <1>5, <1>6 DEF Types, ItemsChange
<1>10. RootOwns'
  <2> SUFFICES ASSUME NEW i \in Item PROVE (owner'[i] = Root) <=> (i \in index'[Root])
    BY DEF RootOwns
  <2>1. CASE i \in new
    BY <2>1, <1>2, <1>5, <1>7, <1>8
  <2>2. CASE i \notin new
    BY <2>2, <1>1, <1>2, <1>5, <1>8 DEF RootOwns
  <2> QED  BY <2>1, <2>2
<1>11. ItemsExist'
  BY <1>1, <1>3, <1>6 DEF ItemsExist
<1>12. OverridesInRoot'
  <2>1. {i \in gone : owner[i] = Root} \subseteq index[Root]
    BY <1>1 DEF RootOwns
  <2> QED  BY <2>1, <1>1, <1>2, <1>4, <1>6, <1>8 DEF OverridesInRoot
<1>13. OwnItems'
  BY <1>1, <1>3, <1>7, <1>8 DEF OwnItems
<1>14. OwnedAbove'
  <2>1. \A a, b : Under(a, b)' <=> Under(a, b)
    BY <1>6 DEF Under, Closed, Children
  <2>2. \A m \in Node : Under(n, m) => m = n
    <3> SUFFICES ASSUME NEW m \in Node, Under(n, m) PROVE m = n
      OBVIOUS
    <3>1. Closed({n})
      BY <1>2 DEF Closed
    <3> QED  BY <3>1 DEF Under
  <2> SUFFICES ASSUME NEW m \in Node, NEW i \in index'[m]
               PROVE  owner'[i] \in Node /\ Under(owner'[i], m)
    BY <2>1 DEF OwnedAbove
  <2>3. CASE i \in new
    BY <2>3, <1>3, <1>5, <1>7, NodeUnderItself
  <2>4. CASE i \notin new
    <3>1. i \in index[m] /\ i \in Item
      BY <2>4, <1>1, <1>3 DEF Types
    <3>2. owner[i] \in Node /\ Under(owner[i], m)
      BY <3>1, <1>1 DEF OwnedAbove
    <3>3. owner'[i] = owner[i]
      <4>1. SUFFICES ASSUME i \in gone, owner[i] = n PROVE FALSE
        BY <2>4, <3>1, <1>5
      <4>2. m = n
        BY <4>1, <3>2, <2>2
      <4> QED  BY <4>1, <4>2, <1>3, <2>4
    <3> QED  BY <3>2, <3>3
  <2> QED  BY <2>3, <2>4
<1>15. BoardMatchesWorld'
  <2>1. \A i \in index[Root] : i \in Item \ new
    BY <1>1, <1>7 DEF Types
  <2>2. \A i \in index[Root] : parentItem'[i] = parentItem[i]
    BY <2>1 DEF ItemsChange
  <2> QED  BY <2>2, <1>6, <1>8 DEF BoardMatchesWorld
<1> QED  BY <1>9, <1>10, <1>11, <1>12, <1>13, <1>14, <1>15 DEF NodeInv

LEMMA AddKeeps ==
    ASSUME NodeInv, BoardMatchesWorld, NEW n \in Node, NEW i \in Item, Add(n, i)
    PROVE  (NodeInv /\ BoardMatchesWorld)'
<1>1. ItemsChange(n, {}, {i})
  <2>1. Types
    BY DEF NodeInv
  <2>2. index' = [index EXCEPT ![n] = (@ \ {}) \cup {i}]
    BY <2>1 DEF Add, Types
  <2>3. override' = [override EXCEPT ![n] = @ \cup {k \in {} : owner[k] = Root}]
    BY <2>1 DEF Add, Types
  <2>4. owner' = [k \in Item |-> IF k \in {i} THEN n
                                 ELSE IF k \in {} /\ owner[k] = n THEN None ELSE owner[k]]
    BY <2>1 DEF Add, Types
  <2>5. /\ parentItem' \in [Item -> BoardItem \cup {None}]
        /\ \A k \in Item \ {i} : parentItem'[k] = parentItem[k]
    BY <2>1 DEF Add, Types
  <2> QED  BY <2>2, <2>3, <2>4, <2>5 DEF Add, ItemsChange, MayCreate
<1> QED  BY <1>1, ChangeKeeps

LEMMA ExchangeKeeps ==
    ASSUME NodeInv, BoardMatchesWorld, NEW n \in Node, NEW old \in Item, NEW new \in SUBSET Item,
           NEW asItem \in BOOLEAN, Exchange(n, old, new, asItem)
    PROVE  (NodeInv /\ BoardMatchesWorld)'
<1>1. ItemsChange(n, {old}, new)
  <2>1. Types
    BY DEF NodeInv
  <2>2. index' = [index EXCEPT ![n] = (@ \ {old}) \cup new]
    BY DEF Exchange
  <2>3. override' = [override EXCEPT ![n] = @ \cup {k \in {old} : owner[k] = Root}]
    BY <2>1 DEF Exchange, Types
  <2>4. owner' = [k \in Item |-> IF k \in new THEN n
                                 ELSE IF k \in {old} /\ owner[k] = n THEN None ELSE owner[k]]
    BY <2>1 DEF Exchange, Types
  <2>5. /\ parentItem' \in [Item -> BoardItem \cup {None}]
        /\ \A k \in Item \ new : parentItem'[k] = parentItem[k]
    BY <2>1 DEF Exchange, Types
  <2> QED  BY <2>2, <2>3, <2>4, <2>5 DEF Exchange, ItemsChange, MayCreate
<1> QED  BY <1>1, ChangeKeeps

-----------------------------------------------------------------------------
(* The end of nodes.                                                         *)

LEMMA KillKeeps ==
    ASSUME NodeInv, BoardMatchesWorld, NEW nodes \in SUBSET (Node \ {Root}), Closed(nodes), Kill(nodes)
    PROVE  (NodeInv /\ BoardMatchesWorld)'
<1> USE NodeAssumption
<1>1. Types /\ RootOwns /\ ItemsExist /\ OverridesInRoot /\ OwnItems /\ OwnedAbove
  BY DEF NodeInv
<1>2. /\ parent' = [n \in Node |-> IF n \in nodes THEN None ELSE parent[n]]
      /\ override' = [n \in Node |-> IF n \in nodes THEN {} ELSE override[n]]
      /\ owner' = [i \in Item |-> IF owner[i] \in nodes THEN None ELSE owner[i]]
      /\ index' = [n \in Node |-> IF n \in nodes THEN {} ELSE index[n]]
      /\ board' = board
  BY DEF Kill, Destroyed
<1>3. /\ allocated' = allocated \ {i \in allocated : owner[i] \in nodes}
      /\ parentItem' = [i \in Item |-> IF i \in {k \in allocated : owner[k] \in nodes}
                                       THEN None ELSE parentItem[i]]
  BY DEF Kill, Freed, Lost
<1>4. index'[Root] = index[Root]
  BY <1>2
<1>5. \A m \in Node \ nodes : \A i \in index[m] : i \in Item /\ owner[i] \in Node \ nodes
  <2> TAKE m \in Node \ nodes
  <2> TAKE i \in index[m]
  <2>1. i \in Item /\ owner[i] \in Node /\ Under(owner[i], m)
    BY <1>1 DEF OwnedAbove, Types
  <2> QED  BY <2>1, <1>1, BranchesLeave
<1>6. Types'
  BY <1>1, <1>2, <1>3 DEF Types
<1>7. RootOwns'
  BY <1>1, <1>2, <1>4 DEF RootOwns, Types
<1>8. ItemsExist'
  BY <1>1, <1>2, <1>3, <1>5 DEF ItemsExist
<1>9. OverridesInRoot' /\ OwnItems'
  BY <1>1, <1>2, <1>4 DEF OverridesInRoot, OwnItems
<1>10. OwnedAbove'
  <2>1. \A k \in Node : Children(k) \subseteq Children(k)' \cup nodes
    BY <1>1, <1>2 DEF Children, Types
  <2>2. \A a \in Node, m \in Node \ nodes : Under(a, m) => Under(a, m)'
    <3> SUFFICES ASSUME NEW a \in Node, NEW m \in Node \ nodes, Under(a, m),
                        NEW S \in SUBSET Node, a \in S, Closed(S)'
                 PROVE  m \in S
      BY DEF Under
    <3>1. Closed(S \cup nodes)
      BY <2>1 DEF Closed
    <3>2. m \in S \cup nodes
      BY <3>1 DEF Under
    <3> QED  BY <3>2
  <2> SUFFICES ASSUME NEW m \in Node, NEW i \in index'[m]
               PROVE  owner'[i] \in Node /\ Under(owner[i], m)' /\ owner'[i] = owner[i]
    BY DEF OwnedAbove
  <2>3. m \notin nodes /\ i \in index[m] /\ i \in Item
    BY <1>1, <1>2 DEF Types
  <2>4. owner[i] \in Node \ nodes /\ Under(owner[i], m)
    BY <2>3, <1>1, <1>5 DEF OwnedAbove
  <2>5. owner'[i] = owner[i]
    BY <2>3, <2>4, <1>2
  <2> QED  BY <2>2, <2>3, <2>4, <2>5
<1>11. BoardMatchesWorld'
  <2>1. \A i \in index[Root] : i \in Item /\ owner[i] = Root
    BY <1>1 DEF RootOwns, Types
  <2>2. \A i \in index[Root] : parentItem'[i] = parentItem[i]
    BY <2>1, <1>3
  <2> QED  BY <2>2, <1>2, <1>4 DEF BoardMatchesWorld
<1> QED  BY <1>6, <1>7, <1>8, <1>9, <1>10, <1>11 DEF NodeInv

\* What NODE::Commit() does to what BoardMatchesWorld is about: the items of the
\* branch become the root's, and none of them is released.
LEMMA CommitLeavesRoot ==
    ASSUME NodeInv, NEW n \in Live \ {Root}, NEW parents \in [Item -> BoardItem \cup {None}],
           board' \in [BoardItem -> Item \cup {None}], CommitToRoot(n, parents)
    PROVE  /\ NodeInv'
           /\ index'[Root] = (index[Root] \ override[n]) \cup index[n]
           /\ \A i \in index'[Root] : parentItem'[i] = parents[i]
<1> USE NodeAssumption
<1> DEFINE nodes == Live \ {Root}
           own == [i \in Item |-> IF i \in index[n] THEN Root
                                  ELSE IF i \in override[n] THEN None ELSE owner[i]]
           root == (index[Root] \ override[n]) \cup index[n]
           lost == {i \in garbage \cup override[n] : own[i] # Root} \cup {i \in allocated : own[i] \in nodes}
<1>1. Types /\ RootOwns /\ ItemsExist /\ OverridesInRoot /\ OwnItems /\ OwnedAbove /\ n \in Node \ {Root}
  BY DEF NodeInv, Live
<1>2. /\ parent' = [m \in Node |-> IF m \in nodes THEN None ELSE parent[m]]
      /\ override' = [m \in Node |-> IF m \in nodes THEN {} ELSE override[m]]
      /\ owner' = [i \in Item |-> IF own[i] \in nodes THEN None ELSE own[i]]
      /\ index' = [m \in Node |-> IF m = Root THEN root ELSE {}]
      /\ allocated' = allocated \ lost
      /\ parentItem' = [i \in Item |-> IF i \in lost THEN None ELSE parents[i]]
  BY DEF CommitToRoot, Destroyed, Freed, Lost
<1>3. \A i \in Item : own[i] = Root <=> i \in root
  BY <1>1 DEF RootOwns, OverridesInRoot, Types
<1>4. root \subseteq Item /\ root \subseteq allocated
  BY <1>1 DEF ItemsExist, Types
<1>5. root \cap lost = {}
  BY <1>3, <1>4
<1>6. nodes \subseteq Node \ {Root} /\ \A m \in Node \ nodes : m = Root \/ parent[m] = None
  BY DEF Live
<1>7. own \in [Item -> Node \cup {None}]
  BY <1>1 DEF Types
<1>8. parent' \in [Node -> Node \cup {None}] /\ \A m \in Node : parent'[m] = None
  BY <1>1, <1>2, <1>6 DEF Types
<1> HIDE DEF nodes, own, root, lost
<1>9. index'[Root] = root /\ \A m \in Node \ {Root} : index'[m] = {}
  BY <1>2
<1>10. Types'
  BY <1>1, <1>2, <1>4, <1>6, <1>7, <1>8 DEF Types
<1>11. RootOwns' /\ ItemsExist' /\ OwnItems'
  BY <1>1, <1>2, <1>3, <1>4, <1>5, <1>6, <1>7, <1>9 DEF RootOwns, ItemsExist, OwnItems
<1>12. OverridesInRoot'
  <2>1. \A m \in Node : override'[m] = {}
    BY <1>1, <1>2, <1>6 DEF OverridesInRoot, Types
  <2> QED  BY <2>1 DEF OverridesInRoot
<1>13. OwnedAbove'
  <2>1. Under(Root, Root)'
    BY DEF Under
  <2>2. \A i \in index'[Root] : owner'[i] = Root
    BY <1>2, <1>3, <1>4, <1>6, <1>9
  <2> QED  BY <2>1, <2>2, <1>9 DEF OwnedAbove
<1>14. \A i \in index'[Root] : parentItem'[i] = parents[i]
  BY <1>2, <1>4, <1>5, <1>9
<1> QED  BY <1>9, <1>10, <1>11, <1>12, <1>13, <1>14 DEF NodeInv, root

-----------------------------------------------------------------------------
(* CommitRouting(): items that are replaced keep their item of the board,     *)
(* what is removed takes it along, what is added gets one that is free.      *)

LEMMA CommitKeeps ==
    ASSUME NodeInv, BoardMatchesWorld, NEW n \in Node, NEW next,
           next \in UNION {[D -> index[n]] : D \in SUBSET override[n]}, CommitRouting(n, next)
    PROVE  (NodeInv /\ BoardMatchesWorld)'
<1> USE NodeAssumption
<1> DEFINE changed == {next[i] : i \in DOMAIN next}
           dropped == {parentItem[i] : i \in override[n] \ DOMAIN next}
           added == SetToSeq(index[n] \ changed)
           free == {b \in BoardItem : board[b] = None}
           names == SetToSeq(free)
           named(i) == names[CHOOSE k \in DOMAIN added : added[k] = i]
           parents == [i \in Item |-> IF i \in ToSet(added) THEN named(i) ELSE parentItem[i]]
           look(b) == IF \E i \in changed : parentItem[i] = b THEN CHOOSE i \in changed : parentItem[i] = b
                      ELSE IF \E i \in ToSet(added) : named(i) = b THEN CHOOSE i \in ToSet(added) : named(i) = b
                      ELSE IF b \in dropped THEN None ELSE board[b]
           root == (index[Root] \ override[n]) \cup index[n]
<1>1. /\ n \in Live \ {Root} /\ Len(added) <= Len(names)
      /\ \A i \in DOMAIN next : next[i] \in Successors(n, i)
      /\ board' = [b \in BoardItem |-> look(b)]
      /\ CommitToRoot(n, parents)
  BY DEF CommitRouting, Changeable
<1>2. DOMAIN next \subseteq override[n] /\ \A i \in DOMAIN next : next[i] \in index[n]
  OBVIOUS
<1>3. Types /\ override[n] \subseteq index[Root] /\ index[n] \cap index[Root] = {}
  BY <1>1 DEF NodeInv, OverridesInRoot, OwnItems
<1>4. \A i \in index[Root] : i \in Item /\ parentItem[i] \in BoardItem /\ board[parentItem[i]] = i
  BY <1>3 DEF BoardMatchesWorld, Types
<1>5. \A i \in DOMAIN next : i \in index[Root] /\ parentItem[next[i]] = parentItem[i]
  BY <1>1, <1>2, <1>3 DEF Successors
<1>6. changed \subseteq index[n]
  BY <1>2
<1>7. \A i, k \in changed : parentItem[i] = parentItem[k] => i = k
  BY <1>4, <1>5
<1>8. \A i \in changed : \E k \in override[n] : k \in index[Root] /\ parentItem[i] = parentItem[k]
  BY <1>2, <1>5
\* The names of what is added are free, and no two get the same.
<1>9. /\ ToSet(added) = index[n] \ changed
      /\ \A i \in ToSet(added) : named(i) \in free
      /\ \A i, k \in ToSet(added) : named(i) = named(k) => i = k
  <2>1. IsFiniteSet(index[n] \ changed) /\ IsFiniteSet(free)
    BY <1>3, FS_Subset DEF Types
  <2>2. /\ Len(added) \in Nat /\ added \in [1 .. Len(added) -> index[n] \ changed]
        /\ ToSet(added) = index[n] \ changed
    BY <2>1, SetInOrder
  <2>3. /\ Len(names) \in Nat /\ names \in [1 .. Len(names) -> free] /\ IsInjective(names)
    BY <2>1, SetInOrder
  <2> HIDE DEF added, names, changed, free
  <2> DEFINE at(i) == CHOOSE k \in DOMAIN added : added[k] = i
  <2>4. \A i \in ToSet(added) : at(i) \in 1 .. Len(added) /\ added[at(i)] = i
    BY <2>2 DEF ToSet
  <2>5. \A i \in ToSet(added) : named(i) = names[at(i)]
    OBVIOUS
  <2>6. Len(added) <= Len(names) /\ DOMAIN names = 1 .. Len(names)
    BY <1>1, <2>3
  <2> HIDE DEF at, named
  <2>7. \A i \in ToSet(added) : named(i) = names[at(i)] /\ at(i) \in DOMAIN names
    BY <2>2, <2>3, <2>4, <2>5, <2>6
  <2>8. \A i \in ToSet(added) : named(i) \in free
    BY <2>3, <2>7
  <2>9. \A i, k \in ToSet(added) : named(i) = named(k) => i = k
    BY <2>3, <2>4, <2>7 DEF IsInjective
  <2> QED  BY <2>2, <2>8, <2>9
<1> HIDE DEF added, names, named
<1>10. parents \in [Item -> BoardItem \cup {None}]
  BY <1>3, <1>9 DEF Types
<1>11. \A i \in root : i \in Item
  BY <1>3, <1>4 DEF Types
<1>12. \A b \in BoardItem : look(b) \in Item \cup {None}
  BY <1>3, <1>6, <1>9 DEF Types
\* The root's items and the board's, as they are afterwards.
<1>13. \A i \in root : parents[i] \in BoardItem /\ look(parents[i]) = i
  <2> TAKE i \in root
  <2>1. CASE i \in changed
    <3>1. parents[i] = parentItem[i] /\ parentItem[i] \in BoardItem
      BY <2>1, <1>4, <1>8, <1>9, <1>11
    <3> QED  BY <2>1, <3>1, <1>7
  <2>2. CASE i \in ToSet(added)
    <3>1. parents[i] = named(i) /\ named(i) \in free
      BY <2>2, <1>9, <1>11
    <3>2. \A k \in changed : parentItem[k] # named(i)
      BY <3>1, <1>4, <1>8
    <3> QED  BY <2>2, <3>1, <3>2, <1>9
  <2>3. CASE i \in index[Root] \ override[n]
    <3>1. parents[i] = parentItem[i] /\ parentItem[i] \in BoardItem /\ board[parentItem[i]] = i
      BY <2>3, <1>3, <1>4, <1>9
    <3>2. \A k \in changed : parentItem[k] # parentItem[i]
      BY <2>3, <1>4, <1>8
    <3>3. \A k \in ToSet(added) : named(k) # parentItem[i]
      BY <2>3, <1>4, <1>9
    <3>4. parentItem[i] \notin dropped
      BY <2>3, <1>3, <1>4
    <3> QED  BY <3>1, <3>2, <3>3, <3>4
  <2> QED  BY <2>1, <2>2, <2>3, <1>9
<1>14. \A b \in BoardItem : look(b) # None => look(b) \in root /\ parents[look(b)] = b
  <2> TAKE b \in BoardItem
  <2>1. CASE \E i \in changed : parentItem[i] = b
    <3>1. look(b) \in changed /\ parentItem[look(b)] = b
      BY <2>1
    <3> QED  BY <3>1, <1>6, <1>9, <1>11
  <2>2. CASE /\ ~ \E i \in changed : parentItem[i] = b
             /\ \E i \in ToSet(added) : named(i) = b
    <3>1. look(b) \in ToSet(added) /\ named(look(b)) = b
      BY <2>2
    <3> QED  BY <3>1, <1>9, <1>11
  <2>3. CASE /\ ~ \E i \in changed : parentItem[i] = b
             /\ ~ \E i \in ToSet(added) : named(i) = b
    <3>1. SUFFICES ASSUME b \notin dropped, board[b] # None
                   PROVE  board[b] \in root /\ parents[board[b]] = b
      BY <2>3
    <3>2. board[b] \in index[Root] /\ parentItem[board[b]] = b
      BY <3>1 DEF BoardMatchesWorld
    <3>3. board[b] \notin override[n]
      <4>1. board[b] \in DOMAIN next => next[board[b]] \in changed /\ parentItem[next[board[b]]] = b
        BY <3>2, <1>5
      <4> QED  BY <4>1, <2>3, <3>1, <3>2
    <3> QED  BY <3>2, <3>3, <1>3, <1>4, <1>9
  <2> QED  BY <2>1, <2>2, <2>3
<1> HIDE DEF changed, dropped, free, parents, look
<1>15. board' \in [BoardItem -> Item \cup {None}] /\ \A b \in BoardItem : board'[b] = look(b)
  BY <1>1, <1>12
<1>16. /\ NodeInv' /\ index'[Root] = root
       /\ \A i \in index'[Root] : parentItem'[i] = parents[i]
  BY <1>1, <1>10, <1>15, CommitLeavesRoot
<1>17. \A i \in index'[Root] : parentItem'[i] # None /\ board'[parentItem'[i]] = i
  BY <1>13, <1>15, <1>16
<1>18. \A b \in BoardItem : board'[b] # None => board'[b] \in index'[Root] /\ parentItem'[board'[b]] = b
  BY <1>14, <1>15, <1>16
<1> QED  BY <1>16, <1>17, <1>18 DEF BoardMatchesWorld

-----------------------------------------------------------------------------
LEMMA NextKeeps == NodeInv /\ BoardMatchesWorld /\ [Next]_vars => (NodeInv /\ BoardMatchesWorld)'
<1> SUFFICES ASSUME NodeInv, BoardMatchesWorld, [Next]_vars
             PROVE  (NodeInv /\ BoardMatchesWorld)'
  OBVIOUS
<1> USE NodeAssumption
<1>1. ASSUME NEW n \in Node, NEW m \in Node, Branch(n, m)
      PROVE  (NodeInv /\ BoardMatchesWorld)'
  BY <1>1, BranchKeeps
<1>2. ASSUME NEW n \in Node, KillChildren(n)
      PROVE  (NodeInv /\ BoardMatchesWorld)'
  <2>1. Below(n) \subseteq Node \ {Root} /\ Closed(Below(n))
    BY BelowIsClosed DEF NodeInv
  <2> QED  BY <1>2, <2>1, KillKeeps DEF KillChildren
<1>3. ASSUME NEW n \in Node, DeleteBranch(n)
      PROVE  (NodeInv /\ BoardMatchesWorld)'
  <2>1. {n} \subseteq Node \ {Root} /\ Closed({n}) /\ Kill({n})
    BY <1>3 DEF DeleteBranch, Changeable, Closed
  <2> QED  BY <2>1, KillKeeps
<1>4. ASSUME NEW n \in Node, NEW i \in Item, Add(n, i)
      PROVE  (NodeInv /\ BoardMatchesWorld)'
  BY <1>4, AddKeeps
<1>5. ASSUME NEW n \in Node, NEW i \in Item, NEW asItem \in BOOLEAN, RemoveItem(n, i, asItem)
      PROVE  (NodeInv /\ BoardMatchesWorld)'
  BY <1>5, ExchangeKeeps DEF RemoveItem
<1>6. ASSUME NEW n \in Node, NEW v \in Via, NEW w \in Via, NEW asItem \in BOOLEAN,
             ReplaceVia(n, v, w, asItem)
      PROVE  (NodeInv /\ BoardMatchesWorld)'
  <2>1. v \in Item /\ {w} \in SUBSET Item /\ Exchange(n, v, {w}, asItem)
    BY <1>6 DEF ReplaceVia, Item
  <2> QED  BY <2>1, ExchangeKeeps
<1>7. ASSUME NEW n \in Node, NEW h \in Halves, SplitSegment(n, h[1], h[2], h[3])
      PROVE  (NodeInv /\ BoardMatchesWorld)'
  <2>1. h[1] \in Item /\ {h[2], h[3]} \in SUBSET Item
    BY DEF Item
  <2>2. Exchange(n, h[1], {h[2], h[3]}, FALSE)
    BY <1>7 DEF SplitSegment
  <2> QED  BY <2>1, <2>2, ExchangeKeeps
<1>8. ASSUME NEW n \in Node, NEW next \in UNION {[D -> index[n]] : D \in SUBSET override[n]},
             CommitRouting(n, next)
      PROVE  (NodeInv /\ BoardMatchesWorld)'
  BY <1>8, CommitKeeps
<1>9. CASE UNCHANGED vars
  BY <1>9 DEF vars, NodeInv, Types, RootOwns, ItemsExist, OverridesInRoot, OwnItems, OwnedAbove,
              Under, Closed, Children, BoardMatchesWorld
<1>10. ASSUME NEW n \in Node, NEW i \in Item,
              \/ Add(n, i)
              \/ RemoveItem(n, i, FALSE)
              \/ i \in Via /\ RemoveItem(n, i, TRUE)
       PROVE  (NodeInv /\ BoardMatchesWorld)'
  <2>1. CASE Add(n, i)
    BY <2>1, <1>4
  <2>2. CASE RemoveItem(n, i, FALSE)
    BY <2>2, <1>5
  <2>3. CASE RemoveItem(n, i, TRUE)
    BY <2>3, <1>5
  <2> QED  BY <1>10, <2>1, <2>2, <2>3
<1>11. CASE Next
  <2>1. CASE \E n, m \in Node : Branch(n, m)
    BY <2>1, <1>1
  <2>2. CASE \E n \in Node : KillChildren(n) \/ DeleteBranch(n)
    BY <2>2, <1>2, <1>3
  <2>3. CASE \E n \in Node, i \in Item :
              \/ Add(n, i)
              \/ RemoveItem(n, i, FALSE)
              \/ i \in Via /\ RemoveItem(n, i, TRUE)
    BY <2>3, <1>10
  <2>4. CASE \E n \in Node, h \in Halves : SplitSegment(n, h[1], h[2], h[3])
    BY <2>4, <1>7
  <2>5. CASE \E n \in Node : \E next \in UNION {[D -> index[n]] : D \in SUBSET override[n]} :
                CommitRouting(n, next)
    BY <2>5, <1>8
  <2>6. CASE \E n \in Node, v, w \in Via, asItem \in BOOLEAN : ReplaceVia(n, v, w, asItem)
    BY <2>6, <1>6
  <2> QED  BY <1>11, <2>1, <2>2, <2>3, <2>4, <2>5, <2>6 DEF Next
<1> QED  BY <1>9, <1>11

\* After every commit of the router, whatever was replaced, split, added or removed
\* in whatever branch, the items of the root and those of the board correspond one
\* to one (ROUTER::CommitRouting(), NODE::Commit()).
THEOREM BoardFollowsRouter == Spec => []BoardMatchesWorld
<1>1. Init => NodeInv /\ BoardMatchesWorld
  BY InitHolds
<1>2. NodeInv /\ BoardMatchesWorld /\ [Next]_vars => (NodeInv /\ BoardMatchesWorld)'
  BY NextKeeps
<1> QED  BY <1>1, <1>2, PTL DEF Spec

-----------------------------------------------------------------------------
(* Joints: what linking and unlinking an item does to them.                  *)

\* What JointsMatchItems says of the joints at a position, for a node that has the
\* items C and may have links to L: C is linked, no two joints overlap, and what is
\* linked ends here and is spanned.
Linking(here, K) == \A i \in K : \E j \in here : i \in j.links
Apart(here) == \A j, k \in here : j # k => j.layers \cap k.layers = {}
Spanning(here, p, L) ==
    \A j \in here : \A i \in j.links : i \in L /\ p \in Ends[i] /\ Layers[i] \subseteq j.layers
Fits(here, p, C, L) ==
    Linking(here, {i \in C : p \in Ends[i]}) /\ Apart(here) /\ Spanning(here, p, L)

JointsTyped(js) == js \in [Node -> [Pos -> SUBSET Joint]]
JointsFit(js, n, C, L) == \A p \in Pos : Fits(JointsAt(js, n, p), p, C, L)

\* The constants, item by item.
LEMMA Shapes ==
    ASSUME NEW i \in Item
    PROVE  /\ Ends[i] \in SUBSET Pos /\ Ends[i] # {}
           /\ Layers[i] \in SUBSET Nat /\ Layers[i] # {} /\ Layers[i] \in SUBSET Layer
           /\ i \in Via => \E p \in Pos : Ends[i] = {p}
  BY NodeAssumption DEF Layer

\* touchJoint(): the joints that overlap the layers, and the one that they become.
Hit(here, layers) == {j \in here : j.layers \cap layers # {}}
Merged(here, layers, link) ==
    [layers |-> layers \cup UNION {j.layers : j \in Hit(here, layers)},
     links |-> link \cup UNION {j.links : j \in Hit(here, layers)}]

Merging(here, layers, link, hit, one) ==
    /\ Touched(here, layers, link) = (here \ hit) \cup {one}
    /\ hit \in SUBSET here /\ one \in Joint
    /\ layers \subseteq one.layers /\ link \subseteq one.links
    /\ \A l \in one.layers : l \in layers \/ \E j \in hit : l \in j.layers
    /\ \A i \in one.links : i \in link \/ \E j \in hit : i \in j.links
    /\ \A j \in hit : j.layers \subseteq one.layers /\ j.links \subseteq one.links

LEMMA TouchedIs ==
    ASSUME NEW here \in SUBSET Joint, NEW layers \in SUBSET Layer, NEW link \in SUBSET Item
    PROVE  Merging(here, layers, link, Hit(here, layers), Merged(here, layers, link))
<1> DEFINE hit == Hit(here, layers)
           one == Merged(here, layers, link)
<1>1. Touched(here, layers, link) = (here \ hit) \cup {one}
  BY DEF Touched, Hit, Merged
<1>2. \A j \in here : j.layers \in SUBSET Layer /\ j.links \in SUBSET Item
  BY DEF Joint
<1>3. hit \in SUBSET here
  BY DEF Hit
<1>4. /\ one.layers = layers \cup UNION {j.layers : j \in hit}
      /\ one.links = link \cup UNION {j.links : j \in hit}
  BY DEF Merged
<1>5. one \in Joint
  BY <1>2, <1>3 DEF Joint, Merged
<1> HIDE DEF one, hit
<1>6. /\ layers \subseteq one.layers /\ link \subseteq one.links
      /\ \A l \in one.layers : l \in layers \/ \E j \in hit : l \in j.layers
      /\ \A i \in one.links : i \in link \/ \E j \in hit : i \in j.links
      /\ \A j \in hit : j.layers \subseteq one.layers /\ j.links \subseteq one.links
  BY <1>4
<1> QED  BY <1>1, <1>3, <1>5, <1>6 DEF Merging, one, hit

\* What becomes of joints, of their being apart, of what is linked and of what they span.
LEMMA TouchedTyped ==
    ASSUME NEW here \in SUBSET Joint, NEW layers \in SUBSET Layer, NEW link \in SUBSET Item
    PROVE  /\ Touched(here, layers, link) \in SUBSET Joint
           /\ \E j \in Touched(here, layers, link) : layers \subseteq j.layers /\ link \subseteq j.links
<1> DEFINE hit == Hit(here, layers)
           one == Merged(here, layers, link)
<1>1. Merging(here, layers, link, hit, one)
  BY TouchedIs
<1> HIDE DEF hit, one
<1>2. one \in Touched(here, layers, link) /\ Touched(here, layers, link) \in SUBSET Joint
  BY <1>1 DEF Merging
<1> QED  BY <1>1, <1>2 DEF Merging

LEMMA TouchedApart ==
    ASSUME NEW here \in SUBSET Joint, NEW layers \in SUBSET Layer, NEW link \in SUBSET Item, Apart(here)
    PROVE  Apart(Touched(here, layers, link))
<1> DEFINE hit == Hit(here, layers)
           one == Merged(here, layers, link)
<1>1. Merging(here, layers, link, hit, one)
  BY TouchedIs
<1> HIDE DEF hit, one
<1>2. \A j, k \in here : j # k => j.layers \cap k.layers = {}
  BY DEF Apart
<1>3. \A j \in here \ hit : j.layers \cap one.layers = {}
  <2>1. \A j \in here \ hit : j.layers \cap layers = {}
    BY DEF hit, Hit
  <2> QED  BY <1>1, <1>2, <2>1 DEF Merging
<1>4. \A j, k \in (here \ hit) \cup {one} : j # k => j.layers \cap k.layers = {}
  BY <1>2, <1>3
<1> QED  BY <1>1, <1>4 DEF Merging, Apart

LEMMA TouchedLinking ==
    ASSUME NEW here \in SUBSET Joint, NEW layers \in SUBSET Layer, NEW link \in SUBSET Item,
           NEW K, Linking(here, K)
    PROVE  Linking(Touched(here, layers, link), K \cup link)
<1> DEFINE hit == Hit(here, layers)
           one == Merged(here, layers, link)
<1>1. Merging(here, layers, link, hit, one)
  BY TouchedIs
<1> HIDE DEF hit, one
<1>2. \A i \in K : \E j \in here : i \in j.links
  BY DEF Linking
<1>3. \A i \in K \cup link : \E j \in (here \ hit) \cup {one} : i \in j.links
  BY <1>1, <1>2 DEF Merging
<1> QED  BY <1>1, <1>3 DEF Merging, Linking

LEMMA TouchedSpanning ==
    ASSUME NEW here \in SUBSET Joint, NEW layers \in SUBSET Layer, NEW link \in SUBSET Item,
           NEW p, NEW L, NEW M, Spanning(here, p, L), L \subseteq M,
           Spanning({[layers |-> layers, links |-> link]}, p, M)
    PROVE  Spanning(Touched(here, layers, link), p, M)
<1> DEFINE hit == Hit(here, layers)
           one == Merged(here, layers, link)
<1>1. Merging(here, layers, link, hit, one)
  BY TouchedIs
<1> HIDE DEF hit, one
<1>2. \A j \in here : \A i \in j.links : i \in L /\ p \in Ends[i] /\ Layers[i] \subseteq j.layers
  BY DEF Spanning
<1>3. \A j \in here : \A i \in j.links : i \in M /\ p \in Ends[i] /\ Layers[i] \subseteq j.layers
  BY <1>2
<1>4. \A i \in one.links : i \in M /\ p \in Ends[i] /\ Layers[i] \subseteq one.layers
  <2> TAKE i \in one.links
  <2>1. CASE i \in link
    <3>1. i \in M /\ p \in Ends[i] /\ Layers[i] \subseteq layers
      BY <2>1 DEF Spanning
    <3> QED  BY <1>1, <3>1 DEF Merging
  <2>2. CASE i \notin link
    BY <1>1, <1>3, <2>2 DEF Merging
  <2> QED  BY <2>1, <2>2
<1>5. \A j \in (here \ hit) \cup {one} : \A i \in j.links :
          i \in M /\ p \in Ends[i] /\ Layers[i] \subseteq j.layers
  BY <1>3, <1>4
<1> QED  BY <1>1, <1>5 DEF Merging, Spanning

\* The joints that a node finds are joints.
LEMMA FoundTyped ==
    ASSUME NEW js, JointsTyped(js), NEW n \in Node, NEW p \in Pos
    PROVE  JointsAt(js, n, p) \in SUBSET Joint
  BY NodeAssumption DEF JointsTyped, JointsAt

\* linkJoint() for the ends of an item.
LEMMA LinkFits ==
    ASSUME NEW js, JointsTyped(js), NEW n \in Node, NEW i \in Item
    PROVE  /\ JointsTyped(LinkItem(js, n, i))
           /\ \A m \in Node \ {n} : LinkItem(js, n, i)[m] = js[m]
           /\ \A C, L : JointsFit(js, n, C, L) => JointsFit(LinkItem(js, n, i), n, C \cup {i}, L \cup {i})
<1> DEFINE after == LinkItem(js, n, i)
           at(p) == Touched(JointsAt(js, n, p), Layers[i], {i})
<1>1. \A p \in Pos : at(p) \in SUBSET Joint /\ at(p) # {}
  BY Shapes, FoundTyped, TouchedTyped
<1>2. /\ after = [js EXCEPT ![n] = [p \in Pos |-> IF p \in Ends[i] THEN at(p) ELSE @[p]]]
  BY DEF LinkItem
<1> HIDE DEF at, after
<1>3. js[n] \in [Pos -> SUBSET Joint]
  BY DEF JointsTyped
<1>4. after[n] = [p \in Pos |-> IF p \in Ends[i] THEN at(p) ELSE js[n][p]]
  BY <1>2 DEF JointsTyped
<1>5. \A m \in Node \ {n} : after[m] = js[m]
  BY <1>2 DEF JointsTyped
<1>6. JointsTyped(after)
  BY <1>1, <1>2, <1>3 DEF JointsTyped
<1>7. ASSUME NEW C, NEW L, JointsFit(js, n, C, L), NEW p \in Pos
      PROVE  Fits(JointsAt(after, n, p), p, C \cup {i}, L \cup {i})
  <2>1. CASE p \notin Ends[i]
    <3>1. after[n][p] = js[n][p] /\ (n # Root => after[Root][p] = js[Root][p])
      BY <1>4, <1>5, <2>1, NodeAssumption
    <3>2. JointsAt(after, n, p) = JointsAt(js, n, p)
      BY <3>1 DEF JointsAt
    <3>3. {k \in C \cup {i} : p \in Ends[k]} = {k \in C : p \in Ends[k]}
      BY <2>1
    <3>4. Spanning(JointsAt(js, n, p), p, L \cup {i})
      BY <1>7 DEF JointsFit, Fits, Spanning
    <3> QED  BY <1>7, <3>2, <3>3, <3>4 DEF JointsFit, Fits
  <2>2. CASE p \in Ends[i]
    <3> DEFINE here == JointsAt(js, n, p)
    <3>1. JointsAt(after, n, p) = at(p)
      BY <1>1, <1>4, <2>2 DEF JointsAt
    <3>2. Fits(here, p, C, L) /\ here \in SUBSET Joint /\ Layers[i] \in SUBSET Layer
      BY <1>7, Shapes, FoundTyped DEF JointsFit
    <3>3. at(p) = Touched(here, Layers[i], {i})
      BY DEF at
    <3> HIDE DEF here
    <3>4. Apart(at(p)) /\ Linking(at(p), {k \in C : p \in Ends[k]} \cup {i})
      BY <3>2, <3>3, TouchedApart, TouchedLinking DEF Fits
    <3>5. Linking(at(p), {k \in C \cup {i} : p \in Ends[k]})
      BY <3>4 DEF Linking
    <3>6. Spanning(at(p), p, L \cup {i})
      <4> DEFINE M == L \cup {i}
      <4>1. Spanning(here, p, L) /\ L \subseteq M
        BY <3>2 DEF Fits
      <4>2. Spanning({[layers |-> Layers[i], links |-> {i}]}, p, M)
        BY <2>2 DEF Spanning
      <4> HIDE DEF M
      <4>3. ASSUME NEW found \in SUBSET Joint, NEW layers \in SUBSET Layer, NEW link \in SUBSET Item,
                   Spanning(found, p, L), Spanning({[layers |-> layers, links |-> link]}, p, M)
            PROVE  Spanning(Touched(found, layers, link), p, M)
        BY <4>1, <4>3, TouchedSpanning
      <4>4. Spanning(Touched(here, Layers[i], {i}), p, M)
        BY <3>2, <4>1, <4>2, <4>3
      <4> QED  BY <3>3, <4>4 DEF M
    <3> QED  BY <3>1, <3>4, <3>5, <3>6 DEF Fits
  <2> QED  BY <2>1, <2>2
<1> QED  BY <1>5, <1>6, <1>7 DEF JointsFit, after

\* unlinkJoint() for the ends of a segment.
LEMMA UnlinkFits ==
    ASSUME NEW js, JointsTyped(js), NEW n \in Node, NEW i \in Item
    PROVE  /\ JointsTyped(UnlinkItem(js, n, i))
           /\ \A m \in Node \ {n} : UnlinkItem(js, n, i)[m] = js[m]
           /\ \A C, L : JointsFit(js, n, C, L) => JointsFit(UnlinkItem(js, n, i), n, C \ {i}, L \ {i})
<1> DEFINE after == UnlinkItem(js, n, i)
           touched(p) == Touched(JointsAt(js, n, p), Layers[i], {})
           cut(j) == IF j.layers \cap Layers[i] = {} THEN j ELSE [j EXCEPT !.links = @ \ {i}]
           at(p) == {cut(j) : j \in touched(p)}
<1>1. \A p \in Pos : touched(p) \in SUBSET Joint /\ touched(p) # {}
  BY Shapes, FoundTyped, TouchedTyped
<1>2. \A j \in Joint : /\ cut(j) \in Joint /\ cut(j).layers = j.layers
                       /\ cut(j).links \subseteq j.links /\ j.links \ {i} \subseteq cut(j).links
                       /\ j.layers \cap Layers[i] # {} => i \notin cut(j).links
                       /\ j.layers \cap Layers[i] = {} => cut(j) = j
  BY DEF Joint
<1>3. after = [js EXCEPT ![n] = [p \in Pos |-> IF p \notin Ends[i] THEN @[p] ELSE at(p)]]
  BY DEF UnlinkItem
<1>4. \A p \in Pos : at(p) \in SUBSET Joint /\ at(p) # {}
  <2> HIDE DEF cut, touched
  <2> QED  BY <1>1, <1>2
<1> HIDE DEF cut, touched, at, after
<1>5. after[n] = [p \in Pos |-> IF p \notin Ends[i] THEN js[n][p] ELSE at(p)]
  BY <1>3 DEF JointsTyped
<1>6. \A m \in Node \ {n} : after[m] = js[m]
  BY <1>3 DEF JointsTyped
<1>7. JointsTyped(after)
  <2>1. js[n] \in [Pos -> SUBSET Joint]
    BY DEF JointsTyped
  <2> QED  BY <1>3, <1>4, <2>1 DEF JointsTyped
<1>8. ASSUME NEW C, NEW L, JointsFit(js, n, C, L), NEW p \in Pos
      PROVE  Fits(JointsAt(after, n, p), p, C \ {i}, L \ {i})
  <2> DEFINE here == JointsAt(js, n, p)
  <2>1. Fits(here, p, C, L) /\ here \in SUBSET Joint /\ Layers[i] \in SUBSET Layer /\ Layers[i] # {}
    BY <1>8, Shapes, FoundTyped DEF JointsFit
  <2>2. CASE p \notin Ends[i]
    <3>1. after[n][p] = js[n][p] /\ (n # Root => after[Root][p] = js[Root][p])
      BY <1>5, <1>6, <2>2, NodeAssumption
    <3>2. JointsAt(after, n, p) = here
      BY <3>1 DEF JointsAt
    <3>3. {k \in C \ {i} : p \in Ends[k]} = {k \in C : p \in Ends[k]}
      BY <2>2
    <3>4. Spanning(here, p, L \ {i})
      BY <2>1, <2>2 DEF Fits, Spanning
    <3> HIDE DEF here
    <3> QED  BY <2>1, <3>2, <3>3, <3>4 DEF Fits
  <2>3. CASE p \in Ends[i]
    <3>1. JointsAt(after, n, p) = at(p)
      BY <1>4, <1>5, <2>3 DEF JointsAt
    <3>2. touched(p) = Touched(here, Layers[i], {})
      BY DEF touched
    <3> HIDE DEF here
    <3>3. touched(p) \in SUBSET Joint /\ Apart(touched(p)) /\ Linking(touched(p), {k \in C : p \in Ends[k]})
      <4>1. {k \in C : p \in Ends[k]} \cup {} = {k \in C : p \in Ends[k]} /\ {} \in SUBSET Item
        OBVIOUS
      <4> QED  BY <1>1, <2>1, <3>2, <4>1, TouchedApart, TouchedLinking DEF Fits
    <3>4. Spanning(touched(p), p, L)
      <4>1. Spanning(here, p, L) /\ L \subseteq L /\ {} \in SUBSET Item
        BY <2>1 DEF Fits
      <4>2. Spanning({[layers |-> Layers[i], links |-> {}]}, p, L)
        BY DEF Spanning
      <4> QED  BY <2>1, <3>2, <4>1, <4>2, TouchedSpanning
    <3>5. at(p) = {cut(j) : j \in touched(p)}
      BY DEF at
    <3>6. Apart(at(p))
      BY <1>2, <3>3, <3>5 DEF Apart
    <3>7. Linking(at(p), {k \in C \ {i} : p \in Ends[k]})
      BY <1>2, <3>3, <3>5 DEF Linking
    <3>8. Spanning(at(p), p, L \ {i})
      <4> SUFFICES ASSUME NEW j \in touched(p), NEW k \in cut(j).links
                   PROVE  k \in L \ {i} /\ p \in Ends[k] /\ Layers[k] \subseteq cut(j).layers
        BY <3>5 DEF Spanning
      <4>1. j \in Joint /\ k \in j.links /\ cut(j).layers = j.layers
        BY <1>2, <3>3
      <4>2. k \in L /\ p \in Ends[k] /\ Layers[k] \subseteq j.layers
        BY <3>4, <4>1 DEF Spanning
      <4>3. k # i
        BY <1>2, <2>1, <4>1, <4>2
      <4> QED  BY <4>1, <4>2, <4>3
    <3> QED  BY <3>1, <3>6, <3>7, <3>8 DEF Fits
  <2> QED  BY <2>2, <2>3
<1> QED  BY <1>6, <1>7, <1>8 DEF JointsFit, after

-----------------------------------------------------------------------------
(* rebuildJoint().                                                           *)

\* Min() of the layers of a via, the layer at which rebuildJoint() looks for its joint.
LEMMA LeastNumber ==
    ASSUME NEW S \in SUBSET Nat, S # {}
    PROVE  Min(S) \in S /\ \A y \in S : Min(S) <= y
<1>1. \E x \in S : \A y \in S : x <= y
  <2> SUFFICES ASSUME \A x \in S : \E y \in S : ~(x <= y)
               PROVE  FALSE
    OBVIOUS
  <2> DEFINE N == {n \in Nat : \A x \in S : n <= x}
  <2>1. 0 \in N
    OBVIOUS
  <2>2. ASSUME NEW n \in N
        PROVE  n + 1 \in N
    <3>1. n \in Nat /\ \A x \in S : n <= x
      OBVIOUS
    <3>2. n \notin S
      BY <3>1
    <3>3. \A x \in S : x \in Nat /\ n <= x /\ x # n
      BY <3>1, <3>2
    <3>4. \A x \in S : n + 1 <= x
      BY <3>1, <3>3
    <3> QED  BY <3>1, <3>4
  <2>3. N = Nat
    <3>1. N \in SUBSET Nat
      OBVIOUS
    <3> HIDE DEF N
    <3> QED  BY <2>1, <2>2, <3>1, NatSets
  <2>4. PICK x \in S : TRUE
    OBVIOUS
  <2>5. x + 1 \in N /\ x \in Nat
    BY <2>3
  <2> QED  BY <2>5
<1> QED  BY <1>1 DEF Min

\* Fewer items that have to be linked, more that may be.
LEMMA FitsLess ==
    ASSUME NEW js, NEW n, NEW C, NEW L, JointsFit(js, n, C, L), NEW D, D \subseteq C, NEW M, L \subseteq M
    PROVE  JointsFit(js, n, D, M)
<1> SUFFICES ASSUME NEW p \in Pos
             PROVE  Fits(JointsAt(js, n, p), p, D, M)
  BY DEF JointsFit
<1> DEFINE here == JointsAt(js, n, p)
<1>1. Fits(here, p, C, L)
  BY DEF JointsFit
<1> HIDE DEF here
<1>2. Linking(here, {i \in D : p \in Ends[i]})
  BY <1>1 DEF Fits, Linking
<1>3. Spanning(here, p, M)
  BY <1>1 DEF Fits, Spanning
<1> QED  BY <1>1, <1>2, <1>3 DEF Fits, here

\* What is linked again at the position of a via that goes.
Relinked(before, n, p, i) ==
    [before EXCEPT ![n][p] = Touched(JointsAt(before, n, p), Layers[i], {i})]
Again(js, n, p, v) == (UNION {j.links : j \in {k \in JointsAt(js, n, p) : Min(Layers[v]) \in k.layers}}) \ {v}
Split(js, n, p, v) == [js EXCEPT ![n][p] = {j \in @ : j.layers \cap Layers[v] = {}}]

Relinks(js, n, p, v) ==
    CHOOSE F : F = [T \in SUBSET Again(js, n, p, v) |->
                        IF T = {} THEN Split(js, n, p, v)
                        ELSE Relinked(F[T \ {Pick(T)}], n, p, Pick(T))]

\* The position on the way: what has been linked there is K, and nothing else changes.
OnTheWay(js, n, p, M, K, after) ==
    /\ JointsTyped(after) /\ \A m \in Node \ {n} : after[m] = js[m]
    /\ \A q \in Pos \ {p} : after[n][q] = js[n][q]
    /\ Apart(JointsAt(after, n, p)) /\ Spanning(JointsAt(after, n, p), p, M)
    /\ Linking(JointsAt(after, n, p), K)

\* One more item is linked again.
LEMMA RelinkStep ==
    ASSUME NEW js, NEW n \in Node, NEW p \in Pos, NEW M, NEW K, NEW before, OnTheWay(js, n, p, M, K, before),
           NEW i \in Item, i \in M, p \in Ends[i]
    PROVE  OnTheWay(js, n, p, M, K \cup {i}, Relinked(before, n, p, i))
<1> DEFINE here == JointsAt(before, n, p)
           there == Touched(here, Layers[i], {i})
           after == Relinked(before, n, p, i)
<1>1. /\ JointsTyped(before) /\ here \in SUBSET Joint
      /\ Layers[i] \in SUBSET Layer /\ {i} \in SUBSET Item
  BY Shapes, FoundTyped DEF OnTheWay
<1>2. there \in SUBSET Joint /\ there # {}
  BY <1>1, TouchedTyped
<1>3. after = [before EXCEPT ![n][p] = there]
  BY DEF Relinked
<1>4. before \in [Node -> [Pos -> SUBSET Joint]]
  BY <1>1 DEF JointsTyped
<1> HIDE DEF there, after, here
<1>5. /\ after \in [Node -> [Pos -> SUBSET Joint]] /\ after[n][p] = there
      /\ \A m \in Node \ {n} : after[m] = before[m]
      /\ \A q \in Pos \ {p} : after[n][q] = before[n][q]
  BY <1>2, <1>3, <1>4
<1>6. JointsAt(after, n, p) = there
  BY <1>2, <1>5 DEF JointsAt
<1>7. Apart(here) /\ Spanning(here, p, M) /\ Linking(here, K)
  BY DEF OnTheWay, here
<1>8. Apart(there) /\ Linking(there, K \cup {i})
  BY <1>1, <1>7, TouchedApart, TouchedLinking DEF there
<1>9. Spanning(there, p, M)
  <2>1. Spanning({[layers |-> Layers[i], links |-> {i}]}, p, M) /\ M \subseteq M
    BY DEF Spanning
  <2> QED  BY <1>1, <1>7, <2>1, TouchedSpanning DEF there
<1> QED  BY <1>5, <1>6, <1>8, <1>9 DEF OnTheWay, JointsTyped, after

\* Before anything is linked again.
LEMMA SplitStarts ==
    ASSUME NEW js, JointsTyped(js), NEW n \in Node, NEW v \in Via, NEW p \in Pos, Ends[v] = {p},
           NEW C, NEW L, NEW M, NEW R, JointsFit(js, n, C, L), JointsFit(js, Root, R, R),
           \E j \in JointsAt(js, n, p) : v \in j.links,
           L \ {v} \subseteq M, n # Root => R \subseteq M
    PROVE  /\ OnTheWay(js, n, p, M, {i \in C : p \in Ends[i]} \ (Again(js, n, p, v) \cup {v}),
                       Split(js, n, p, v))
           /\ \A i \in Again(js, n, p, v) : i \in Item /\ i \in M /\ p \in Ends[i]
<1> DEFINE here == JointsAt(js, n, p)
           after == Split(js, n, p, v)
           left == {j \in js[n][p] : j.layers \cap Layers[v] = {}}
           K == {i \in C : p \in Ends[i]}
           again == Again(js, n, p, v)
<1>1. js \in [Node -> [Pos -> SUBSET Joint]] /\ here \in SUBSET Joint
  BY FoundTyped DEF JointsTyped
<1>2. /\ after \in [Node -> [Pos -> SUBSET Joint]] /\ after[n][p] = left
      /\ \A m \in Node \ {n} : after[m] = js[m]
      /\ \A q \in Pos \ {p} : after[n][q] = js[n][q]
  BY <1>1 DEF Split
<1>3. v \in Item /\ Layers[v] \in SUBSET Nat /\ Layers[v] # {} /\ Layers[v] \in SUBSET Layer
  BY Shapes DEF Item
<1>4. Min(Layers[v]) \in Layers[v]
  BY <1>3, LeastNumber
<1>5. Linking(here, K) /\ Apart(here) /\ Spanning(here, p, L)
  BY DEF JointsFit, Fits
<1>6. Root \in Node
  BY NodeAssumption
<1>7. n # Root => Apart(js[Root][p]) /\ Spanning(js[Root][p], p, M)
  <2> HAVE n # Root
  <2>1. JointsAt(js, Root, p) = js[Root][p]
    BY DEF JointsAt
  <2>2. Fits(js[Root][p], p, R, R)
    BY <2>1 DEF JointsFit
  <2> QED  BY <2>2 DEF Fits, Spanning
<1>8. PICK k \in here : v \in k.links
  OBVIOUS
<1>9. Layers[v] \subseteq k.layers
  BY <1>5, <1>8 DEF Spanning
<1>10. \A j \in here : j # k => j.layers \cap Layers[v] = {}
  BY <1>5, <1>8, <1>9 DEF Apart
<1>11. again = k.links \ {v}
  <2> DEFINE low == Min(Layers[v])
  <2> HIDE DEF low
  <2>1. low \in Layers[v]
    BY <1>4 DEF low
  <2>2. {j \in here : low \in j.layers} = {k}
    BY <1>8, <1>9, <1>10, <2>1
  <2>3. again = (UNION {j.links : j \in {j \in here : low \in j.layers}}) \ {v}
    BY DEF Again, low
  <2> HIDE DEF here, again
  <2> QED  BY <2>2, <2>3
<1>12. \A i \in again : i \in Item /\ i \in M /\ p \in Ends[i]
  <2>1. k.links \in SUBSET Item
    BY <1>1, <1>8 DEF Joint
  <2> QED  BY <1>5, <1>8, <1>11, <2>1 DEF Spanning
<1> DEFINE there == JointsAt(after, n, p)
<1>13. there = IF left = {} THEN (IF n = Root THEN {} ELSE js[Root][p]) ELSE left
  BY <1>2, <1>6 DEF JointsAt
<1>14. here = IF js[n][p] = {} THEN js[Root][p] ELSE js[n][p]
  BY DEF JointsAt
<1> HIDE DEF here, after, left, K, again, there
<1>15. left \subseteq here /\ \A j \in left : j.layers \cap Layers[v] = {}
  BY <1>14 DEF left
<1>16. Apart(there)
  <2>1. Apart(left) /\ Apart({})
    BY <1>5, <1>15 DEF Apart
  <2> QED  BY <1>7, <1>13, <2>1
<1>17. Spanning(there, p, M)
  <2>1. Spanning(left, p, M)
    <3>1. \A j \in left : v \notin j.links
      BY <1>3, <1>5, <1>15 DEF Spanning
    <3> QED  BY <1>5, <1>15, <3>1 DEF Spanning
  <2>2. Spanning({}, p, M)
    BY DEF Spanning
  <2> QED  BY <1>7, <1>13, <2>1, <2>2
<1>18. Linking(there, K \ (again \cup {v}))
  <2> SUFFICES ASSUME NEW i \in K, i \notin again, i # v
               PROVE  \E j \in there : i \in j.links
    BY DEF Linking
  <2>1. PICK j \in here : i \in j.links
    BY <1>5 DEF Linking
  <2>2. j # k
    BY <1>11, <2>1
  <2>3. j.layers \cap Layers[v] = {}
    BY <1>10, <2>1, <2>2
  <2>4. CASE js[n][p] = {}
    <3>1. left = {} /\ here = js[Root][p]
      BY <1>14, <2>4 DEF left
    <3>2. n # Root
      BY <1>8, <1>14, <2>4
    <3> QED  BY <1>13, <2>1, <3>1, <3>2
  <2>5. CASE js[n][p] # {}
    <3>1. j \in left
      BY <1>14, <2>1, <2>3, <2>5 DEF left
    <3> QED  BY <1>13, <2>1, <3>1
  <2> QED  BY <2>4, <2>5
<1>19. OnTheWay(js, n, p, M, K \ (again \cup {v}), after)
  BY <1>2, <1>16, <1>17, <1>18 DEF OnTheWay, JointsTyped, there
<1> QED  BY <1>12, <1>19 DEF K, again, after


\* rebuildJoint(), link by link.
Rebuilding(js, n, p, v, S, F) ==
    /\ S \in SUBSET Item /\ IsFiniteSet(S)
    /\ RebuildJoint(js, n, v) = F[S] /\ JointsTyped(F[S])
    /\ F[{}] = Split(js, n, p, v)
    /\ \A T \in SUBSET S : T # {} => F[T] = Relinked(F[T \ {Pick(T)}], n, p, Pick(T))

LEMMA RebuildLinks ==
    ASSUME NEW js, JointsTyped(js), NEW n \in Node, NEW v \in Via, NEW p \in Pos, Ends[v] = {p}
    PROVE  Rebuilding(js, n, p, v, Again(js, n, p, v), Relinks(js, n, p, v))
<1> DEFINE after == RebuildJoint(js, n, v)
           Val == [Node -> [Pos -> SUBSET Joint]]
           S == Again(js, n, p, v)
           first == Split(js, n, p, v)
           g == [x \in S \X Val |-> Relinked(x[2], n, p, x[1])]
           body(F, T) == IF T = {} THEN first ELSE Relinked(F[T \ {Pick(T)}], n, p, Pick(T))
           F0 == Relinks(js, n, p, v)
<1>1. after = F0[S]
  <2>1. (CHOOSE q \in Ends[v] : TRUE) = p
    OBVIOUS
  <2> DEFINE q0 == CHOOSE q \in Ends[v] : TRUE
  <2>2. after = Relinks(js, n, q0, v)[Again(js, n, q0, v)]
    BY DEF RebuildJoint, FoldSet, MapThenFoldSet, Relinks, Relinked, Again, Split, Pick
  <2> HIDE DEF q0
  <2> QED  BY <2>1, <2>2 DEF q0
<1>2. S \in SUBSET Item
  <2>1. \A j \in JointsAt(js, n, p) : j.links \in SUBSET Item
    BY FoundTyped DEF Joint
  <2> QED  BY <2>1 DEF Again
<1>3. IsFiniteSet(S)
  BY <1>2, NodeAssumption, FS_Subset
<1>4. first \in Val
  BY DEF Split, JointsTyped
<1>5. StepOver(S, Val, g)
  <2>1. ASSUME NEW i \in S, NEW before \in Val
        PROVE  Relinked(before, n, p, i) \in Val
    <3>1. JointsAt(before, n, p) \in SUBSET Joint /\ Layers[i] \in SUBSET Layer /\ {i} \in SUBSET Item
      BY <1>2, Shapes, FoundTyped DEF JointsTyped
    <3>2. Touched(JointsAt(before, n, p), Layers[i], {i}) \in SUBSET Joint
      BY <3>1, TouchedTyped
    <3> QED  BY <3>2 DEF Relinked
  <2> HIDE DEF S, Val
  <2> QED  BY <2>1 DEF StepOver
<1> HIDE DEF S, first, after
<1>6. \A T \in SUBSET S : T # {} => Pick(T) \in S /\ T \ {Pick(T)} \in SUBSET S
  BY <1>3, PickOne
<1>7. F0 = [T \in SUBSET S |-> body(F0, T)] /\ F0 \in [SUBSET S -> Val]
  <2>1. PICK F : FoldOver(S, Val, first, g, F)
    <3> HIDE DEF Val, g
    <3> QED  BY <1>3, <1>4, <1>5, FoldExists
  <2>2. \A T \in SUBSET S : F[T] = body(F, T)
    BY <1>6, <2>1 DEF FoldOver
  <2>3. F = [T \in SUBSET S |-> body(F, T)]
    <3> HIDE DEF body
    <3> QED  BY <2>1, <2>2 DEF FoldOver
  <2>4. F0 = CHOOSE H : H = [T \in SUBSET S |-> body(H, T)]
    BY DEF Relinks, S, first
  <2> HIDE DEF body, F0
  <2>5. F0 = [T \in SUBSET S |-> body(F0, T)]
    BY <2>3, <2>4
  <2> DEFINE Good == {T \in SUBSET S : F0[T] \in Val}
  <2>6. SUBSET S \subseteq Good
    <3>1. {} \in Good
      <4>1. F0[{}] = body(F0, {})
        BY <2>5
      <4> HIDE DEF Val
      <4> QED  BY <1>4, <4>1 DEF body
    <3>2. ASSUME NEW T \in SUBSET S, T # {}, T \ {Pick(T)} \in Good
          PROVE  T \in Good
      <4>1. F0[T] = body(F0, T)
        BY <2>5
      <4>2. body(F0, T) = Relinked(F0[T \ {Pick(T)}], n, p, Pick(T))
        BY <3>2 DEF body
      <4>3. Pick(T) \in S /\ F0[T \ {Pick(T)}] \in Val
        BY <1>6, <3>2
      <4>4. g[<<Pick(T), F0[T \ {Pick(T)}]>>] = Relinked(F0[T \ {Pick(T)}], n, p, Pick(T))
        BY <4>3
      <4> HIDE DEF Val, g
      <4> QED  BY <1>5, <4>1, <4>2, <4>3, <4>4 DEF StepOver
    <3> HIDE DEF Good
    <3> QED  BY <1>3, <3>1, <3>2, FoldedSets
  <2>7. \A T \in SUBSET S : F0[T] \in Val
    BY <2>6
  <2> HIDE DEF Val
  <2>8. F0 \in [SUBSET S -> Val]
    BY <2>5, <2>7
  <2> QED  BY <2>5, <2>8
<1> HIDE DEF F0
<1>8. /\ F0[{}] = first
      /\ \A T \in SUBSET S : T # {} => F0[T] = Relinked(F0[T \ {Pick(T)}], n, p, Pick(T))
  BY <1>7
<1>9. JointsTyped(F0[S])
  BY <1>7 DEF JointsTyped
<1> QED  BY <1>1, <1>2, <1>3, <1>8, <1>9 DEF Rebuilding, F0, S, first, after

LEMMA RebuildTyped ==
    ASSUME NEW js, JointsTyped(js), NEW n \in Node, NEW v \in Via
    PROVE  JointsTyped(RebuildJoint(js, n, v))
<1>1. PICK p \in Pos : Ends[v] = {p}
  BY Shapes DEF Item
<1> QED  BY <1>1, RebuildLinks DEF Rebuilding

\* rebuildJoint().
LEMMA RebuildFits ==
    ASSUME NEW js, JointsTyped(js), NEW n \in Node, NEW v \in Via,
           NEW C, NEW L, NEW M, NEW R, JointsFit(js, n, C, L), JointsFit(js, Root, R, R),
           \E p \in Ends[v] : \E j \in JointsAt(js, n, p) : v \in j.links,
           L \ {v} \subseteq M, n # Root => R \subseteq M
    PROVE  /\ JointsTyped(RebuildJoint(js, n, v))
           /\ \A m \in Node \ {n} : RebuildJoint(js, n, v)[m] = js[m]
           /\ JointsFit(RebuildJoint(js, n, v), n, C \ {v}, M)
<1> DEFINE after == RebuildJoint(js, n, v)
<1>1. PICK p \in Pos : Ends[v] = {p}
  BY Shapes DEF Item
<1> DEFINE K == {i \in C : p \in Ends[i]}
           S == Again(js, n, p, v)
           K0 == K \ (S \cup {v})
           first == Split(js, n, p, v)
           F0 == Relinks(js, n, p, v)
<1>2. Rebuilding(js, n, p, v, S, F0)
  BY <1>1, RebuildLinks
<1>3. /\ S \in SUBSET Item /\ IsFiniteSet(S) /\ after = F0[S] /\ F0[{}] = first
      /\ \A T \in SUBSET S : T # {} => F0[T] = Relinked(F0[T \ {Pick(T)}], n, p, Pick(T))
  BY <1>2, Zenon DEF Rebuilding
<1>4. /\ OnTheWay(js, n, p, M, K0, first)
      /\ \A i \in S : i \in Item /\ i \in M /\ p \in Ends[i]
  BY <1>1, SplitStarts
<1> HIDE DEF K, S, K0, first, after, F0
<1> DEFINE Good == {T \in SUBSET S : OnTheWay(js, n, p, M, K0 \cup T, F0[T])}
<1>5. SUBSET S \subseteq Good
  <2>1. {} \in Good
    <3>1. F0[{}] = first /\ K0 \cup {} = K0
      BY <1>3
    <3> QED  BY <1>4, <3>1
  <2>2. ASSUME NEW T \in SUBSET S, T # {}, T \ {Pick(T)} \in Good
        PROVE  T \in Good
    <3> DEFINE i == Pick(T)
               U == T \ {i}
               before == F0[U]
    <3>1. F0[T] = Relinked(before, n, p, i)
      BY <1>3, <2>2
    <3>2. i \in T
      BY <1>3, <2>2, PickOne
    <3>3. OnTheWay(js, n, p, M, K0 \cup U, before)
      BY <2>2
    <3> HIDE DEF i, before
    <3>4. i \in S /\ K0 \cup T = (K0 \cup U) \cup {i}
      BY <3>2
    <3>5. i \in Item /\ i \in M /\ p \in Ends[i]
      BY <1>4, <3>4
    <3> DEFINE KU == K0 \cup U
    <3> HIDE DEF KU
    <3>6. OnTheWay(js, n, p, M, KU \cup {i}, Relinked(before, n, p, i))
      BY <3>3, <3>5, RelinkStep DEF KU
    <3> QED  BY <3>1, <3>4, <3>6 DEF KU
  <2> HIDE DEF Good
  <2> QED  BY <1>3, <2>1, <2>2, FoldedSets
<1>6. OnTheWay(js, n, p, M, K0 \cup S, after)
  BY <1>3, <1>5
<1>7. K \ {v} \subseteq K0 \cup S
  BY DEF K0
<1>8. ASSUME NEW q \in Pos
       PROVE  Fits(JointsAt(after, n, q), q, C \ {v}, M)
  <2>1. CASE q = p
    <3>1. Linking(JointsAt(after, n, p), K \ {v})
      BY <1>6, <1>7 DEF OnTheWay, Linking
    <3>2. {i \in C \ {v} : p \in Ends[i]} = K \ {v}
      BY DEF K
    <3> QED  BY <1>6, <2>1, <3>1, <3>2 DEF OnTheWay, Fits
  <2>2. CASE q # p
    <3> DEFINE here == JointsAt(js, n, q)
    <3>1. after[n][q] = js[n][q] /\ (n # Root => after[Root] = js[Root])
      BY <1>6, <2>2, NodeAssumption DEF OnTheWay
    <3>2. JointsAt(after, n, q) = here
      BY <3>1 DEF JointsAt
    <3>3. Fits(here, q, C, L)
      BY DEF JointsFit
    <3> HIDE DEF here
    <3>4. Linking(here, {i \in C \ {v} : q \in Ends[i]})
      BY <3>3 DEF Fits, Linking
    <3>5. Spanning(here, q, M)
      BY <1>1, <2>2, <3>3 DEF Fits, Spanning
    <3> QED  BY <3>2, <3>3, <3>4, <3>5 DEF Fits
  <2> QED  BY <2>1, <2>2
<1> QED  BY <1>6, <1>8 DEF OnTheWay, JointsFit, after

-----------------------------------------------------------------------------
(* One item after the other.                                                 *)

\* removeSegmentIndex(), removeViaIndex().
LEMMA RemoveTyped ==
    ASSUME NEW js, JointsTyped(js), NEW n \in Node, NEW i \in Item
    PROVE  JointsTyped(RemoveFromJoints(js, n, i))
  BY UnlinkFits, RebuildTyped DEF RemoveFromJoints

\* The item that is removed is linked where it ends.
LEMMA RemoveFits ==
    ASSUME NEW js, JointsTyped(js), NEW n \in Node, NEW i \in Item,
           NEW C, NEW L, NEW M, NEW R, JointsFit(js, n, C, L), JointsFit(js, Root, R, R),
           \E p \in Ends[i] : \E j \in JointsAt(js, n, p) : i \in j.links,
           L \ {i} \subseteq M, n # Root => R \subseteq M
    PROVE  /\ JointsTyped(RemoveFromJoints(js, n, i))
           /\ \A m \in Node \ {n} : RemoveFromJoints(js, n, i)[m] = js[m]
           /\ JointsFit(RemoveFromJoints(js, n, i), n, C \ {i}, M)
<1>1. CASE i \in Via
  <2>1. RemoveFromJoints(js, n, i) = RebuildJoint(js, n, i)
    BY <1>1 DEF RemoveFromJoints
  <2>2. /\ JointsTyped(RebuildJoint(js, n, i))
        /\ \A m \in Node \ {n} : RebuildJoint(js, n, i)[m] = js[m]
        /\ JointsFit(RebuildJoint(js, n, i), n, C \ {i}, M)
    BY <1>1, RebuildFits, Zenon
  <2> QED  BY <2>1, <2>2
<1>2. CASE i \notin Via
  <2> DEFINE after == UnlinkItem(js, n, i)
             D == C \ {i}
             K == L \ {i}
  <2>1. RemoveFromJoints(js, n, i) = after
    BY <1>2 DEF RemoveFromJoints
  <2>2. /\ JointsTyped(after) /\ \A m \in Node \ {n} : after[m] = js[m]
        /\ JointsFit(after, n, D, K)
    BY UnlinkFits
  <2>3. D \subseteq D /\ K \subseteq M
    OBVIOUS
  <2> HIDE DEF after, D, K
  <2>4. JointsFit(after, n, D, M)
    BY <2>2, <2>3, FitsLess
  <2> QED  BY <2>1, <2>2, <2>4 DEF D
<1> QED  BY <1>1, <1>2

\* Add() of one item after the other.
Linkings(js, n, items) ==
    CHOOSE F : F = [T \in SUBSET items |->
                        IF T = {} THEN js ELSE LinkItem(F[T \ {Pick(T)}], n, Pick(T))]

LEMMA LinkAllFits ==
    ASSUME NEW js, JointsTyped(js), NEW n \in Node, NEW items \in SUBSET Item,
           NEW C, NEW L, JointsFit(js, n, C, L)
    PROVE  /\ JointsTyped(LinkAll(js, n, items))
           /\ \A m \in Node \ {n} : LinkAll(js, n, items)[m] = js[m]
           /\ JointsFit(LinkAll(js, n, items), n, C \cup items, L \cup items)
<1> DEFINE Val == [Node -> [Pos -> SUBSET Joint]]
           g == [x \in items \X Val |-> LinkItem(x[2], n, x[1])]
           body(F, T) == IF T = {} THEN js ELSE LinkItem(F[T \ {Pick(T)}], n, Pick(T))
           F0 == Linkings(js, n, items)
           after == LinkAll(js, n, items)
<1>1. after = F0[items]
  BY DEF LinkAll, FoldSet, MapThenFoldSet, Linkings, Pick
<1>2. IsFiniteSet(items) /\ js \in Val
  BY NodeAssumption, FS_Subset DEF JointsTyped
<1>3. StepOver(items, Val, g)
  <2>1. ASSUME NEW i \in items, NEW before \in Val
        PROVE  LinkItem(before, n, i) \in Val
    <3>1. JointsTyped(before) /\ i \in Item
      BY DEF JointsTyped
    <3> QED  BY <3>1, LinkFits DEF JointsTyped
  <2> HIDE DEF Val
  <2> QED  BY <2>1 DEF StepOver
<1>4. \A T \in SUBSET items : T # {} => Pick(T) \in T /\ Pick(T) \in items /\ T \ {Pick(T)} \in SUBSET items
  BY <1>2, PickOne
<1> HIDE DEF after
<1>5. F0 = [T \in SUBSET items |-> body(F0, T)]
  <2>1. PICK F : FoldOver(items, Val, js, g, F)
    <3> HIDE DEF Val, g
    <3> QED  BY <1>2, <1>3, FoldExists
  <2>2. \A T \in SUBSET items : F[T] = body(F, T)
    BY <1>4, <2>1 DEF FoldOver
  <2>3. F = [T \in SUBSET items |-> body(F, T)]
    <3> HIDE DEF body
    <3> QED  BY <2>1, <2>2 DEF FoldOver
  <2>4. F0 = CHOOSE H : H = [T \in SUBSET items |-> body(H, T)]
    BY DEF Linkings
  <2> HIDE DEF body, F0
  <2> QED  BY <2>3, <2>4
<1> HIDE DEF F0
<1>6. /\ F0[{}] = js
      /\ \A T \in SUBSET items : T # {} => F0[T] = LinkItem(F0[T \ {Pick(T)}], n, Pick(T))
  BY <1>5
<1> DEFINE Done(T) == /\ JointsTyped(F0[T]) /\ \A m \in Node \ {n} : F0[T][m] = js[m]
                      /\ JointsFit(F0[T], n, C \cup T, L \cup T)
           Good == {T \in SUBSET items : Done(T)}
<1>7. {} \in Good
  <2>1. C \cup {} = C /\ L \cup {} = L
    OBVIOUS
  <2> QED  BY <1>6, <2>1
<1>8. ASSUME NEW T \in SUBSET items, T # {}, T \ {Pick(T)} \in Good
      PROVE  T \in Good
  <2> DEFINE i == Pick(T)
             U == T \ {i}
             before == F0[U]
             D == C \cup U
             K == L \cup U
  <2>1. F0[T] = LinkItem(before, n, i) /\ i \in T /\ i \in Item
    BY <1>4, <1>6, <1>8
  <2>2. JointsTyped(before) /\ \A m \in Node \ {n} : before[m] = js[m]
    BY <1>8
  <2>3. JointsFit(before, n, D, K)
    BY <1>8
  <2> HIDE DEF i, before
  <2>4. C \cup T = D \cup {i} /\ L \cup T = K \cup {i}
    BY <2>1
  <2> HIDE DEF D, K
  <2>5. /\ JointsTyped(LinkItem(before, n, i))
        /\ \A m \in Node \ {n} : LinkItem(before, n, i)[m] = before[m]
        /\ JointsFit(LinkItem(before, n, i), n, D \cup {i}, K \cup {i})
    BY <2>1, <2>2, <2>3, LinkFits
  <2>6. Done(T)
    BY <2>1, <2>2, <2>4, <2>5
  <2> QED  BY <2>6
<1> HIDE DEF Done
<1>9. items \in Good
  <2> HIDE DEF Good
  <2> QED  BY <1>2, <1>7, <1>8, FoldedSets
<1>10. Done(items)
  BY <1>9
<1> QED  BY <1>1, <1>10 DEF Done, after

\* Remove() of one item of the root after the other.
Removals(js, n, items) ==
    CHOOSE F : F = [T \in SUBSET items |->
                        IF T = {} THEN js ELSE RemoveFromJoints(F[T \ {Pick(T)}], n, Pick(T))]

LEMMA RemoveAllFits ==
    ASSUME NEW js, JointsTyped(js), NEW C \in SUBSET Item, JointsFit(js, Root, C, C), NEW items \in SUBSET C
    PROVE  /\ JointsTyped(RemoveAll(js, Root, items))
           /\ JointsFit(RemoveAll(js, Root, items), Root, C \ items, C \ items)
<1> DEFINE Val == [Node -> [Pos -> SUBSET Joint]]
           g == [x \in items \X Val |-> RemoveFromJoints(x[2], Root, x[1])]
           body(F, T) == IF T = {} THEN js ELSE RemoveFromJoints(F[T \ {Pick(T)}], Root, Pick(T))
           F0 == Removals(js, Root, items)
           after == RemoveAll(js, Root, items)
<1>1. after = F0[items]
  BY DEF RemoveAll, FoldSet, MapThenFoldSet, Removals, Pick
<1>2. IsFiniteSet(items) /\ js \in Val /\ Root \in Node
  BY NodeAssumption, FS_Subset DEF JointsTyped
<1>3. StepOver(items, Val, g)
  <2>1. ASSUME NEW i \in items, NEW before \in Val
        PROVE  RemoveFromJoints(before, Root, i) \in Val
    <3>1. JointsTyped(before) /\ i \in Item
      BY DEF JointsTyped
    <3> QED  BY <1>2, <3>1, RemoveTyped DEF JointsTyped
  <2> HIDE DEF Val
  <2> QED  BY <2>1 DEF StepOver
<1>4. \A T \in SUBSET items : T # {} => Pick(T) \in T /\ Pick(T) \in items /\ T \ {Pick(T)} \in SUBSET items
  BY <1>2, PickOne
<1> HIDE DEF after
<1>5. F0 = [T \in SUBSET items |-> body(F0, T)]
  <2>1. PICK F : FoldOver(items, Val, js, g, F)
    <3> HIDE DEF Val, g
    <3> QED  BY <1>2, <1>3, FoldExists
  <2>2. \A T \in SUBSET items : F[T] = body(F, T)
    BY <1>4, <2>1 DEF FoldOver
  <2>3. F = [T \in SUBSET items |-> body(F, T)]
    <3> HIDE DEF body
    <3> QED  BY <2>1, <2>2 DEF FoldOver
  <2>4. F0 = CHOOSE H : H = [T \in SUBSET items |-> body(H, T)]
    BY DEF Removals
  <2> HIDE DEF body, F0
  <2> QED  BY <2>3, <2>4
<1> HIDE DEF F0
<1>6. /\ F0[{}] = js
      /\ \A T \in SUBSET items : T # {} => F0[T] = RemoveFromJoints(F0[T \ {Pick(T)}], Root, Pick(T))
  BY <1>5
<1> DEFINE Done(T) == JointsTyped(F0[T]) /\ JointsFit(F0[T], Root, C \ T, C \ T)
           Good == {T \in SUBSET items : Done(T)}
<1>7. {} \in Good
  <2>1. C \ {} = C
    OBVIOUS
  <2> QED  BY <1>6, <2>1
<1>8. ASSUME NEW T \in SUBSET items, T # {}, T \ {Pick(T)} \in Good
      PROVE  T \in Good
  <2> DEFINE i == Pick(T)
             U == T \ {i}
             before == F0[U]
             D == C \ U
  <2>1. F0[T] = RemoveFromJoints(before, Root, i) /\ i \in T /\ i \in Item
    BY <1>4, <1>6, <1>8
  <2>2. JointsTyped(before) /\ JointsFit(before, Root, D, D)
    BY <1>8
  <2> HIDE DEF i, before
  <2>3. C \ T = D \ {i} /\ i \in D
    BY <2>1
  <2> HIDE DEF D
  <2>4. \E p \in Ends[i] : \E j \in JointsAt(before, Root, p) : i \in j.links
    <3>1. PICK p \in Pos : p \in Ends[i]
      BY <2>1, Shapes
    <3>2. Fits(JointsAt(before, Root, p), p, D, D)
      BY <2>2 DEF JointsFit
    <3> QED  BY <2>3, <3>1, <3>2 DEF Fits, Linking
  <2> DEFINE E == D \ {i}
  <2>5. D \ {i} \subseteq E
    OBVIOUS
  <2> HIDE DEF E
  <2>6. /\ JointsTyped(RemoveFromJoints(before, Root, i))
        /\ JointsFit(RemoveFromJoints(before, Root, i), Root, D \ {i}, E)
    BY <1>2, <2>1, <2>2, <2>4, <2>5, RemoveFits
  <2>7. Done(T)
    BY <2>1, <2>3, <2>6 DEF E
  <2> QED  BY <2>7
<1> HIDE DEF Done
<1>9. items \in Good
  <2> HIDE DEF Good
  <2> QED  BY <1>2, <1>7, <1>8, FoldedSets
<1>10. Done(items)
  BY <1>9
<1> QED  BY <1>1, <1>10 DEF Done, after

-----------------------------------------------------------------------------
(* The joints of all nodes, step by step.                                    *)

\* What may be linked in a node: what it has, and what the root has.
Known(n) == index[n] \cup index[Root]
JointsFollow ==
    /\ JointsTyped(joints)
    /\ \A n \in Live : JointsFit(joints, n, Contents(n), Known(n))

\* The joints of a node that does not change.
LEMMA SameJoints ==
    ASSUME NEW js, NEW ks, NEW m, NEW n, NEW C, NEW L, JointsFit(js, m, C, L),
           \A p \in Pos : JointsAt(ks, n, p) = JointsAt(js, m, p)
    PROVE  JointsFit(ks, n, C, L)
  BY DEF JointsFit

\* The tracks of the board.
LEMMA InitJoints == Init => JointsFollow
<1> SUFFICES ASSUME Init PROVE JointsFollow
  OBVIOUS
<1> DEFINE js == [n \in Node |-> NoJoints]
<1>1. JointsTyped(js) /\ Root \in Node /\ InitItems \in SUBSET Item
  BY NodeAssumption DEF JointsTyped, NoJoints
<1>2. JointsFit(js, Root, {}, {})
  <2>1. \A p \in Pos : JointsAt(js, Root, p) = {}
    BY <1>1 DEF JointsAt, NoJoints
  <2>2. \A p \in Pos : Fits({}, p, {}, {})
    BY DEF Fits, Linking, Apart, Spanning
  <2> QED  BY <2>1, <2>2 DEF JointsFit
<1>3. joints = LinkAll(js, Root, InitItems)
  BY DEF Init
<1> HIDE DEF js
<1>4. JointsTyped(joints) /\ JointsFit(joints, Root, {} \cup InitItems, {} \cup InitItems)
  BY <1>1, <1>2, <1>3, LinkAllFits
<1>5. Live = {Root} /\ index[Root] = InitItems
  BY <1>1, NodeAssumption DEF Live, Init
<1>6. Contents(Root) = InitItems /\ Known(Root) = InitItems /\ {} \cup InitItems = InitItems
  BY <1>5 DEF Contents, Known
<1> QED  BY <1>4, <1>5, <1>6 DEF JointsFollow

\* A branch of the root finds the root's joints, another one copies its parent's.
LEMMA BranchJoints ==
    ASSUME NodeInv, JointsFollow, NEW n \in Node, NEW m \in Node, Branch(n, m)
    PROVE  JointsFollow'
<1> USE NodeAssumption
<1>1. Types /\ OverridesInRoot /\ JointsTyped(joints)
  BY DEF NodeInv, JointsFollow
<1>2. n \in Live /\ m \notin Live /\ m # Root /\ n # m /\ Live \subseteq Node
  BY DEF Branch, Live
<1>3. Live' \subseteq Live \cup {m}
  BY <1>1 DEF Branch, Live, Types
<1>4. /\ index'[m] = (IF n = Root THEN {} ELSE index[n])
      /\ override'[m] = (IF n = Root THEN {} ELSE override[n])
      /\ joints'[m] = (IF n = Root THEN NoJoints ELSE joints[n])
      /\ \A k \in Node \ {m} : index'[k] = index[k] /\ override'[k] = override[k] /\ joints'[k] = joints[k]
  BY <1>1 DEF Branch, Types, JointsTyped
<1>5. JointsTyped(joints)'
  <2>1. NoJoints \in [Pos -> SUBSET Joint]
    BY DEF NoJoints
  <2> QED  BY <1>1, <2>1 DEF Branch, JointsTyped
<1>6. ASSUME NEW k \in Live
      PROVE  JointsFit(joints', k, Contents(k)', Known(k)')
  <2>1. \A p \in Pos : JointsAt(joints', k, p) = JointsAt(joints, k, p)
    BY <1>2, <1>4 DEF JointsAt
  <2>2. Contents(k)' = Contents(k) /\ Known(k)' = Known(k)
    BY <1>2, <1>4 DEF Contents, Known
  <2>3. JointsFit(joints, k, Contents(k), Known(k))
    BY DEF JointsFollow
  <2> QED  BY <2>1, <2>2, <2>3, SameJoints
<1>7. JointsFit(joints', m, Contents(m)', Known(m)')
  <2>1. \A p \in Pos : JointsAt(joints', m, p) = JointsAt(joints, n, p)
    <3> TAKE p \in Pos
    <3>1. CASE n = Root
      BY <1>2, <1>4, <3>1 DEF JointsAt, NoJoints
    <3>2. CASE n # Root
      BY <1>2, <1>4, <3>2 DEF JointsAt
    <3> QED  BY <3>1, <3>2
  <2>2. Contents(m)' = Contents(n) /\ Known(m)' = Known(n)
    <3>1. override[Root] = {}
      BY <1>1 DEF OverridesInRoot, Types
    <3> QED  BY <1>2, <1>4, <3>1 DEF Contents, Known
  <2>3. JointsFit(joints, n, Contents(n), Known(n))
    BY <1>2 DEF JointsFollow
  <2> QED  BY <2>1, <2>2, <2>3, SameJoints
<1>8. \A k \in Live' : JointsFit(joints', k, Contents(k)', Known(k)')
  BY <1>3, <1>6, <1>7
<1> QED  BY <1>5, <1>8 DEF JointsFollow

\* KillChildren(), and the delete of a branch.
LEMMA KillJoints ==
    ASSUME NodeInv, JointsFollow, NEW nodes \in SUBSET (Node \ {Root}), Kill(nodes)
    PROVE  JointsFollow'
<1> USE NodeAssumption
<1>1. Types /\ JointsTyped(joints)
  BY DEF NodeInv, JointsFollow
<1>2. Live' \subseteq Live \ nodes /\ Live \subseteq Node
  BY <1>1 DEF Kill, Destroyed, Live, Types
<1>3. \A k \in Node \ nodes : index'[k] = index[k] /\ override'[k] = override[k] /\ joints'[k] = joints[k]
  BY <1>1 DEF Kill, Destroyed
<1>4. JointsTyped(joints)'
  <2>1. NoJoints \in [Pos -> SUBSET Joint]
    BY DEF NoJoints
  <2> QED  BY <1>1, <2>1 DEF Kill, JointsTyped
<1>5. ASSUME NEW k \in Live'
      PROVE  JointsFit(joints', k, Contents(k)', Known(k)')
  <2>1. \A p \in Pos : JointsAt(joints', k, p) = JointsAt(joints, k, p)
    BY <1>2, <1>3 DEF JointsAt
  <2>2. Contents(k)' = Contents(k) /\ Known(k)' = Known(k)
    BY <1>2, <1>3 DEF Contents, Known
  <2>3. JointsFit(joints, k, Contents(k), Known(k))
    BY <1>2 DEF JointsFollow
  <2> QED  BY <2>1, <2>2, <2>3, SameJoints
<1> QED  BY <1>4, <1>5 DEF JointsFollow

\* Changes of a branch leave the others' joints alone.
LEMMA ChangeJoints ==
    ASSUME NodeInv, JointsFollow, NEW n \in Node \ {Root}, parent' = parent,
           JointsTyped(joints'), \A m \in Node \ {n} : joints'[m] = joints[m],
           \A m \in Node \ {n} : index'[m] = index[m] /\ override'[m] = override[m],
           JointsFit(joints', n, Contents(n)', Known(n)')
    PROVE  JointsFollow'
<1> USE NodeAssumption
<1>1. ASSUME NEW k \in Live', k # n
      PROVE  JointsFit(joints', k, Contents(k)', Known(k)')
  <2>1. k \in Live /\ k \in Node
    BY DEF Live
  <2>2. \A p \in Pos : JointsAt(joints', k, p) = JointsAt(joints, k, p)
    BY <1>1, <2>1 DEF JointsAt
  <2>3. Contents(k)' = Contents(k) /\ Known(k)' = Known(k)
    BY <1>1, <2>1 DEF Contents, Known
  <2>4. JointsFit(joints, k, Contents(k), Known(k))
    BY <2>1 DEF JointsFollow
  <2> QED  BY <2>2, <2>3, <2>4, SameJoints
<1>2. JointsTyped(joints)'
  BY DEF JointsTyped
<1>3. \A k \in Live' : JointsFit(joints', k, Contents(k)', Known(k)')
  BY <1>1
<1> QED  BY <1>2, <1>3 DEF JointsFollow

\* Add().
LEMMA AddJoints ==
    ASSUME NodeInv, JointsFollow, NEW n \in Node, NEW i \in Item, Add(n, i)
    PROVE  JointsFollow'
<1>1. Types /\ n \in Live \ {Root} /\ Root \in Node /\ JointsTyped(joints)
  BY NodeAssumption DEF NodeInv, JointsFollow, Add, Changeable
<1>2. JointsFit(joints, n, Contents(n), Known(n))
  BY <1>1 DEF JointsFollow
<1>3. joints' = LinkItem(joints, n, i) /\ parent' = parent
  BY DEF Add
<1>4. /\ JointsTyped(joints') /\ \A m \in Node \ {n} : joints'[m] = joints[m]
      /\ JointsFit(joints', n, Contents(n) \cup {i}, Known(n) \cup {i})
  BY <1>1, <1>2, <1>3, LinkFits
<1>5. /\ index'[n] = index[n] \cup {i} /\ override'[n] = override[n]
      /\ \A m \in Node \ {n} : index'[m] = index[m] /\ override'[m] = override[m]
  BY <1>1 DEF Add, Types
<1>6. Contents(n)' = Contents(n) \cup {i} /\ Known(n)' = Known(n) \cup {i}
  BY <1>1, <1>5 DEF Contents, Known
<1>7. JointsFit(joints', n, Contents(n)', Known(n)')
  BY <1>4, <1>6
<1> QED  BY <1>1, <1>3, <1>4, <1>5, <1>7, ChangeJoints

\* An item that a line or a query finds is linked where it ends.
LEMMA ReachableLinked ==
    ASSUME JointsFollow, NEW n \in Live, NEW i \in Item, i \in Reachable(n)
    PROVE  \E p \in Ends[i] : \E j \in JointsAt(joints, n, p) : i \in j.links
<1>1. \A p \in Pos : Fits(JointsAt(joints, n, p), p, Contents(n), Known(n))
  BY DEF JointsFollow, JointsFit
<1>2. CASE i \in Contents(n)
  <2>1. PICK p \in Pos : p \in Ends[i]
    BY Shapes
  <2> QED  BY <1>1, <1>2, <2>1 DEF Fits, Linking
<1>3. CASE i \in Linked(n)
  <2>1. PICK p \in Pos : \E j \in JointsAt(joints, n, p) : i \in j.links
    BY <1>3 DEF Linked
  <2>2. p \in Ends[i]
    BY <1>1, <2>1 DEF Fits, Spanning
  <2> QED  BY <2>1, <2>2
<1> QED  BY <1>2, <1>3 DEF Reachable

\* Remove(), Replace() and the splitting of a segment.
LEMMA ExchangeJoints ==
    ASSUME NodeInv, JointsFollow, NEW n \in Node, NEW old \in Item, NEW new \in SUBSET Item,
           NEW asItem \in BOOLEAN, Exchange(n, old, new, asItem)
    PROVE  JointsFollow'
<1>1. /\ Types /\ RootOwns /\ n \in Live /\ n # Root /\ Root \in Live /\ Root \in Node
      /\ JointsTyped(joints) /\ parent' = parent
  BY NodeAssumption DEF NodeInv, JointsFollow, Exchange, Changeable, Live
<1> DEFINE after == RemoveFromJoints(joints, n, old)
           C == Contents(n)
           L == Known(n)
           R == index[Root]
           M == (index[n] \ {old}) \cup R
<1>2. JointsFit(joints, n, C, L)
  BY <1>1 DEF JointsFollow
<1>3. JointsFit(joints, Root, R, R)
  <2>1. Contents(Root) = R /\ Known(Root) = R
    BY DEF Contents, Known
  <2> QED  BY <1>1, <2>1 DEF JointsFollow
<1>4. \E p \in Ends[old] : \E j \in JointsAt(joints, n, p) : old \in j.links
  BY <1>1, ReachableLinked DEF Exchange
<1>5. L \ {old} \subseteq M /\ (n # Root => R \subseteq M)
  BY DEF Known
<1>6. joints' = LinkAll(after, n, new)
  BY DEF Exchange
<1>7. /\ index'[n] = (index[n] \ {old}) \cup new
      /\ override'[n] = override[n] \cup {k \in {old} : owner[k] = Root}
      /\ \A m \in Node \ {n} : index'[m] = index[m] /\ override'[m] = override[m]
  BY <1>1 DEF Exchange, Types
<1>8. (old \in R) = (owner[old] = Root)
  BY <1>1 DEF RootOwns
<1>9. Contents(n)' = (C \ {old}) \cup new /\ Known(n)' = M \cup new
  BY <1>1, <1>7, <1>8 DEF Contents, Known
<1> HIDE DEF after, C, L, R, M
<1>10. /\ JointsTyped(after) /\ \A m \in Node \ {n} : after[m] = joints[m]
       /\ JointsFit(after, n, C \ {old}, M)
  BY <1>1, <1>2, <1>3, <1>4, <1>5, RemoveFits, Zenon DEF after
<1> DEFINE D == C \ {old}
<1> HIDE DEF D
<1>11. /\ JointsTyped(joints') /\ \A m \in Node \ {n} : joints'[m] = after[m]
       /\ JointsFit(joints', n, D \cup new, M \cup new)
  <2>1. JointsFit(after, n, D, M)
    BY <1>10 DEF D
  <2> QED  BY <1>6, <1>10, <2>1, LinkAllFits
<1>12. JointsFit(joints', n, Contents(n)', Known(n)')
  BY <1>9, <1>11 DEF D
<1>13. \A m \in Node \ {n} : joints'[m] = joints[m]
  BY <1>10, <1>11
<1> QED  BY <1>1, <1>7, <1>11, <1>12, <1>13, ChangeJoints

\* NODE::Commit(): the root's joints, item by item.
LEMMA CommitJoints ==
    ASSUME NodeInv, JointsFollow, NEW n \in Live \ {Root}, NEW parents, CommitToRoot(n, parents)
    PROVE  JointsFollow'
<1> USE NodeAssumption
<1> DEFINE C == index[Root]
           gone == override[n]
           new == index[n]
           after == RemoveAll(joints, Root, gone)
           linked == LinkAll(after, Root, new)
<1>1. Types /\ OverridesInRoot /\ JointsTyped(joints) /\ Root \in Live /\ n \in Node
  BY DEF NodeInv, JointsFollow, Live
<1>2. C \in SUBSET Item /\ gone \in SUBSET C /\ new \in SUBSET Item
  BY <1>1 DEF Types, OverridesInRoot
<1>3. JointsFit(joints, Root, C, C)
  <2>1. Contents(Root) = C /\ Known(Root) = C
    BY DEF Contents, Known
  <2> QED  BY <1>1, <2>1 DEF JointsFollow
<1>4. /\ joints' = [m \in Node |-> IF m = Root THEN linked[Root] ELSE NoJoints]
      /\ index'[Root] = (C \ gone) \cup new
  BY DEF CommitToRoot
<1>5. Live' \subseteq {Root}
  BY <1>1 DEF CommitToRoot, Destroyed, Live, Types
<1> HIDE DEF C, gone, new, after, linked
<1>6. JointsTyped(after) /\ JointsFit(after, Root, C \ gone, C \ gone)
  BY <1>1, <1>2, <1>3, RemoveAllFits DEF after
<1> DEFINE D == C \ gone
<1> HIDE DEF D
<1>7. JointsTyped(linked) /\ JointsFit(linked, Root, D \cup new, D \cup new)
  <2>1. JointsFit(after, Root, D, D)
    BY <1>6 DEF D
  <2> QED  BY <1>2, <1>6, <2>1, LinkAllFits DEF linked
<1>8. JointsTyped(joints')
  <2>1. NoJoints \in [Pos -> SUBSET Joint]
    BY DEF NoJoints
  <2> QED  BY <1>4, <1>7, <2>1 DEF JointsTyped
<1>9. JointsFit(joints', Root, D \cup new, D \cup new)
  <2>1. \A p \in Pos : JointsAt(joints', Root, p) = JointsAt(linked, Root, p)
    BY <1>4 DEF JointsAt
  <2> DEFINE E == D \cup new
  <2> HIDE DEF E
  <2>2. JointsFit(linked, Root, E, E)
    BY <1>7 DEF E
  <2>3. JointsFit(joints', Root, E, E)
    BY <2>1, <2>2, SameJoints
  <2> QED  BY <2>3 DEF E
<1>10. Contents(Root)' = D \cup new /\ Known(Root)' = D \cup new
  BY <1>4 DEF Contents, Known, D
<1>11. JointsTyped(joints)'
  BY <1>8 DEF JointsTyped
<1>12. \A k \in Live' : JointsFit(joints', k, Contents(k)', Known(k)')
  BY <1>5, <1>9, <1>10
<1> QED  BY <1>11, <1>12 DEF JointsFollow

-----------------------------------------------------------------------------
(* Types, and the holes of vias.                                             *)

\* The types that NodeInv leaves out, and the holes, which go with their vias.
MoreTypes ==
    /\ parent \in [Node -> Live \cup {None}]
    /\ holeOwner \in [Via -> Node \cup {Own, Gone}]
    /\ garbage \subseteq Item /\ allocated \subseteq Item /\ commits \in 0 .. MaxCommits
HolesOwned == \A n \in Node : \A v \in Via \cap index[n] : holeOwner[v] \in {Own, owner[v]}

RouterInv == JointsFollow /\ MoreTypes /\ HolesOwned

LEMMA InitRouter == Init => RouterInv
<1> SUFFICES ASSUME Init PROVE RouterInv
  OBVIOUS
<1> USE NodeAssumption
<1>1. MoreTypes
  BY DEF Init, MoreTypes, Live
<1>2. HolesOwned
  BY DEF Init, HolesOwned, Item
<1> QED  BY <1>1, <1>2, InitJoints DEF RouterInv

LEMMA BranchRouter ==
    ASSUME NodeInv, RouterInv, NEW n \in Node, NEW m \in Node, Branch(n, m)
    PROVE  RouterInv'
<1> USE NodeAssumption
<1>1. Types /\ JointsFollow /\ MoreTypes /\ HolesOwned
  BY DEF NodeInv, RouterInv
<1>2. /\ parent' = [parent EXCEPT ![m] = n] /\ n \in Live /\ m \notin Live
      /\ UNCHANGED <<owner, holeOwner, garbage, allocated, commits>>
  BY DEF Branch
<1>3. /\ index'[m] = (IF n = Root THEN {} ELSE index[n])
      /\ \A k \in Node \ {m} : index'[k] = index[k]
  BY <1>1 DEF Branch, Types
<1>4. MoreTypes'
  <2>1. Live \subseteq Live' /\ n \in Live'
    BY <1>1, <1>2 DEF Types, Live
  <2> QED  BY <1>1, <1>2, <2>1 DEF MoreTypes
<1>5. HolesOwned'
  BY <1>1, <1>2, <1>3 DEF HolesOwned
<1> QED  BY <1>1, <1>4, <1>5, BranchJoints DEF RouterInv

LEMMA KillRouter ==
    ASSUME NodeInv, RouterInv, NEW nodes \in SUBSET (Node \ {Root}), Closed(nodes), Kill(nodes)
    PROVE  RouterInv'
<1> USE NodeAssumption
<1>1. Types /\ OwnedAbove /\ JointsFollow /\ MoreTypes /\ HolesOwned
  BY DEF NodeInv, RouterInv
<1>2. /\ parent' = [n \in Node |-> IF n \in nodes THEN None ELSE parent[n]]
      /\ owner' = [i \in Item |-> IF owner[i] \in nodes THEN None ELSE owner[i]]
      /\ holeOwner' = [v \in Via |-> IF holeOwner[v] \in nodes THEN Gone ELSE holeOwner[v]]
      /\ index' = [n \in Node |-> IF n \in nodes THEN {} ELSE index[n]]
      /\ UNCHANGED <<garbage, commits>> /\ allocated' \subseteq allocated
  BY DEF Kill, Destroyed, Freed
<1>3. MoreTypes'
  <2>1. \A k \in Live \ nodes : k \in Live'
    BY <1>2 DEF Live
  <2>2. ASSUME NEW k \in Node
        PROVE  parent'[k] \in Live' \cup {None}
    <3>1. CASE k \in nodes \/ parent[k] = None
      BY <1>2, <3>1
    <3>2. CASE k \notin nodes /\ parent[k] # None
      <4>1. parent[k] \in Live /\ parent[k] \in Node
        BY <1>1, <3>2 DEF MoreTypes, Live
      <4>2. k \in Children(parent[k])
        BY DEF Children
      <4>3. parent[k] \notin nodes
        BY <3>2, <4>1, <4>2 DEF Closed
      <4> QED  BY <1>2, <2>1, <3>2, <4>1, <4>3
    <3> QED  BY <3>1, <3>2
  <2>3. parent' \in [Node -> Live' \cup {None}]
    BY <1>2, <2>2
  <2> QED  BY <1>1, <1>2, <2>3 DEF MoreTypes
<1>4. HolesOwned'
  <2> SUFFICES ASSUME NEW m \in Node, NEW v \in Via, v \in index'[m]
               PROVE  holeOwner'[v] \in {Own, owner'[v]}
    BY DEF HolesOwned
  <2>1. m \notin nodes /\ v \in index[m] /\ v \in Item
    BY <1>2 DEF Item
  <2>2. owner[v] \in Node \ nodes
    BY <1>1, <2>1, BranchesLeave DEF OwnedAbove
  <2>3. holeOwner[v] \in {Own, owner[v]}
    BY <1>1, <2>1 DEF HolesOwned
  <2> QED  BY <1>2, <2>1, <2>2, <2>3
<1> QED  BY <1>1, <1>3, <1>4, KillJoints DEF RouterInv

LEMMA AddRouter ==
    ASSUME NodeInv, RouterInv, NEW n \in Node, NEW i \in Item, Add(n, i)
    PROVE  RouterInv'
<1> USE NodeAssumption
<1>1. Types /\ ItemsExist /\ JointsFollow /\ MoreTypes /\ HolesOwned
  BY DEF NodeInv, RouterInv
<1>2. /\ n \in Node /\ i \notin allocated
      /\ index' = [index EXCEPT ![n] = @ \cup {i}] /\ owner' = [owner EXCEPT ![i] = n]
      /\ holeOwner' = IF i \in Via THEN [holeOwner EXCEPT ![i] = n] ELSE holeOwner
      /\ allocated' = allocated \cup {i} /\ UNCHANGED <<parent, garbage, commits>>
  BY DEF Add, MayCreate
<1>3. MoreTypes'
  BY <1>1, <1>2 DEF MoreTypes, Live
<1>4. HolesOwned'
  <2> SUFFICES ASSUME NEW m \in Node, NEW v \in Via, v \in index'[m]
               PROVE  holeOwner'[v] \in {Own, owner'[v]}
    BY DEF HolesOwned
  <2>1. CASE v = i
    BY <1>1, <1>2, <2>1 DEF MoreTypes, Types
  <2>2. CASE v # i
    <3>1. v \in index[m] /\ v \in Item
      BY <1>1, <1>2, <2>2 DEF Types, Item
    <3>2. holeOwner'[v] = holeOwner[v] /\ owner'[v] = owner[v]
      BY <1>1, <1>2, <2>2, <3>1 DEF MoreTypes, Types
    <3> QED  BY <1>1, <3>1, <3>2 DEF HolesOwned
  <2> QED  BY <2>1, <2>2
<1> QED  BY <1>1, <1>3, <1>4, AddJoints DEF RouterInv

LEMMA ExchangeRouter ==
    ASSUME NodeInv, NodeInv', RouterInv, NEW n \in Node, NEW old \in Item, NEW new \in SUBSET Item,
           NEW asItem \in BOOLEAN, Exchange(n, old, new, asItem)
    PROVE  RouterInv'
<1> USE NodeAssumption
<1>1. Types /\ ItemsExist /\ JointsFollow /\ MoreTypes /\ HolesOwned /\ OwnedAbove'
  BY DEF NodeInv, RouterInv
<1> DEFINE mine == owner[old] = n
<1>2. /\ index' = [index EXCEPT ![n] = (@ \ {old}) \cup new]
      /\ owner' = [i \in Item |-> IF i \in new THEN n ELSE IF i = old /\ mine THEN None ELSE owner[i]]
      /\ holeOwner' = [v \in Via |->
                IF v \in new THEN n ELSE IF v = old /\ (mine \/ asItem) THEN Own ELSE holeOwner[v]]
      /\ garbage' = IF mine THEN garbage \cup {old} ELSE garbage
      /\ allocated' = allocated \cup new /\ UNCHANGED <<parent, commits>>
  BY DEF Exchange
<1> HIDE DEF mine
<1>3. MoreTypes'
  BY <1>1, <1>2 DEF MoreTypes, Live
<1>4. HolesOwned'
  <2> SUFFICES ASSUME NEW m \in Node, NEW v \in Via, v \in index'[m]
               PROVE  holeOwner'[v] \in {Own, owner'[v]}
    BY DEF HolesOwned
  <2>1. v \in Item /\ owner'[v] \in Node
    BY <1>1 DEF OwnedAbove, Item
  <2>2. CASE v \in new
    BY <1>2, <2>1, <2>2
  <2>3. CASE v \notin new
    <3>1. v \in index[m]
      BY <1>1, <1>2, <2>3 DEF Types
    <3>2. owner'[v] = owner[v]
      BY <1>2, <2>1, <2>3
    <3>3. holeOwner'[v] \in {Own, holeOwner[v]}
      BY <1>2, <2>3
    <3> QED  BY <1>1, <3>1, <3>2, <3>3 DEF HolesOwned
  <2> QED  BY <2>2, <2>3
<1> QED  BY <1>1, <1>3, <1>4, ExchangeJoints DEF RouterInv

LEMMA CommitRouter ==
    ASSUME NodeInv, NodeInv', RouterInv, NEW n \in Node,
           NEW next \in UNION {[D -> index[n]] : D \in SUBSET override[n]}, CommitRouting(n, next)
    PROVE  RouterInv'
<1> USE NodeAssumption
<1>1. /\ Types /\ RootOwns /\ JointsFollow /\ MoreTypes /\ HolesOwned /\ Types' /\ RootOwns'
      /\ n \in Live \ {Root}
  BY DEF NodeInv, RouterInv, CommitRouting, Changeable
<1>2. PICK parents : CommitToRoot(n, parents)
  BY DEF CommitRouting
<1> DEFINE nodes == Live \ {Root}
           own == [i \in Item |-> IF i \in index[n] THEN Root ELSE IF i \in override[n] THEN None ELSE owner[i]]
           holes == [v \in Via |-> IF v \in index[n] THEN Root ELSE IF v \in override[n] THEN Own ELSE holeOwner[v]]
<1>3. /\ parent' = [m \in Node |-> IF m \in nodes THEN None ELSE parent[m]]
      /\ holeOwner' = [v \in Via |-> IF holes[v] \in nodes THEN Gone ELSE holes[v]]
      /\ index' = [m \in Node |-> IF m = Root THEN (index[Root] \ override[n]) \cup index[n] ELSE {}]
      /\ garbage' = {} /\ allocated' \subseteq allocated
  BY <1>2 DEF CommitToRoot, Destroyed, Freed
<1>4. commits' \in 0 .. MaxCommits
  BY <1>1 DEF CommitRouting, MoreTypes
<1>5. nodes \subseteq Node \ {Root} /\ \A m \in Node \ nodes : m = Root \/ parent[m] = None
  BY DEF Live
<1>6. holes \in [Via -> Node \cup {Own, Gone}]
  BY <1>1 DEF MoreTypes
<1> HIDE DEF nodes
<1>7. MoreTypes'
  <2>1. parent' \in [Node -> {None}]
    BY <1>1, <1>3, <1>5 DEF Types
  <2>2. parent' \in [Node -> Live' \cup {None}]
    BY <2>1
  <2>3. holeOwner' \in [Via -> Node \cup {Own, Gone}]
    <3> HIDE DEF holes
    <3> QED  BY <1>3, <1>6
  <2> QED  BY <1>1, <1>3, <1>4, <2>2, <2>3 DEF MoreTypes
<1>8. HolesOwned'
  <2> SUFFICES ASSUME NEW m \in Node, NEW v \in Via, v \in index'[m]
               PROVE  holeOwner'[v] \in {Own, owner'[v]}
    BY DEF HolesOwned
  <2>1. m = Root /\ v \in Item /\ owner'[v] = Root /\ v \in (index[Root] \ override[n]) \cup index[n]
    BY <1>1, <1>3 DEF RootOwns, Item
  <2>2. CASE v \in index[n]
    BY <1>3, <1>5, <2>1, <2>2
  <2>3. CASE v \notin index[n]
    <3>1. v \in index[Root] /\ owner[v] = Root /\ holes[v] = holeOwner[v]
      BY <1>1, <2>1, <2>3 DEF RootOwns
    <3>2. holeOwner[v] \in {Own, Root}
      BY <1>1, <3>1 DEF HolesOwned
    <3> QED  BY <1>3, <1>5, <2>1, <3>1, <3>2
  <2> QED  BY <2>2, <2>3
<1>9. JointsFollow'
  BY <1>1, <1>2, CommitJoints
<1> QED  BY <1>7, <1>8, <1>9 DEF RouterInv

LEMMA NextRouter ==
    ASSUME NodeInv, NodeInv', RouterInv, [Next]_vars
    PROVE  RouterInv'
<1> USE NodeAssumption
<1>1. CASE \E n, m \in Node : Branch(n, m)
  BY <1>1, BranchRouter
<1>2. CASE \E n \in Node : KillChildren(n) \/ DeleteBranch(n)
  <2>1. PICK n \in Node : KillChildren(n) \/ DeleteBranch(n)
    BY <1>2
  <2>2. CASE KillChildren(n)
    <3>1. Below(n) \subseteq Node \ {Root} /\ Closed(Below(n))
      BY BelowIsClosed DEF NodeInv
    <3> QED  BY <2>2, <3>1, KillRouter DEF KillChildren
  <2>3. CASE DeleteBranch(n)
    <3>1. {n} \subseteq Node \ {Root} /\ Closed({n}) /\ Kill({n})
      BY <2>3 DEF DeleteBranch, Changeable, Closed
    <3> QED  BY <3>1, KillRouter
  <2> QED  BY <2>1, <2>2, <2>3
<1>3. ASSUME NEW n \in Node, NEW i \in Item, NEW asItem \in BOOLEAN, RemoveItem(n, i, asItem)
      PROVE  RouterInv'
  BY <1>3, ExchangeRouter DEF RemoveItem
<1>4. CASE \E n \in Node, i \in Item :
              \/ Add(n, i)
              \/ RemoveItem(n, i, FALSE)
              \/ i \in Via /\ RemoveItem(n, i, TRUE)
  <2>1. PICK n \in Node, i \in Item : Add(n, i) \/ RemoveItem(n, i, FALSE) \/ RemoveItem(n, i, TRUE)
    BY <1>4
  <2>2. CASE Add(n, i)
    BY <2>2, AddRouter
  <2> QED  BY <1>3, <2>1, <2>2
<1>5. CASE \E n \in Node, v, w \in Via, asItem \in BOOLEAN : ReplaceVia(n, v, w, asItem)
  <2>1. PICK n \in Node, v \in Via, w \in Via, asItem \in BOOLEAN : ReplaceVia(n, v, w, asItem)
    BY <1>5
  <2>2. v \in Item /\ {w} \in SUBSET Item /\ Exchange(n, v, {w}, asItem)
    BY <2>1 DEF ReplaceVia, Item
  <2> QED  BY <2>2, ExchangeRouter
<1>6. CASE \E n \in Node, h \in Halves : SplitSegment(n, h[1], h[2], h[3])
  <2>1. PICK n \in Node, h \in Halves : SplitSegment(n, h[1], h[2], h[3])
    BY <1>6
  <2>2. h[1] \in Item /\ {h[2], h[3]} \in SUBSET Item
    BY DEF Item
  <2>3. Exchange(n, h[1], {h[2], h[3]}, FALSE)
    BY <2>1 DEF SplitSegment
  <2> QED  BY <2>2, <2>3, ExchangeRouter
<1>7. CASE \E n \in Node : \E next \in UNION {[D -> index[n]] : D \in SUBSET override[n]} :
              CommitRouting(n, next)
  BY <1>7, CommitRouter
<1>8. CASE UNCHANGED vars
  <2>1. JointsFollow'
    BY <1>8 DEF vars, RouterInv, JointsFollow, Live, Contents, Known
  <2>2. MoreTypes' /\ HolesOwned'
    BY <1>8 DEF vars, RouterInv, MoreTypes, HolesOwned, Live
  <2> QED  BY <2>1, <2>2 DEF RouterInv
<1>9. Next \/ UNCHANGED vars
  OBVIOUS
<1> HIDE NodeAssumption
<1> QED  BY <1>1, <1>2, <1>4, <1>5, <1>6, <1>7, <1>8, <1>9 DEF Next

\* The invariants that the runs check.
LEMMA RouterTypes == NodeInv /\ RouterInv => NodeTypeOK
<1> SUFFICES ASSUME NodeInv, RouterInv PROVE NodeTypeOK
  OBVIOUS
<1>1. Types /\ OverridesInRoot /\ MoreTypes /\ JointsTyped(joints)
  BY DEF NodeInv, RouterInv, JointsFollow
<1>2. override \in [Node -> SUBSET index[Root]]
  BY <1>1 DEF Types, OverridesInRoot
<1> QED  BY <1>1, <1>2 DEF NodeTypeOK, Types, MoreTypes, JointsTyped

LEMMA KnownIs ==
    ASSUME NodeInv, NEW n \in Live
    PROVE  Known(n) = Contents(n) \cup override[n]
<1>1. n \in Node /\ Root \in Node /\ Types /\ OverridesInRoot
  BY NodeAssumption DEF Live, NodeInv
<1>2. override[n] \subseteq index[Root] /\ override[Root] = {}
  BY <1>1 DEF Types, OverridesInRoot
<1> QED  BY <1>2 DEF Known, Contents

JointsMatchAt(n, p, here) ==
    /\ \A i \in Contents(n) : p \in Ends[i] => \E j \in here : i \in j.links /\ Layers[i] \subseteq j.layers
    /\ \A j, k \in here : j # k => j.layers \cap k.layers = {}
    /\ \A j \in here : j.links \subseteq Contents(n) \cup override[n]

LEMMA JointsAgree == NodeInv /\ RouterInv => JointsMatchItems
<1> SUFFICES ASSUME NodeInv, RouterInv
             PROVE  \A n \in Live : \A p \in Pos : JointsMatchAt(n, p, JointsAt(joints, n, p))
  BY DEF JointsMatchItems, JointsMatchAt
<1> TAKE n \in Live
<1> TAKE p \in Pos
<1> DEFINE here == JointsAt(joints, n, p)
<1>1. Linking(here, {i \in Contents(n) : p \in Ends[i]}) /\ Apart(here) /\ Spanning(here, p, Known(n))
  BY DEF RouterInv, JointsFollow, JointsFit, Fits
<1> HIDE DEF here
<1>2. \A i \in Contents(n) : p \in Ends[i] => \E j \in here : i \in j.links /\ Layers[i] \subseteq j.layers
  BY <1>1 DEF Linking, Spanning
<1>3. \A j, k \in here : j # k => j.layers \cap k.layers = {}
  BY <1>1 DEF Apart
<1>4. \A j \in here : j.links \subseteq Contents(n) \cup override[n]
  <2>1. \A j \in here : j.links \subseteq Known(n)
    BY <1>1 DEF Spanning
  <2> QED  BY <2>1, KnownIs
<1> QED  BY <1>2, <1>3, <1>4 DEF JointsMatchAt, here

LEMMA AllAreThere == NodeInv /\ RouterInv => NothingFreedIsUsed
<1> SUFFICES ASSUME NodeInv, RouterInv, NEW n \in Live
             PROVE  /\ index[n] \cup override[n] \cup Linked(n) \subseteq allocated
                    /\ \A v \in Via \cap (Contents(n) \cup override[n]) : holeOwner[v] \in {Own, owner[v]}
  BY DEF NothingFreedIsUsed
<1>1. n \in Node /\ Root \in Node /\ ItemsExist /\ OverridesInRoot
  BY NodeAssumption DEF Live, NodeInv
<1>2. Known(n) \subseteq allocated
  BY <1>1 DEF ItemsExist, Known
<1>3. Linked(n) \subseteq Known(n)
  <2> SUFFICES ASSUME NEW i \in Linked(n)
               PROVE  i \in Known(n)
    OBVIOUS
  <2>1. PICK p \in Pos : \E j \in JointsAt(joints, n, p) : i \in j.links
    BY DEF Linked
  <2>2. Spanning(JointsAt(joints, n, p), p, Known(n))
    BY DEF RouterInv, JointsFollow, JointsFit, Fits
  <2> QED  BY <2>1, <2>2 DEF Spanning
<1>4. index[n] \cup override[n] \subseteq Known(n)
  BY <1>1 DEF OverridesInRoot, Known
<1>5. \A v \in Via \cap Known(n) : holeOwner[v] \in {Own, owner[v]}
  BY <1>1 DEF RouterInv, HolesOwned, Known
<1>6. Contents(n) \cup override[n] \subseteq Known(n)
  BY KnownIs
<1> QED  BY <1>2, <1>3, <1>4, <1>5, <1>6

\* No step of the router breaks the invariants.
LEMMA RouterKeeps ==
    NodeInv /\ BoardMatchesWorld /\ RouterInv /\ [Next]_vars => (NodeInv /\ BoardMatchesWorld /\ RouterInv)'
  BY NextKeeps, NextRouter

\* Every branch hangs on one that is there, overrides nothing but what the root has,
\* and every joint, owner and hole is one of those that can be (Branch(),
\* unlinkParent(), releaseChildren(), doRemove()).
THEOREM RouterTypesHold == Spec => []NodeTypeOK
<1>1. Init => NodeInv /\ BoardMatchesWorld /\ RouterInv
  BY InitHolds, InitRouter
<1> QED  BY <1>1, RouterKeeps, RouterTypes, PTL DEF Spec

\* In every node, whatever was added, removed, replaced, split or committed, what the
\* node has is linked at each of its ends to a joint that spans its layers, no two
\* joints of a position overlap, and no joint links anything but what the node has or
\* has removed (touchJoint(), linkJoint(), unlinkJoint(), rebuildJoint()).
THEOREM JointsFollowItems == Spec => []JointsMatchItems
<1>1. Init => NodeInv /\ BoardMatchesWorld /\ RouterInv
  BY InitHolds, InitRouter
<1> QED  BY <1>1, RouterKeeps, JointsAgree, PTL DEF Spec

\* No node has, overrides or has linked an item that was deleted, and no via has lost
\* its hole to the destructor of another node (~NODE(), releaseGarbage(), Commit()).
THEOREM NothingFreed == Spec => []NothingFreedIsUsed
<1>1. Init => NodeInv /\ BoardMatchesWorld /\ RouterInv
  BY InitHolds, InitRouter
<1> QED  BY <1>1, RouterKeeps, AllAreThere, PTL DEF Spec

-----------------------------------------------------------------------------
(* Branches are worlds of their own.                                         *)

\* What RouterWorld sees of the nodes.
Worlds == [n \in Live |-> Contents(n)]

LEMMA InitWorld == Init => World!WInit
<1> SUFFICES ASSUME Init PROVE World!WInit
  OBVIOUS
<1> USE NodeAssumption
<1>1. Live = {Root} /\ Contents(Root) = InitItems
  BY DEF Live, Init, Contents
<1>2. [n \in Live |-> Contents(n)] \in [{Root} -> SUBSET Item]
  BY <1>1
<1> QED  BY <1>2 DEF World!WInit

LEMMA BranchWorld ==
    ASSUME NodeInv, NEW n \in Node, NEW m \in Node, Branch(n, m)
    PROVE  World!BranchOff(n, m)
<1> USE NodeAssumption
<1>1. Types /\ OverridesInRoot
  BY DEF NodeInv
<1>2. n \in Live /\ m \notin Live /\ m # Root /\ n # m /\ Live \subseteq Node
  BY DEF Branch, Live
<1>3. Live' = Live \cup {m}
  BY <1>1, <1>2 DEF Branch, Live, Types
<1>4. /\ index'[m] = (IF n = Root THEN {} ELSE index[n])
      /\ override'[m] = (IF n = Root THEN {} ELSE override[n])
      /\ \A k \in Node \ {m} : index'[k] = index[k] /\ override'[k] = override[k]
  BY <1>1 DEF Branch, Types
<1>5. \A k \in Live : Contents(k)' = Contents(k)
  BY <1>2, <1>4 DEF Contents
<1>6. Contents(m)' = Contents(n)
  <2>1. override[Root] = {}
    BY <1>1 DEF OverridesInRoot, Types
  <2> QED  BY <1>2, <1>4, <2>1 DEF Contents
<1>7. [k \in Live' |-> Contents(k)'] = [w \in Live \cup {m} |-> IF w = m THEN Worlds[n] ELSE Worlds[w]]
  BY <1>2, <1>3, <1>5, <1>6 DEF Worlds
<1>8. DOMAIN Worlds = Live
  BY DEF Worlds
<1> QED  BY <1>2, <1>7, <1>8 DEF World!BranchOff, World!Worlds, Worlds

LEMMA KillWorld ==
    ASSUME NodeInv, NEW nodes \in SUBSET (Node \ {Root}), Kill(nodes)
    PROVE  World!Discard
<1> USE NodeAssumption
<1>1. Types
  BY DEF NodeInv
<1>2. Live' \subseteq Live \ nodes /\ Live \subseteq Node /\ Root \in Live'
  BY <1>1 DEF Kill, Destroyed, Live, Types
<1>3. \A k \in Node \ nodes : index'[k] = index[k] /\ override'[k] = override[k]
  BY <1>1 DEF Kill, Destroyed
<1>4. \A k \in Live' : Contents(k)' = Contents(k)
  BY <1>2, <1>3 DEF Contents
<1>5. /\ DOMAIN Worlds = Live /\ DOMAIN Worlds' = Live'
      /\ Worlds' = [w \in Live' |-> Worlds[w]]
  BY <1>2, <1>4 DEF Worlds
<1> QED  BY <1>2, <1>5 DEF World!Discard, World!Worlds, Worlds

LEMMA ChangeWorld ==
    ASSUME NodeInv, NEW n \in Live \ {Root}, NEW new \in SUBSET Item, parent' = parent,
           \A m \in Node \ {n} : index'[m] = index[m] /\ override'[m] = override[m],
           Contents(n)' \ Contents(n) \subseteq new, new \cap allocated = {},
           \A i \in new, k \in Contents(n) : ~Twin(i, k)
    PROVE  World!Change(n)
<1> USE NodeAssumption
<1>1. Types /\ ItemsExist /\ Live \subseteq Node /\ Live' = Live
  BY DEF NodeInv, Live
<1>2. /\ \A w \in Live \ {n} : Contents(w)' = Contents(w)
      /\ \A w \in Live : Contents(w) \subseteq allocated
  BY <1>1 DEF Contents, ItemsExist
<1>3. /\ DOMAIN Worlds = Live /\ DOMAIN Worlds' = Live
      /\ \A w \in Live : Worlds[w] = Contents(w) /\ Worlds'[w] = Contents(w)'
  BY <1>1 DEF Worlds
<1>4. \A w \in Live \ {n} : Worlds'[w] = Worlds[w]
  BY <1>2, <1>3
<1>5. \A i \in Worlds'[n] \ Worlds[n] :
          /\ i \in Item /\ \A w \in Live : i \notin Worlds[w]
          /\ \A k \in Worlds'[n] \cap Worlds[n] : ~Twin(i, k)
  BY <1>2, <1>3
<1> QED  BY <1>3, <1>4, <1>5 DEF World!Change, World!Worlds, Worlds

\* What a node has is linked to joints that span its layers.
LEMMA LinkedWell ==
    ASSUME RouterInv, NEW n \in Live, NEW k \in Contents(n), NEW p \in Pos, p \in Ends[k]
    PROVE  \E j \in JointsAt(joints, n, p) : k \in j.links /\ Layers[k] \subseteq j.layers
<1>1. Fits(JointsAt(joints, n, p), p, Contents(n), Known(n))
  BY DEF RouterInv, JointsFollow, JointsFit
<1> QED  BY <1>1 DEF Fits, Linking, Spanning

LEMMA AddWorld ==
    ASSUME NodeInv, RouterInv, NEW n \in Node, NEW i \in Item, Add(n, i)
    PROVE  World!Change(n)
<1>1. Types /\ n \in Live \ {Root} /\ Root \in Node /\ i \notin allocated /\ parent' = parent
  BY NodeAssumption DEF NodeInv, Add, Changeable, MayCreate
<1>2. /\ index'[n] = index[n] \cup {i} /\ override'[n] = override[n]
      /\ \A m \in Node \ {n} : index'[m] = index[m] /\ override'[m] = override[m]
  BY <1>1 DEF Add, Types
<1>3. Contents(n)' \ Contents(n) \subseteq {i}
  BY <1>1, <1>2 DEF Contents
<1>4. \A k \in Contents(n) : ~Twin(i, k)
  <2> SUFFICES ASSUME NEW k \in Contents(n), Twin(i, k)
               PROVE  Redundant(n, i)
    BY DEF Add
  <2>1. Ends[i] = Ends[k] /\ Layers[i] = Layers[k]
    BY DEF Twin
  <2>2. PICK p \in Pos : p \in Ends[i]
    BY Shapes
  <2>3. PICK j \in JointsAt(joints, n, p) : k \in j.links /\ Layers[k] \subseteq j.layers
    BY <1>1, <2>1, <2>2, LinkedWell
  <2>4. j.layers \cap Layers[i] # {}
    BY <2>1, <2>3, Shapes
  <2> QED  BY <2>2, <2>3, <2>4 DEF Redundant
<1>5. {i} \in SUBSET Item /\ {i} \cap allocated = {} /\ \A x \in {i}, k \in Contents(n) : ~Twin(x, k)
  BY <1>1, <1>4
<1> QED  BY <1>1, <1>2, <1>3, <1>5, ChangeWorld

LEMMA ExchangeWorld ==
    ASSUME NodeInv, NEW n \in Node, NEW old \in Item, NEW new \in SUBSET Item,
           NEW asItem \in BOOLEAN, Exchange(n, old, new, asItem),
           \A i \in new, k \in Contents(n) : ~Twin(i, k)
    PROVE  World!Change(n)
<1>1. Types /\ n \in Live \ {Root} /\ Root \in Node /\ new \cap allocated = {} /\ parent' = parent
  BY NodeAssumption DEF NodeInv, Exchange, Changeable, MayCreate
<1>2. /\ index'[n] = (index[n] \ {old}) \cup new /\ override[n] \subseteq override'[n]
      /\ \A m \in Node \ {n} : index'[m] = index[m] /\ override'[m] = override[m]
  BY <1>1 DEF Exchange, Types
<1>3. Contents(n)' \ Contents(n) \subseteq new
  BY <1>1, <1>2 DEF Contents
<1> QED  BY <1>1, <1>2, <1>3, ChangeWorld

LEMMA SplitWorld ==
    ASSUME NodeInv, RouterInv, NEW n \in Node, NEW h \in Halves, SplitSegment(n, h[1], h[2], h[3])
    PROVE  World!Change(n)
<1>1. /\ h[1] \in Item /\ {h[2], h[3]} \in SUBSET Item /\ n \in Live
      /\ Exchange(n, h[1], {h[2], h[3]}, FALSE)
  BY NodeAssumption DEF SplitSegment, Item, Exchange, Changeable
<1>2. /\ Layers[h[2]] = Layers[h[1]] /\ Layers[h[3]] = Layers[h[1]]
      /\ \E p \in Pos : p \in Ends[h[2]] \cap Ends[h[3]]
  <2>1. Ends[h[2]] \in SUBSET Pos
    BY <1>1, Shapes
  <2> QED  BY <2>1, NodeAssumption
<1>3. PICK p \in Pos : p \in Ends[h[2]] \cap Ends[h[3]]
  BY <1>2
<1>4. \A j \in JointsAt(joints, n, p) : j.layers \cap Layers[h[1]] # {} => j.links = {}
  BY <1>3 DEF SplitSegment
<1>5. ASSUME NEW i \in {h[2], h[3]}, NEW k \in Contents(n), Twin(i, k)
      PROVE  FALSE
  <2>1. p \in Ends[k] /\ Layers[k] = Layers[h[1]]
    BY <1>2, <1>3, <1>5 DEF Twin
  <2>2. PICK j \in JointsAt(joints, n, p) : k \in j.links /\ Layers[k] \subseteq j.layers
    BY <1>1, <2>1, LinkedWell
  <2>3. j.layers \cap Layers[h[1]] # {}
    BY <1>1, <2>1, <2>2, Shapes
  <2> QED  BY <1>4, <2>2, <2>3
<1> QED  BY <1>1, <1>5, ExchangeWorld

LEMMA CommitKeepsWorld ==
    ASSUME NodeInv, NEW n \in Live \ {Root}, NEW parents, CommitToRoot(n, parents)
    PROVE  World!CommitWorld(n)
<1> USE NodeAssumption
<1>1. Types /\ OverridesInRoot /\ OwnItems /\ n \in Node
  BY DEF NodeInv, Live
<1>2. Live' = {Root} /\ index'[Root] = (index[Root] \ override[n]) \cup index[n]
  BY <1>1 DEF CommitToRoot, Destroyed, Live, Types
<1>3. Contents(Root)' = Contents(n)
  BY <1>2 DEF Contents
<1>4. DOMAIN Worlds = Live /\ Worlds[n] = Contents(n) /\ Worlds' = [w \in {Root} |-> Worlds[n]]
  BY <1>2, <1>3 DEF Worlds
<1> QED  BY <1>4 DEF World!CommitWorld, World!Worlds, Worlds

LEMMA NextWorld ==
    ASSUME NodeInv, RouterInv, [Next]_vars
    PROVE  World!WNext \/ UNCHANGED Worlds
<1>1. CASE \E n, m \in Node : Branch(n, m)
  BY <1>1, BranchWorld DEF World!WNext
<1>2. CASE \E n \in Node : KillChildren(n) \/ DeleteBranch(n)
  <2>1. PICK n \in Node : KillChildren(n) \/ DeleteBranch(n)
    BY <1>2
  <2>2. CASE KillChildren(n)
    <3>1. Below(n) \subseteq Node \ {Root}
      BY BelowIsClosed DEF NodeInv
    <3> QED  BY <2>2, <3>1, KillWorld DEF KillChildren, World!WNext
  <2>3. CASE DeleteBranch(n)
    <3>1. {n} \subseteq Node \ {Root} /\ Kill({n})
      BY <2>3 DEF DeleteBranch, Changeable
    <3> QED  BY <3>1, KillWorld DEF World!WNext
  <2> QED  BY <2>1, <2>2, <2>3
<1>3. ASSUME NEW n \in Node, NEW i \in Item, NEW asItem \in BOOLEAN, RemoveItem(n, i, asItem)
      PROVE  World!Change(n)
  <2>1. \A x \in {}, k \in Contents(n) : ~Twin(x, k)
    OBVIOUS
  <2> QED  BY <1>3, <2>1, ExchangeWorld DEF RemoveItem
<1>4. CASE \E n \in Node, i \in Item :
              \/ Add(n, i)
              \/ RemoveItem(n, i, FALSE)
              \/ i \in Via /\ RemoveItem(n, i, TRUE)
  <2>1. PICK n \in Node, i \in Item : Add(n, i) \/ RemoveItem(n, i, FALSE) \/ RemoveItem(n, i, TRUE)
    BY <1>4
  <2>2. World!Change(n)
    BY <1>3, <2>1, AddWorld
  <2> QED  BY <2>2 DEF World!WNext
<1>5. CASE \E n \in Node, v, w \in Via, asItem \in BOOLEAN : ReplaceVia(n, v, w, asItem)
  <2>1. PICK n \in Node, v \in Via, w \in Via, asItem \in BOOLEAN : ReplaceVia(n, v, w, asItem)
    BY <1>5
  <2>2. v \in Item /\ {w} \in SUBSET Item /\ Exchange(n, v, {w}, asItem)
    BY <2>1 DEF ReplaceVia, Item
  <2>3. \A i \in {w}, k \in Contents(n) : ~Twin(i, k)
    BY NodeAssumption DEF Twin
  <2>4. World!Change(n)
    BY <2>2, <2>3, ExchangeWorld
  <2> QED  BY <2>4 DEF World!WNext
<1>6. CASE \E n \in Node, h \in Halves : SplitSegment(n, h[1], h[2], h[3])
  BY <1>6, SplitWorld DEF World!WNext
<1>7. CASE \E n \in Node : \E next \in UNION {[D -> index[n]] : D \in SUBSET override[n]} :
              CommitRouting(n, next)
  <2>1. PICK n \in Node : \E next \in UNION {[D -> index[n]] : D \in SUBSET override[n]} :
              CommitRouting(n, next)
    BY <1>7
  <2>2. n \in Live \ {Root} /\ \E parents : CommitToRoot(n, parents)
    BY <2>1 DEF CommitRouting, Changeable
  <2>3. World!CommitWorld(n)
    BY <2>2, CommitKeepsWorld
  <2> QED  BY <2>3 DEF World!WNext
<1>8. CASE UNCHANGED vars
  BY <1>8 DEF vars, Worlds, Live, Contents
<1>9. Next \/ UNCHANGED vars
  OBVIOUS
<1> QED  BY <1>1, <1>2, <1>4, <1>5, <1>6, <1>7, <1>8, <1>9 DEF Next

\* The nodes, with their indices, overrides and joints, implement RouterWorld: what is
\* done in a branch is seen in no other node, a branch begins as its parent, an item is
\* new when it is added and no twin of another, and a commit makes what the branch has
\* what the root has (Branch(), Add(), doRemove(), Commit()).
THEOREM BranchesAreWorlds == Spec => ImplementsWorld
<1>1. Init => NodeInv /\ BoardMatchesWorld /\ RouterInv /\ World!WInit
  BY InitHolds, InitRouter, InitWorld
<1>2. NodeInv /\ RouterInv /\ [Next]_vars => [World!WNext]_Worlds
  BY NextWorld
<1> QED  BY <1>1, <1>2, RouterKeeps, PTL DEF Spec, ImplementsWorld, World!WSpec, Worlds
==============================================================================
