------------------------- MODULE BoardCommit_proofs -------------------------
(***************************************************************************)
(* Theorems about BoardCommit.tla, for every set of items, groups, values  *)
(* and tools and every limit of the undo list.                             *)
(***************************************************************************)
EXTENDS BoardCommit, SequenceFacts

\* Keeping the newest commands: PushCommandToUndoList(), PushCommandToRedoList().
LEMMA NewestSeq ==
    ASSUME NEW D, NEW s \in Seq(D)
    PROVE  /\ Newest(s) \in Seq(D)
           /\ Len(Newest(s)) = IF MaxUndo > 0 /\ Len(s) > MaxUndo THEN MaxUndo ELSE Len(s)
<1>1. MaxUndo \in Nat
  BY BoundsAssumption
<1>2. CASE MaxUndo > 0 /\ Len(s) > MaxUndo
  <2> DEFINE m == Len(s) - MaxUndo
  <2>1. m \in Nat /\ m < Len(s) /\ Len(s) \in Nat
    BY <1>1, <1>2
  <2>2. Newest(s) = SubSeq(s, m + 1, Len(s))
    BY <1>2 DEF Newest, History!Newest
  <2> HIDE DEF m
  <2>3. SubSeq(s, m + 1, Len(s)) \in Seq(D)
    BY <2>1, SuffixType
  <2>4. Len(SubSeq(s, m + 1, Len(s))) = Len(s) - m
    BY <2>1, SuffixType
  <2>5. Len(s) - m = MaxUndo
    BY <1>1, <2>1 DEF m
  <2> QED  BY <1>2, <2>2, <2>3, <2>4, <2>5
<1>3. CASE ~(MaxUndo > 0 /\ Len(s) > MaxUndo)
  <2>1. Newest(s) = s
    BY <1>3 DEF Newest, History!Newest
  <2> QED  BY <1>3, <2>1
<1> QED  BY <1>2, <1>3

\* A list of commands or documents after one more has been pushed.
LEMMA NewestAppend ==
    ASSUME NEW D, NEW s \in Seq(D), NEW e \in D
    PROVE  /\ Newest(Append(s, e)) \in Seq(D)
           /\ Len(Newest(Append(s, e))) =
                 IF MaxUndo > 0 /\ Len(s) + 1 > MaxUndo THEN MaxUndo ELSE Len(s) + 1
<1>1. Append(s, e) \in Seq(D) /\ Len(Append(s, e)) = Len(s) + 1
  OBVIOUS
<1>2. Newest(Append(s, e)) \in Seq(D)
  BY <1>1, NewestSeq
<1>3. Len(Newest(Append(s, e))) =
         IF MaxUndo > 0 /\ Len(Append(s, e)) > MaxUndo THEN MaxUndo ELSE Len(Append(s, e))
  BY <1>1, NewestSeq
<1> QED  BY <1>1, <1>2, <1>3

------------------------------------------------------------------------------
(* Types                                                                   *)

\* A line that COMMIT::Stage() adds is a commit line: its copy is an image.
LEMMA LineType ==
    ASSUME TypeOK, NEW o \in Object, NEW type \in {"ADD", "REMOVE", "MODIFY"},
           NEW done \in BOOLEAN
    PROVE  Line(o, type, done) \in CommitLine
<1>1. NoImage \in Image
  BY DEF NoImage, Image
<1>2. ImageOf(o) \in Image
  BY DEF ImageOf, Image, TypeOK, Object
<1> QED  BY <1>1, <1>2 DEF Line, CommitLine

\* The type of an open commit.
CommitType == [lines : Seq(CommitLine), items : SUBSET Object]

\* COMMIT::makeEntry() appends one line and remembers its item.
LEMMA MakeEntryType ==
    ASSUME TypeOK, NEW c \in CommitType, NEW o \in Object,
           NEW type \in {"ADD", "REMOVE", "MODIFY"}, NEW done \in BOOLEAN
    PROVE  MakeEntry(c, o, type, done) \in CommitType
<1>1. Line(o, type, done) \in CommitLine
  BY LineType
<1>2. Append(c.lines, Line(o, type, done)) \in Seq(CommitLine)
  BY <1>1 DEF CommitType
<1>3. c.items \cup {o} \in SUBSET Object
  BY DEF CommitType
<1> QED  BY <1>2, <1>3 DEF MakeEntry, CommitType

\* Stage() of one object.
LEMMA StageType ==
    ASSUME TypeOK, NEW c \in CommitType, NEW o \in Object
    PROVE  StageModify(c, o) \in CommitType
  BY MakeEntryType DEF StageModify

\* The children of a group are finitely many leaves.
LEMMA MembersOrder ==
    ASSUME TypeOK, NEW g \in Group, NEW T \in SUBSET members[g], NEW s \in SetToSeqs(T)
    PROVE  s \in Seq(Leaf) /\ s \in Seq(Object)
<1>1. T \in SUBSET Leaf /\ T \in SUBSET Object
  BY DEF TypeOK, Object
<1>2. IsFiniteSet(Object)
  BY KindsAssumption
<1>3. IsFiniteSet(T)
  BY <1>1, <1>2, FS_Subset
<1> QED  BY <1>1, <1>3, OrderType

\* A list of lines made from a list of objects.
LEMMA LinesType ==
    ASSUME TypeOK, NEW s \in Seq(Object), NEW type \in {"REMOVE", "MODIFY"}
    PROVE  [k \in 1 .. Len(s) |-> Line(s[k], type, FALSE)] \in Seq(CommitLine)
<1>1. Len(s) \in Nat
  OBVIOUS
<1>2. \A k \in 1 .. Len(s) : Line(s[k], type, FALSE) \in CommitLine
  <2> TAKE k \in 1 .. Len(s)
  <2>1. s[k] \in Object
    OBVIOUS
  <2> QED  BY <2>1, LineType
<1>3. [k \in 1 .. Len(s) |-> Line(s[k], type, FALSE)] \in [1 .. Len(s) -> CommitLine]
  BY <1>2
<1> QED  BY <1>1, <1>3, TableType

\* BOARD_COMMIT::Stage() of a group and its members.
LEMMA StageGroupType ==
    ASSUME TypeOK, NEW c \in CommitType, NEW g \in Group, NEW s \in ChildOrders(c, g)
    PROVE  StageModifyGroup(c, g, s) \in CommitType
<1> DEFINE lines == [k \in 1 .. Len(s) |-> Line(s[k], "MODIFY", FALSE)]
           d == [lines |-> c.lines \o lines, items |-> c.items \cup ToSet(s)]
<1>1. s \in Seq(Object)
  BY MembersOrder DEF ChildOrders
<1>2. lines \in Seq(CommitLine)
  BY <1>1, LinesType
<1>3. c.lines \o lines \in Seq(CommitLine)
  BY <1>2, ConcatProperties DEF CommitType
<1>4. ToSet(s) \subseteq Object
  BY <1>1 DEF ToSet
<1>5. d \in CommitType
  BY <1>3, <1>4 DEF CommitType
<1>6. g \in Object
  BY DEF Object
<1>7. StageModifyGroup(c, g, s) = StageModify(d, g)
  BY DEF StageModifyGroup
<1> HIDE DEF d
<1> QED  BY <1>5, <1>6, <1>7, StageType

\* The membership functions keep their types.
LEMMA GroupOperatorsType ==
    ASSUME TypeOK, NEW i \in Leaf, NEW g \in Group
    PROVE  /\ GroupAdd(members, parent, g, i) \in [Group -> SUBSET Leaf]
           /\ GroupRemoveMembers(members, parent, i) \in [Group -> SUBSET Leaf]
           /\ GroupRemoveParent(members, parent, i) \in [Leaf -> Group \cup {None}]
<1>1. GroupAdd(members, parent, g, i) \in [Group -> SUBSET Leaf]
  BY DEF GroupAdd, TypeOK
<1>2. GroupRemoveMembers(members, parent, i) \in [Group -> SUBSET Leaf]
  BY DEF GroupRemoveMembers, TypeOK
<1>3. GroupRemoveParent(members, parent, i) \in [Leaf -> Group \cup {None}]
  BY DEF GroupRemoveParent, TypeOK
<1> QED  BY <1>1, <1>2, <1>3

\* RemoveItem() of the parent group, or nothing.
LEMMA LeaveGroupType ==
    ASSUME TypeOK, NEW o \in Object, LeaveGroup(o)
    PROVE  members' \in [Group -> SUBSET Leaf] /\ parent' \in [Leaf -> Group \cup {None}]
<1>1. CASE LeavesGroup(o)
  <2>1. o \in Leaf
    BY <1>1 DEF LeavesGroup
  <2>2. GroupRemoveMembers(members, parent, o) \in [Group -> SUBSET Leaf]
    BY <2>1 DEF GroupRemoveMembers, TypeOK
  <2>3. GroupRemoveParent(members, parent, o) \in [Leaf -> Group \cup {None}]
    BY <2>1 DEF GroupRemoveParent, TypeOK
  <2> QED  BY <1>1, <2>2, <2>3 DEF LeaveGroup
<1>2. CASE ~LeavesGroup(o)
  BY <1>2 DEF LeaveGroup, TypeOK
<1> QED  BY <1>1, <1>2

\* SwapItemData() of an object and its image.
LEMMA SwapType ==
    ASSUME TypeOK, NEW o \in Object, NEW image \in Image, Swap(o, image)
    PROVE  /\ data' \in [Leaf -> Value \cup {None}]
           /\ members' \in [Group -> SUBSET Leaf]
           /\ parent' \in [Leaf -> Group \cup {None}]
           /\ view' \subseteq Leaf
           /\ connectivity' \subseteq Connectable
<1>1. data' \in [Leaf -> Value \cup {None}]
  BY DEF Swap, TypeOK, Image
<1>2. members' \in [Group -> SUBSET Leaf]
  BY DEF Swap, TypeOK, Image
<1>3. parent' \in [Leaf -> Group \cup {None}]
  BY DEF Swap, TypeOK, Image
<1>4. view' \subseteq Leaf
  BY DEF Swap, TypeOK
<1>5. connectivity' \subseteq Connectable
  BY DEF Swap, TypeOK
<1> QED  BY <1>1, <1>2, <1>3, <1>4, <1>5

\* The document is one the user can see.
LEMMA DocumentType == ASSUME TypeOK  PROVE Document \in Snapshot /\ present \in Snapshot
<1>1. Document \in Snapshot
  <2>1. [i \in Leaf |-> IF i \in board THEN data[i] ELSE None] \in [Leaf -> Value \cup {None}]
    BY DEF TypeOK
  <2>2. [g \in Group |-> IF g \in board THEN members[g] ELSE {}] \in [Group -> SUBSET Leaf]
    BY DEF TypeOK
  <2>3. [i \in Leaf |-> IF i \in board THEN parent[i] ELSE None] \in [Leaf -> Group \cup {None}]
    BY DEF TypeOK
  <2>4. board \in SUBSET Object
    BY DEF TypeOK
  <2> QED  BY <2>1, <2>2, <2>3, <2>4 DEF Document, Snapshot
<1>2. base \in Snapshot
  BY DEF TypeOK
<1> QED  BY <1>1, <1>2 DEF present

\* A command that is pushed leaves lists of commands: saveCopyInUndoList().
LEMMA SaveType ==
    ASSUME TypeOK, NEW kept \in Seq(Command), NEW cmd \in Command,
           NEW objects \in SUBSET Object, SaveInUndoList(kept, cmd, objects)
    PROVE  /\ undoList' \in Seq(Command)
           /\ redoList' \in Seq(Command)
           /\ allocated' \subseteq Object
<1>1. Newest(Append(kept, cmd)) \in Seq(Command)
  BY NewestAppend
<1>2. undoList' \in Seq(Command)
  BY <1>1 DEF SaveInUndoList
<1>3. redoList' \in Seq(Command)
  BY DEF SaveInUndoList
<1>4. allocated' \subseteq Object
  BY DEF SaveInUndoList
<1> QED  BY <1>2, <1>3, <1>4

\* Staging keeps the types: COMMIT::Stage() and the tools.
LEMMA StagingTypes ==
    ASSUME TypeOK,
           \/ \E i \in Item, v \in Value :
                 ModifyItem(i, v) \/ AddItem(i, v) \/ AddPlacedItem(i, v)
           \/ \E g \in Group, v \in Value : ModifyGroup(g, v)
           \/ \E i \in Leaf : RemoveItem(i) \/ DeleteItem(i) \/ RemoveFromGroup(i)
           \/ \E g \in Group : DeleteGroup(g)
           \/ \E i \in Item : \/ CleanerRemove(i)
                              \/ \E j \in Item, v \in Value : CleanerMerge(i, j, v)
    PROVE  TypeOK'
<1>1. commit \in CommitType
  BY DEF TypeOK, CommitType
<1>2. present \in Snapshot
  BY DocumentType
<1>3. ASSUME NEW i \in Item, NEW v \in Value, ModifyItem(i, v)  PROVE TypeOK'
  <2>1. commit' \in CommitType
    BY <1>1, <1>3, StageType DEF ModifyItem, Object, Leaf
  <2> QED  BY <1>2, <1>3, <2>1 DEF ModifyItem, Stages, TypeOK, CommitType
<1>4. ASSUME NEW i \in Item, NEW v \in Value, AddItem(i, v)  PROVE TypeOK'
  <2>1. commit' \in CommitType
    BY <1>1, <1>4, MakeEntryType DEF AddItem, Object, Leaf
  <2>2. allocated' \subseteq Object /\ parent' \in [Leaf -> Group \cup {None}]
    BY <1>4 DEF AddItem, TypeOK, Object, Leaf
  <2> QED  BY <1>2, <1>4, <2>1, <2>2 DEF AddItem, TypeOK, CommitType
<1>5. ASSUME NEW i \in Item, NEW v \in Value, AddPlacedItem(i, v)  PROVE TypeOK'
  <2>1. commit' \in CommitType
    BY <1>1, <1>5, MakeEntryType DEF AddPlacedItem, Added, Object, Leaf
  <2>2. /\ allocated' \subseteq Object /\ board' \subseteq Object
        /\ connectivity' \subseteq Connectable /\ parent' \in [Leaf -> Group \cup {None}]
    BY <1>5 DEF AddPlacedItem, BoardAdd, TypeOK, Object, Leaf, Connectable
  <2> QED  BY <1>2, <1>5, <2>1, <2>2 DEF AddPlacedItem, BoardAdd, TypeOK, CommitType
<1>6. ASSUME NEW g \in Group, NEW v \in Value, ModifyGroup(g, v)  PROVE TypeOK'
  <2>1. commit' \in CommitType
    BY <1>1, <1>6, StageGroupType DEF ModifyGroup
  <2>2. data' \in [Leaf -> Value \cup {None}]
    BY <1>6 DEF ModifyGroup, TypeOK
  <2> QED  BY <1>2, <1>6, <2>1, <2>2 DEF ModifyGroup, Stages, TypeOK, CommitType
<1>7. ASSUME NEW i \in Leaf, RemoveItem(i)  PROVE TypeOK'
  <2>1. commit' \in CommitType
    BY <1>1, <1>7, MakeEntryType DEF RemoveItem, Object
  <2> QED  BY <1>2, <1>7, <2>1 DEF RemoveItem, Stages, TypeOK, CommitType
<1>8. ASSUME NEW i \in Leaf, DeleteItem(i)  PROVE TypeOK'
  <2>1. i \in Object
    BY DEF Object
  <2>2. commit' \in CommitType
    <3>1. CASE parent[i] = None
      BY <1>1, <1>8, <2>1, <3>1, MakeEntryType DEF DeleteItem
    <3>2. CASE parent[i] # None
      <4>1. parent[i] \in Group
        BY <3>2 DEF TypeOK
      <4>2. PICK children \in ChildOrders(commit, parent[i]) :
               commit' = MakeEntry(StageModifyGroup(commit, parent[i], children),
                                   i, "REMOVE", FALSE)
        BY <1>8, <3>2 DEF DeleteItem
      <4>3. StageModifyGroup(commit, parent[i], children) \in CommitType
        BY <1>1, <4>1, StageGroupType
      <4> QED  BY <2>1, <4>2, <4>3, MakeEntryType
    <3> QED  BY <3>1, <3>2
  <2>3. members' \in [Group -> SUBSET Leaf]
    BY <1>8 DEF DeleteItem, GroupRemoveMembers, TypeOK
  <2>4. parent' \in [Leaf -> Group \cup {None}]
    BY <1>8 DEF DeleteItem, GroupRemoveParent, TypeOK
  <2>5. enteredGroup' \in Group \cup {None}
    BY <1>8 DEF DeleteItem, LeaveEmptyGroup, TypeOK
  <2> QED  BY <1>2, <1>8, <2>2, <2>3, <2>4, <2>5 DEF DeleteItem, Stages, TypeOK, CommitType
<1>9. ASSUME NEW i \in Leaf, RemoveFromGroup(i)  PROVE TypeOK'
  <2>1. parent[i] \in Group
    BY <1>9 DEF RemoveFromGroup, TypeOK
  <2>2. commit' \in CommitType
    BY <1>1, <1>9, <2>1, StageGroupType DEF RemoveFromGroup
  <2>3. members' \in [Group -> SUBSET Leaf]
    BY <1>9 DEF RemoveFromGroup, GroupRemoveMembers, TypeOK
  <2>4. parent' \in [Leaf -> Group \cup {None}]
    BY <1>9 DEF RemoveFromGroup, GroupRemoveParent, TypeOK
  <2> QED  BY <1>2, <1>9, <2>2, <2>3, <2>4 DEF RemoveFromGroup, Stages, TypeOK, CommitType
<1>10. ASSUME NEW g \in Group, DeleteGroup(g)  PROVE TypeOK'
  <2>1. g \in Object /\ members[g] \subseteq Object
    BY DEF Object, TypeOK
  <2>2. PICK order \in SetToSeqs(members[g]) :
           commit' = [lines |-> commit.lines \o RemoveLines(<<g>> \o order),
                      items |-> commit.items \cup {g} \cup members[g]]
    BY <1>10 DEF DeleteGroup
  <2>3. <<g>> \o order \in Seq(Object)
    BY <2>1, MembersOrder, ConcatProperties
  <2>4. RemoveLines(<<g>> \o order) \in Seq(CommitLine)
    BY <2>3, LinesType DEF RemoveLines
  <2>5. commit.lines \o RemoveLines(<<g>> \o order) \in Seq(CommitLine)
    BY <1>1, <2>4, ConcatProperties DEF CommitType
  <2>6. commit' \in CommitType
    BY <1>1, <2>1, <2>2, <2>5 DEF CommitType
  <2> QED  BY <1>2, <1>10, <2>6 DEF DeleteGroup, Stages, TypeOK, CommitType
<1>11. ASSUME NEW i \in Item, CleanerRemove(i)  PROVE TypeOK'
  <2>1. i \in Object
    BY DEF Object, Leaf
  <2>2. commit' \in CommitType
    BY <1>1, <1>11, <2>1, MakeEntryType DEF CleanerRemove, Removed
  <2>3. members' \in [Group -> SUBSET Leaf] /\ parent' \in [Leaf -> Group \cup {None}]
    BY <1>11, <2>1, LeaveGroupType DEF CleanerRemove, BoardRemove
  <2> QED  BY <1>2, <1>11, <2>1, <2>2, <2>3
           DEF CleanerRemove, BoardRemove, Stages, TypeOK, CommitType
<1>12. ASSUME NEW i \in Item, NEW j \in Item, NEW v \in Value, CleanerMerge(i, j, v)
       PROVE  TypeOK'
  <2>1. i \in Object /\ j \in Object /\ i \in Leaf /\ i \in Connectable
    BY DEF Object, Leaf, Connectable
  <2>2. StageModify(commit, i) \in CommitType
    BY <1>1, <2>1, StageType
  <2>3. commit' \in CommitType
    BY <1>12, <2>1, <2>2, MakeEntryType DEF CleanerMerge, Removed
  <2>4. members' \in [Group -> SUBSET Leaf] /\ parent' \in [Leaf -> Group \cup {None}]
    BY <1>12, <2>1, LeaveGroupType DEF CleanerMerge
  <2>5. board' \subseteq Object /\ structDeleted' \subseteq Object /\ connectivity' \subseteq Connectable
    BY <1>12, <2>1 DEF CleanerMerge, TypeOK
  <2>6. data' \in [Leaf -> Value \cup {None}]
    BY <1>12, <2>1 DEF CleanerMerge, TypeOK
  <2>7. /\ Stages("committing") /\ view' = view /\ enteredGroup' = enteredGroup
    BY <1>12 DEF CleanerMerge
  <2> QED  BY <1>2, <2>3, <2>4, <2>5, <2>6, <2>7 DEF Stages, TypeOK, CommitType
<1> QED  BY <1>3, <1>4, <1>5, <1>6, <1>7, <1>8, <1>9, <1>10, <1>11, <1>12

\* A picker of the list that Push() builds.
LEMMA NewPickerType ==
    ASSUME NEW o \in Object, NEW image \in Image, NEW status \in Status,
           status \in {"REGROUP", "UNGROUP"} => o \in Leaf
    PROVE  NewPicker(o, status, image) \in Picker
  BY DEF NewPicker, Picker, Status

\* The line of a commit that the loop is at.
LEMMA CommitLineType ==
    ASSUME TypeOK, NEW k \in 1 .. Len(commit.lines)
    PROVE  /\ commit.lines[k] \in CommitLine
           /\ commit.lines[k].item \in Object
           /\ commit.lines[k].copy \in Image
<1>1. commit.lines \in Seq(CommitLine)
  BY DEF TypeOK
<1>2. commit.lines[k] \in CommitLine
  BY <1>1
<1> QED  BY <1>2 DEF CommitLine

\* Push() records one picker and goes on to the next line.
LEMMA NextLineType ==
    ASSUME TypeOK, idx \in 1 .. Len(commit.lines), NEW image \in Image,
           NEW status \in {"NEWITEM", "DELETED", "CHANGED"},
           NextLine(status, image)
    PROVE  idx' \in Nat /\ list' \in Command
<1>1. commit.lines[idx].item \in Object
  BY CommitLineType
<1>2. NewPicker(commit.lines[idx].item, status, image) \in Picker
  BY <1>1, NewPickerType DEF Status
<1>3. Append(list, NewPicker(commit.lines[idx].item, status, image)) \in Command
  BY <1>2 DEF TypeOK, Command
<1>4. idx' \in Nat
  BY DEF NextLine, TypeOK
<1> QED  BY <1>3, <1>4 DEF NextLine, TypeOK

\* BOARD_COMMIT::Push() keeps the types.
LEMMA PushTypes ==
    ASSUME TypeOK,
           \/ \E flag \in {"push", "append"} : Push(flag)
           \/ RunDrc
           \/ \E t \in Teardrop : RemoveStaleTeardrop(t)
           \/ StaleTeardropsDone
           \/ PushAdd \/ PushRemove \/ PushModify
           \/ LinesDone
           \/ \E i \in Item, v \in Value : PropagateNet(i, v)
           \/ PropagateNothing
           \/ \E t \in Teardrop, v \in Value : CreateTeardrop(t, v)
           \/ TeardropsDone
           \/ PushLate
           \/ PushDone
    PROVE  TypeOK'
<1>1. commit \in CommitType
  BY DEF TypeOK, CommitType
<1>2. NoImage \in Image
  BY DEF NoImage, Image
<1>3. ASSUME NEW flag \in {"push", "append"}, Push(flag)  PROVE TypeOK'
  <2>1. list' \in Command /\ idx' \in Nat
    BY <1>3 DEF Push, Command
  <2> QED  BY <1>3, <2>1 DEF Push, TypeOK, modelVars, historyVars
<1>4. CASE RunDrc
  <2>1. PICK found \in SUBSET (Marker \ allocated) :
          /\ allocated' = (allocated \ (board \cap Marker)) \cup found
          /\ IF found = {}
             THEN pc' = "idle" /\ UNCHANGED <<idx, list, mode, commit, base>>
             ELSE /\ pc' = "stale"
                  /\ idx' = 1
                  /\ list' = << >>
                  /\ mode' = DrcFlags
                  /\ commit' = MakeEntry(commit, CHOOSE m \in found : TRUE, "ADD", FALSE)
                  /\ base' = Document
    BY <1>4 DEF RunDrc
  <2>2. found \subseteq Object /\ allocated' \subseteq Object
    BY <2>1 DEF Object, Leaf, TypeOK
  <2>3. CASE found = {}
    BY <1>4, <2>1, <2>2, <2>3 DEF RunDrc, TypeOK
  <2>4. CASE found # {}
    <3>1. (CHOOSE m \in found : TRUE) \in Object
      BY <2>2, <2>4
    <3>2. commit' \in CommitType
      BY <1>1, <2>1, <2>4, <3>1, MakeEntryType
    <3>3. base' \in Snapshot
      BY <2>1, <2>4, DocumentType
    <3>4. list' = << >> /\ idx' = 1 /\ mode' = "skip" /\ pc' = "stale"
      BY <2>1, <2>4 DEF DrcFlags
    <3>5. list' \in Command /\ idx' \in Nat
      BY <3>4 DEF Command
    <3> QED  BY <1>4, <2>2, <3>2, <3>3, <3>4, <3>5 DEF RunDrc, TypeOK, CommitType
  <2> QED  BY <2>3, <2>4
<1>5. ASSUME NEW t \in Teardrop, RemoveStaleTeardrop(t)  PROVE TypeOK'
  <2>1. t \in Object
    BY DEF Object, Leaf
  <2>2. commit' \in CommitType
    BY <1>1, <1>5, <2>1, MakeEntryType DEF RemoveStaleTeardrop, Removed
  <2>3. members' \in [Group -> SUBSET Leaf] /\ parent' \in [Leaf -> Group \cup {None}]
    BY <1>5, <2>1, LeaveGroupType DEF RemoveStaleTeardrop, BoardRemove
  <2> QED  BY <1>5, <2>1, <2>2, <2>3
           DEF RemoveStaleTeardrop, BoardRemove, TypeOK, CommitType, loopVars, historyVars
<1>6. CASE StaleTeardropsDone
  BY <1>6 DEF StaleTeardropsDone, TypeOK, modelVars, historyVars
<1>7. CASE PushAdd
  <2>1. idx \in 1 .. Len(commit.lines) /\ commit.lines[idx].item \in Object
    BY <1>7, CommitLineType DEF PushAdd, AtLine
  <2>2. idx' \in Nat /\ list' \in Command
    BY <1>2, <1>7, <2>1, NextLineType DEF PushAdd
  <2>3. members' \in [Group -> SUBSET Leaf]
    <3>1. CASE members' = members
      BY <3>1 DEF TypeOK
    <3>2. CASE members' # members
      <4>1. /\ commit.lines[idx].item \in Leaf /\ enteredGroup \in Group
            /\ members' = GroupAdd(members, parent, enteredGroup, commit.lines[idx].item)
        BY <1>7, <3>2 DEF PushAdd, TypeOK, Connectable, Leaf
      <4> QED  BY <4>1, GroupOperatorsType
    <3> QED  BY <3>1, <3>2
  <2>4. parent' \in [Leaf -> Group \cup {None}]
    BY <1>7 DEF PushAdd, TypeOK
  <2> QED  BY <1>7, <2>1, <2>2, <2>3, <2>4 DEF PushAdd, TypeOK, historyVars
<1>8. CASE PushRemove
  <2>1. idx \in 1 .. Len(commit.lines) /\ commit.lines[idx].item \in Object
    BY <1>8, CommitLineType DEF PushRemove, AtLine
  <2>2. idx' \in Nat /\ list' \in Command
    BY <1>2, <1>8, <2>1, NextLineType DEF PushRemove
  <2>3. members' \in [Group -> SUBSET Leaf] /\ parent' \in [Leaf -> Group \cup {None}]
    BY <1>8, <2>1, LeaveGroupType DEF PushRemove
  <2> QED  BY <1>8, <2>2, <2>3 DEF PushRemove, TypeOK, historyVars
<1>9. CASE PushModify
  <2>1. idx \in 1 .. Len(commit.lines) /\ commit.lines[idx].copy \in Image
    BY <1>9, CommitLineType DEF PushModify, AtLine
  <2>2. idx' \in Nat /\ list' \in Command
    BY <1>9, <2>1, NextLineType DEF PushModify
  <2> QED  BY <1>9, <2>2 DEF PushModify, TypeOK, historyVars
<1>10. CASE LinesDone
  BY <1>10 DEF LinesDone, TypeOK, modelVars, historyVars
<1>11. ASSUME NEW i \in Item, NEW v \in Value, PropagateNet(i, v)  PROVE TypeOK'
  <2>1. commit' \in CommitType
    BY <1>1, <1>11, StageType DEF PropagateNet, Object, Leaf
  <2> QED  BY <1>11, <2>1 DEF PropagateNet, TypeOK, CommitType, historyVars
<1>12. CASE PropagateNothing
  BY <1>12 DEF PropagateNothing, TypeOK, modelVars, historyVars
<1>13. ASSUME NEW t \in Teardrop, NEW v \in Value, CreateTeardrop(t, v)  PROVE TypeOK'
  <2>1. t \in Object /\ t \in Leaf /\ t \in Connectable
    BY DEF Object, Leaf, Connectable
  <2>2. commit' \in CommitType
    BY <1>1, <1>13, <2>1, MakeEntryType DEF CreateTeardrop, Added
  <2> QED  BY <1>13, <2>1, <2>2 DEF CreateTeardrop, BoardAdd, TypeOK, CommitType, loopVars, historyVars
<1>14. CASE TeardropsDone
  BY <1>14 DEF TeardropsDone, TypeOK, modelVars, historyVars
<1>15. CASE PushLate
  <2>1. idx \in 1 .. Len(commit.lines) /\ commit.lines[idx] \in CommitLine
    BY <1>15, CommitLineType DEF PushLate
  <2>2. /\ commit.lines[idx].item \in Object /\ commit.lines[idx].copy \in Image
        /\ commit.lines[idx].type \in {"ADD", "REMOVE", "MODIFY"}
    BY <2>1 DEF CommitLine
  <2>3. StatusOfType(commit.lines[idx].type) \in {"NEWITEM", "DELETED", "CHANGED"}
    BY <2>2 DEF StatusOfType
  <2>4. idx' \in Nat /\ list' \in Command
    BY <1>15, <2>1, <2>2, <2>3, NextLineType DEF PushLate
  <2>5. view' \subseteq Leaf
    BY <1>15, <2>2 DEF PushLate, ViewOfLate, TypeOK
  <2> QED  BY <1>15, <2>4, <2>5 DEF PushLate, TypeOK, historyVars
<1>16. CASE PushDone
  <2>1. /\ commit' \in CommitType /\ list' \in Command /\ idx' \in Nat
        /\ pc' = "idle" /\ mode' = "none"
    BY <1>16 DEF PushDone, EmptyCommit, CommitType, Command
  <2>2. undoList \in Seq(Command) /\ list \in Command /\ allocated \in SUBSET Object
    BY DEF TypeOK
  <2>3. /\ undoList' \in Seq(Command) /\ redoList' \in Seq(Command)
        /\ allocated' \subseteq Object
        /\ past' \in Seq(Snapshot) /\ future' \in Seq(Snapshot)
        /\ last' \in {"none", "edit", "amend", "undo", "redo", "rollback"}
    <3>1. CASE mode = "skip"
      BY <1>16, <3>1 DEF PushDone, TypeOK
    <3>2. CASE mode = "append" /\ undoList # << >>
      <4>1. Front(undoList) \in Seq(Command) /\ Last(undoList) \in Command
        BY <2>2, <3>2, FrontLast
      <4>2. Joined(Last(undoList), list) \in Command
        BY <2>2, <4>1, ConcatProperties DEF Joined, Command
      <4>3. /\ SaveInUndoList(Front(undoList), Joined(Last(undoList), list), allocated)
            /\ future' = << >> /\ last' = "amend" /\ UNCHANGED past
        BY <1>16, <3>2 DEF PushDone
      <4>4. /\ undoList' \in Seq(Command) /\ redoList' \in Seq(Command)
            /\ allocated' \subseteq Object
        BY <2>2, <4>1, <4>2, <4>3, SaveType
      <4> QED  BY <4>3, <4>4 DEF TypeOK
    <3>3. CASE mode # "skip" /\ ~(mode = "append" /\ undoList # << >>)
      <4>1. SaveInUndoList(undoList, list, allocated) /\ RecordCommand(base)
        BY <1>16, <3>3 DEF PushDone
      <4>2. /\ undoList' \in Seq(Command) /\ redoList' \in Seq(Command)
            /\ allocated' \subseteq Object
        BY <2>2, <4>1, SaveType
      <4>3. past \in Seq(Snapshot) /\ base \in Snapshot
        BY DEF TypeOK
      <4>4. Newest(Append(past, base)) \in Seq(Snapshot)
        BY <4>3, NewestAppend
      <4> QED  BY <4>1, <4>2, <4>4 DEF RecordCommand, TypeOK
    <3> QED  BY <3>1, <3>2, <3>3
  <2> QED  BY <1>16, <2>1, <2>3 DEF PushDone, TypeOK, CommitType, modelVars
<1> QED  BY <1>3, <1>4, <1>5, <1>6, <1>7, <1>8, <1>9, <1>10, <1>11, <1>12, <1>13,
            <1>14, <1>15, <1>16

\* BOARD_COMMIT::Revert() keeps the types.
LEMMA RevertTypes ==
    ASSUME TypeOK, Revert \/ RevertAdd \/ RevertRemove \/ RevertModify \/ RevertDone
    PROVE  TypeOK'
<1>1. commit.lines \in Seq(CommitLine) /\ Len(commit.lines) \in Nat
  BY DEF TypeOK
<1>2. CASE Revert
  BY <1>1, <1>2 DEF Revert, TypeOK, modelVars, historyVars
<1>3. CASE RevertAdd
  <2>1. idx \in 1 .. Len(commit.lines) /\ commit.lines[idx].item \in Object
    BY <1>3, CommitLineType DEF RevertAdd, AtRevert
  <2>2. idx' \in Nat
    BY <1>3 DEF RevertAdd, AtRevert, TypeOK
  <2>3. members' \in [Group -> SUBSET Leaf] /\ parent' \in [Leaf -> Group \cup {None}]
    <3>1. CASE LeaveGroup(commit.lines[idx].item)
      BY <2>1, <3>1, LeaveGroupType
    <3>2. CASE UNCHANGED <<members, parent>>
      BY <3>2 DEF TypeOK
    <3> QED  BY <1>3, <3>1, <3>2 DEF RevertAdd
  <2>4. board' \subseteq Object /\ view' \subseteq Leaf /\ connectivity' \subseteq Connectable
    BY <1>3 DEF RevertAdd, TypeOK
  <2> QED  BY <1>3, <2>2, <2>3, <2>4 DEF RevertAdd, AtRevert, TypeOK, historyVars
<1>4. CASE RevertRemove
  <2>1. idx \in 1 .. Len(commit.lines) /\ commit.lines[idx].item \in Object
    BY <1>4, CommitLineType DEF RevertRemove, AtRevert
  <2>2. idx' \in Nat
    BY <1>4 DEF RevertRemove, AtRevert, TypeOK
  <2> QED  BY <1>4, <2>1, <2>2 DEF RevertRemove, AtRevert, TypeOK, historyVars
<1>5. CASE RevertModify
  <2>1. /\ idx \in 1 .. Len(commit.lines)
        /\ commit.lines[idx].item \in Object /\ commit.lines[idx].copy \in Image
    BY <1>5, CommitLineType DEF RevertModify, AtRevert
  <2>2. idx' \in Nat
    BY <1>5 DEF RevertModify, AtRevert, TypeOK
  <2>3. /\ data' \in [Leaf -> Value \cup {None}]
        /\ members' \in [Group -> SUBSET Leaf]
        /\ parent' \in [Leaf -> Group \cup {None}]
        /\ view' \subseteq Leaf
        /\ connectivity' \subseteq Connectable
    BY <1>5, <2>1, SwapType DEF RevertModify
  <2> QED  BY <1>5, <2>2, <2>3 DEF RevertModify, AtRevert, TypeOK, historyVars
<1>6. CASE RevertDone
  <2>1. commit' \in CommitType
    BY <1>6 DEF RevertDone, EmptyCommit, CommitType
  <2>2. enteredGroup' \in Group \cup {None} /\ allocated' \subseteq Object
    BY <1>6 DEF RevertDone, RebuildSelection, TypeOK
  <2> QED  BY <1>6, <2>1, <2>2 DEF RevertDone, TypeOK, CommitType, modelVars, historyVars
<1> QED  BY <1>2, <1>3, <1>4, <1>5, <1>6

\* The pickers of one status for a list of objects.
LEMMA PickersType ==
    ASSUME NEW s \in Seq(Leaf), NEW status \in {"REGROUP", "UNGROUP"}
    PROVE  [k \in 1 .. Len(s) |-> NewPicker(s[k], status, NoImage)] \in Command
<1>1. Len(s) \in Nat
  OBVIOUS
<1>2. NoImage \in Image
  BY DEF NoImage, Image
<1>3. \A k \in 1 .. Len(s) : NewPicker(s[k], status, NoImage) \in Picker
  <2> TAKE k \in 1 .. Len(s)
  <2>1. s[k] \in Leaf /\ s[k] \in Object
    BY DEF Object
  <2> QED  BY <1>2, <2>1, NewPickerType DEF Status
<1>4. [k \in 1 .. Len(s) |-> NewPicker(s[k], status, NoImage)] \in [1 .. Len(s) -> Picker]
  BY <1>3
<1> QED  BY <1>1, <1>4, TableType DEF Command

\* What GROUP_TOOL records is a command of pickers.
LEMMA RecordedCommand ==
    ASSUME TypeOK, NEW g \in Group,
           UngroupItems(g) \/ \E items \in SUBSET Item : GroupItems(g, items)
    PROVE  \E cmd \in Command, objects \in SUBSET Object : RecordAtOnce(cmd, objects)
<1>1. NoImage \in Image /\ g \in Object /\ allocated \in SUBSET Object
      /\ allocated \cup {g} \in SUBSET Object
  BY DEF NoImage, Image, Object, TypeOK
<1>2. CASE UngroupItems(g)
  <2>1. PICK order \in SetToSeqs(members[g]) :
          RecordAtOnce([k \in 1 .. Len(order) |-> NewPicker(order[k], "UNGROUP", NoImage)]
                       \o <<NewPicker(g, "DELETED", NoImage)>>, allocated)
    BY <1>2 DEF UngroupItems
  <2> DEFINE pickers == [k \in 1 .. Len(order) |-> NewPicker(order[k], "UNGROUP", NoImage)]
  <2>2. order \in Seq(Leaf)
    BY MembersOrder
  <2>3. pickers \in Seq(Picker)
    BY <2>2, PickersType DEF Command
  <2>4. <<NewPicker(g, "DELETED", NoImage)>> \in Seq(Picker)
    BY <1>1, NewPickerType DEF Status
  <2>5. pickers \o <<NewPicker(g, "DELETED", NoImage)>> \in Command
    BY <2>3, <2>4, ConcatProperties DEF Command
  <2> QED  BY <1>1, <2>1, <2>5
<1>3. ASSUME NEW items \in SUBSET Item, GroupItems(g, items)
      PROVE  \E cmd \in Command, objects \in SUBSET Object : RecordAtOnce(cmd, objects)
  <2>1. PICK order \in SetToSeqs(items) :
          RecordAtOnce(<<NewPicker(g, "NEWITEM", NoImage)>>
                       \o [k \in 1 .. Len(order) |-> NewPicker(order[k], "REGROUP", NoImage)],
                       allocated \cup {g})
    BY <1>3 DEF GroupItems
  <2> DEFINE pickers == [k \in 1 .. Len(order) |-> NewPicker(order[k], "REGROUP", NoImage)]
  <2>2. order \in Seq(Leaf)
    <3>1. items \in SUBSET Object /\ items \in SUBSET Leaf
      BY DEF Object, Leaf
    <3>2. IsFiniteSet(items)
      BY <3>1, KindsAssumption, FS_Subset
    <3> QED  BY <3>1, <3>2, OrderType
  <2>3. pickers \in Seq(Picker)
    BY <2>2, PickersType DEF Command
  <2>4. <<NewPicker(g, "NEWITEM", NoImage)>> \in Seq(Picker)
    BY <1>1, NewPickerType DEF Status
  <2>5. <<NewPicker(g, "NEWITEM", NoImage)>> \o pickers \in Command
    BY <2>3, <2>4, ConcatProperties DEF Command
  <2> QED  BY <1>1, <2>1, <2>5
<1> QED  BY <1>2, <1>3

\* A command that is recorded without a commit.
LEMMA RecordTypes ==
    ASSUME TypeOK, NEW cmd \in Command, NEW objects \in SUBSET Object,
           RecordAtOnce(cmd, objects)
    PROVE  /\ undoList' \in Seq(Command) /\ redoList' \in Seq(Command)
           /\ allocated' \subseteq Object
           /\ past' \in Seq(Snapshot) /\ future' \in Seq(Snapshot)
           /\ last' = "edit"
           /\ UNCHANGED <<commit, loopVars, base>>
<1>1. undoList \in Seq(Command) /\ past \in Seq(Snapshot) /\ Document \in Snapshot
  BY DocumentType DEF TypeOK
<1>2. /\ undoList' \in Seq(Command) /\ redoList' \in Seq(Command)
      /\ allocated' \subseteq Object
  BY <1>1, SaveType DEF RecordAtOnce
<1>3. Newest(Append(past, Document)) \in Seq(Snapshot)
  BY <1>1, NewestAppend
<1>4. past' \in Seq(Snapshot) /\ future' \in Seq(Snapshot) /\ last' = "edit"
  BY <1>3 DEF RecordAtOnce, RecordCommand
<1> QED  BY <1>2, <1>4 DEF RecordAtOnce

\* PCB_SELECTION_TOOL::EnterGroup() and ExitGroup(), GROUP_TOOL::Group() and
\* Ungroup() keep the types.
LEMMA GroupTypes ==
    ASSUME TypeOK,
           \/ \E g \in Group : \/ EnterGroup(g) \/ UngroupItems(g)
                               \/ \E items \in SUBSET Item : GroupItems(g, items)
           \/ ExitGroup
    PROVE  TypeOK'
<1>1. ASSUME NEW g \in Group, EnterGroup(g)  PROVE TypeOK'
  BY <1>1 DEF EnterGroup, TypeOK, modelVars, loopVars, historyVars
<1>2. CASE ExitGroup
  BY <1>2 DEF ExitGroup, TypeOK, modelVars, loopVars, historyVars
<1>3. ASSUME NEW g \in Group,
             UngroupItems(g) \/ \E items \in SUBSET Item : GroupItems(g, items)
      PROVE  /\ undoList' \in Seq(Command) /\ redoList' \in Seq(Command)
             /\ allocated' \subseteq Object
             /\ past' \in Seq(Snapshot) /\ future' \in Seq(Snapshot)
             /\ last' = "edit"
             /\ UNCHANGED <<commit, loopVars, base>>
  <2>1. PICK cmd \in Command, objects \in SUBSET Object : RecordAtOnce(cmd, objects)
    BY <1>3, RecordedCommand
  <2> QED  BY <2>1, RecordTypes
<1>4. ASSUME NEW g \in Group, UngroupItems(g)  PROVE TypeOK'
  <2>1. members' \in [Group -> SUBSET Leaf] /\ parent' \in [Leaf -> Group \cup {None}]
    BY <1>4 DEF UngroupItems, TypeOK
  <2>2. g \in Object
    BY DEF Object
  <2> QED  BY <1>3, <1>4, <2>1, <2>2 DEF UngroupItems, TypeOK, loopVars
<1>5. ASSUME NEW g \in Group, NEW items \in SUBSET Item, GroupItems(g, items)  PROVE TypeOK'
  <2>1. members' \in [Group -> SUBSET Leaf]
    BY <1>5 DEF GroupItems, TypeOK, Leaf
  <2>2. parent' \in [Leaf -> Group \cup {None}]
    BY <1>5 DEF GroupItems, TypeOK
  <2>3. g \in Object
    BY DEF Object
  <2> QED  BY <1>3, <1>5, <2>1, <2>2, <2>3 DEF GroupItems, BoardAdd, TypeOK, loopVars
<1> QED  BY <1>1, <1>2, <1>4, <1>5

\* The picker that PutDataInPreviousState() is at.
LEMMA ListPickerType ==
    ASSUME TypeOK, NEW k \in 1 .. Len(list)
    PROVE  /\ list[k] \in Picker
           /\ list[k].item \in Object
           /\ list[k].link \in Image
           /\ list[k].status \in {"REGROUP", "UNGROUP"} => list[k].item \in Leaf
<1>1. list \in Seq(Picker)
  BY DEF TypeOK, Command
<1>2. list[k] \in Picker
  BY <1>1
<1> QED  BY <1>2 DEF Picker

\* SetPickedItemStatus() and SetPickedItemLink().
LEMMA PickerUpdateType ==
    ASSUME TypeOK, NEW k \in 1 .. Len(list)
    PROVE  /\ \A status \in Status :
                 (status \in {"REGROUP", "UNGROUP"} => list[k].item \in Leaf)
                    => [list EXCEPT ![k].status = status] \in Command
           /\ \A image \in Image : [list EXCEPT ![k].link = image] \in Command
<1>1. list \in Seq(Picker) /\ list[k] \in Picker
  BY ListPickerType DEF TypeOK, Command
<1>2. ASSUME NEW status \in Status, status \in {"REGROUP", "UNGROUP"} => list[k].item \in Leaf
      PROVE  [list EXCEPT ![k].status = status] \in Command
  <2>1. [list[k] EXCEPT !.status = status] \in Picker
    BY <1>1, <1>2 DEF Picker
  <2>2. [list EXCEPT ![k] = [list[k] EXCEPT !.status = status]] \in Seq(Picker)
    BY <1>1, <2>1, ExceptSeq
  <2> QED  BY <2>2 DEF Command
<1>3. ASSUME NEW image \in Image  PROVE [list EXCEPT ![k].link = image] \in Command
  <2>1. [list[k] EXCEPT !.link = image] \in Picker
    BY <1>1 DEF Picker
  <2>2. [list EXCEPT ![k] = [list[k] EXCEPT !.link = image]] \in Seq(Picker)
    BY <1>1, <2>1, ExceptSeq
  <2> QED  BY <2>2 DEF Command
<1> QED  BY <1>2, <1>3

\* While PutDataInPreviousState() runs, one of its three callers waits for it.
PutModes == pc = "put" => mode \in {"undo", "redo", "rollback"}

\* Undo, redo, rollback and PutDataInPreviousState() keep the types.
LEMMA PutTypes ==
    ASSUME TypeOK, PutModes,
           \/ UndoCommand \/ RedoCommand \/ RollbackCommand
           \/ PutMissing \/ PutChanged \/ PutNewItem \/ PutDeleted \/ PutRegroup
           \/ PutUngroup \/ PutDone
    PROVE  TypeOK'
<1>1. undoList \in Seq(Command) /\ redoList \in Seq(Command) /\ list \in Command
  BY DEF TypeOK
<1>2. ASSUME NEW cmd \in Command, NEW what \in {"undo", "redo", "rollback"}, BeginPut(cmd, what)
      PROVE  /\ pc' = "put" /\ mode' = what /\ list' \in Command /\ idx' \in Nat
             /\ lastGroup' = None /\ base' \in Snapshot
             /\ UNCHANGED <<modelVars, allocated, enteredGroup, commit, past, future, last>>
  BY <1>2, DocumentType DEF BeginPut, Command
<1>3. CASE UndoCommand
  <2>1. Last(undoList) \in Command /\ undoList' \in Seq(Command)
    BY <1>1, <1>3, FrontLast DEF UndoCommand
  <2> QED  BY <1>2, <1>3, <2>1 DEF UndoCommand, TypeOK, modelVars
<1>4. CASE RedoCommand
  <2>1. Last(redoList) \in Command /\ redoList' \in Seq(Command)
    BY <1>1, <1>4, FrontLast DEF RedoCommand
  <2> QED  BY <1>2, <1>4, <2>1 DEF RedoCommand, TypeOK, modelVars
<1>5. CASE RollbackCommand
  <2>1. Last(undoList) \in Command /\ undoList' \in Seq(Command)
    BY <1>1, <1>5, FrontLast DEF RollbackCommand
  <2> QED  BY <1>2, <1>5, <2>1 DEF RollbackCommand, TypeOK, modelVars
<1>6. CASE PutMissing
  <2>1. idx \in 1 .. Len(list) /\ idx' \in Nat
    BY <1>6 DEF PutMissing, TypeOK
  <2>2. list' \in Command
    BY <1>1, <1>6, <2>1, TakeOut DEF PutMissing, Command
  <2> QED  BY <1>6, <2>1, <2>2 DEF PutMissing, TypeOK, modelVars, historyVars
<1>7. ASSUME NEW statuses, AtPicker(statuses)
      PROVE  /\ idx \in 1 .. Len(list) /\ idx' \in Nat /\ list[idx].item \in Object
             /\ list[idx].link \in Image
             /\ UNCHANGED <<allocated, enteredGroup, commit, undoList, redoList, pc, mode,
                            historyVars>>
  <2>1. idx \in 1 .. Len(list)
    BY <1>7 DEF AtPicker
  <2>2. idx' \in Nat
    BY <1>7, <2>1 DEF AtPicker, TypeOK
  <2> QED  BY <1>7, <2>1, <2>2, ListPickerType DEF AtPicker
<1>8. CASE PutChanged
  <2>1. /\ idx \in 1 .. Len(list) /\ idx' \in Nat /\ list[idx].item \in Object
        /\ list[idx].link \in Image
        /\ UNCHANGED <<allocated, enteredGroup, commit, undoList, redoList, pc, mode,
                       historyVars>>
    BY <1>7, <1>8 DEF PutChanged
  <2>2. ImageOf(list[idx].item) \in Image
    BY <2>1 DEF ImageOf, Image, TypeOK, Object
  <2>3. list' \in Command
    BY <1>8, <2>1, <2>2, PickerUpdateType DEF PutChanged
  <2>4. /\ data' \in [Leaf -> Value \cup {None}]
        /\ members' \in [Group -> SUBSET Leaf]
        /\ parent' \in [Leaf -> Group \cup {None}]
        /\ view' \subseteq Leaf
        /\ connectivity' \subseteq Connectable
    BY <1>8, <2>1, SwapType DEF PutChanged
  <2>5. lastGroup' \in Group \cup {None}
    BY <1>8 DEF PutChanged, TypeOK
  <2> QED  BY <1>8, <2>1, <2>3, <2>4, <2>5 DEF PutChanged, TypeOK, historyVars
<1>9. CASE PutNewItem
  <2>1. /\ idx \in 1 .. Len(list) /\ idx' \in Nat /\ list[idx].item \in Object
        /\ UNCHANGED <<allocated, enteredGroup, commit, undoList, redoList, pc, mode,
                       historyVars>>
    BY <1>7, <1>9 DEF PutNewItem
  <2>2. list' \in Command
    BY <1>9, <2>1, PickerUpdateType DEF PutNewItem, SetStatus, Status
  <2>3. members' \in [Group -> SUBSET Leaf] /\ parent' \in [Leaf -> Group \cup {None}]
    BY <1>9, <2>1, LeaveGroupType DEF PutNewItem, BoardRemove
  <2> QED  BY <1>9, <2>1, <2>2, <2>3 DEF PutNewItem, BoardRemove, TypeOK, historyVars
<1>10. CASE PutDeleted
  <2>1. /\ idx \in 1 .. Len(list) /\ idx' \in Nat /\ list[idx].item \in Object
        /\ UNCHANGED <<allocated, enteredGroup, commit, undoList, redoList, pc, mode,
                       historyVars>>
    BY <1>7, <1>10 DEF PutDeleted
  <2>2. list' \in Command
    BY <1>10, <2>1, PickerUpdateType DEF PutDeleted, SetStatus, Status
  <2>3. lastGroup' \in Group \cup {None}
    BY <1>10 DEF PutDeleted, BoardAdd, TypeOK
  <2> QED  BY <1>10, <2>1, <2>2, <2>3 DEF PutDeleted, BoardAdd, TypeOK, historyVars
<1>11. CASE PutRegroup
  <2>1. /\ idx \in 1 .. Len(list) /\ idx' \in Nat
        /\ UNCHANGED <<allocated, enteredGroup, commit, undoList, redoList, pc, mode,
                       historyVars>>
    BY <1>7, <1>11 DEF PutRegroup
  <2>2. list[idx].item \in Leaf
    BY <1>11, <2>1, ListPickerType DEF PutRegroup, AtPicker
  <2>3. list' \in Command
    BY <1>11, <2>2, <2>1, PickerUpdateType DEF PutRegroup, SetStatus, Status
  <2>4. parent' \in [Leaf -> Group \cup {None}]
    BY <1>11 DEF PutRegroup, TypeOK
  <2> QED  BY <1>11, <2>1, <2>3, <2>4 DEF PutRegroup, TypeOK, historyVars
<1>12. CASE PutUngroup
  <2>1. /\ idx \in 1 .. Len(list) /\ idx' \in Nat
        /\ UNCHANGED <<allocated, enteredGroup, commit, undoList, redoList, pc, mode,
                       historyVars>>
    BY <1>7, <1>12 DEF PutUngroup
  <2>2. list[idx].item \in Leaf
    BY <1>12, <2>1, ListPickerType DEF PutUngroup, AtPicker
  <2>3. list' \in Command
    BY <1>12, <2>2, <2>1, PickerUpdateType DEF PutUngroup, SetStatus, Status
  <2>4. members' \in [Group -> SUBSET Leaf]
    <3>1. CASE lastGroup = None
      BY <1>12, <3>1 DEF PutUngroup, TypeOK
    <3>2. CASE lastGroup # None
      <4>1. lastGroup \in Group /\ members' = GroupAdd(members, parent, lastGroup, list[idx].item)
        BY <1>12, <3>2 DEF PutUngroup, TypeOK
      <4> QED  BY <2>2, <4>1, GroupOperatorsType
    <3> QED  BY <3>1, <3>2
  <2>5. parent' \in [Leaf -> Group \cup {None}]
    BY <1>12 DEF PutUngroup, TypeOK
  <2> QED  BY <1>12, <2>1, <2>3, <2>4, <2>5 DEF PutUngroup, TypeOK, historyVars
<1>13. CASE PutDone
  <2>1. /\ list' \in Command /\ lastGroup' \in Group \cup {None} /\ pc' = "idle" /\ mode' = "none"
        /\ enteredGroup' \in Group \cup {None}
    BY <1>13 DEF PutDone, RebuildSelection, TypeOK, Command
  <2>2. Reverse(list) \in Command
    BY <1>1, ReverseType DEF Command
  <2>3. /\ Newest(Append(redoList, Reverse(list))) \in Seq(Command)
        /\ Newest(Append(undoList, Reverse(list))) \in Seq(Command)
    BY <1>1, <2>2, NewestAppend
  <2>4. past \in Seq(Snapshot) /\ future \in Seq(Snapshot) /\ base \in Snapshot
    BY DEF TypeOK
  <2>5. /\ Newest(Append(future, base)) \in Seq(Snapshot)
        /\ Newest(Append(past, base)) \in Seq(Snapshot)
    BY <2>4, NewestAppend
  <2>6. Front(past) \in Seq(Snapshot) /\ Front(future) \in Seq(Snapshot)
    BY <2>4, FrontType
  <2>7. /\ undoList' \in Seq(Command) /\ redoList' \in Seq(Command)
        /\ allocated' \subseteq Object
        /\ past' \in Seq(Snapshot) /\ future' \in Seq(Snapshot)
        /\ last' \in {"undo", "redo", "rollback"}
    <3>1. CASE mode = "undo"
      BY <1>13, <2>3, <2>5, <2>6, <3>1 DEF PutDone, TypeOK
    <3>2. CASE mode = "redo"
      BY <1>13, <2>3, <2>5, <2>6, <3>2 DEF PutDone, TypeOK
    <3>3. CASE mode = "rollback"
      BY <1>13, <2>6, <3>3 DEF PutDone, TypeOK
    <3>4. mode \in {"undo", "redo", "rollback"}
      BY <1>13 DEF PutDone, PutModes
    <3> QED  BY <3>1, <3>2, <3>3, <3>4
  <2> QED  BY <1>13, <2>1, <2>7 DEF PutDone, TypeOK, modelVars
<1> QED  BY <1>3, <1>4, <1>5, <1>6, <1>8, <1>9, <1>10, <1>11, <1>12, <1>13

\* Only the callers of PutDataInPreviousState() begin it.
LEMMA PutModesKept == ASSUME TypeOK, PutModes, [Next]_vars  PROVE PutModes'
<1>1. CASE UNCHANGED vars
  BY <1>1 DEF vars, PutModes
<1>2. CASE UserStep
  BY <1>2 DEF UserStep, PutModes, ModifyItem, Stages, AddItem, AddPlacedItem, ModifyGroup,
     RemoveItem, DeleteItem, RemoveFromGroup, DeleteGroup, EnterGroup, UngroupItems,
     GroupItems, RecordAtOnce, CleanerRemove, CleanerMerge, Push, Revert, RunDrc, ExitGroup,
     UndoCommand, RedoCommand, RollbackCommand, BeginPut, loopVars
<1>3. CASE ProgramStep
  BY <1>3 DEF ProgramStep, PutModes, RemoveStaleTeardrop, StaleTeardropsDone, PushAdd,
     PushRemove, PushModify, LinesDone, PropagateNet, PropagateNothing, CreateTeardrop,
     TeardropsDone, PushLate, PushDone, RevertAdd, RevertRemove, RevertModify, AtRevert,
     RevertDone, PutMissing, PutChanged, PutNewItem, PutDeleted, PutRegroup, PutUngroup,
     AtPicker, PutDone, loopVars
<1> QED  BY <1>1, <1>2, <1>3 DEF Next

\* Every index, list, picker and copy has its type: inductive with PutModes.
THEOREM TypeInvariant == Spec => [](TypeOK /\ PutModes)
<1>1. Init => TypeOK /\ PutModes
  <2> SUFFICES ASSUME Init  PROVE TypeOK /\ PutModes
    OBVIOUS
  <2>1. /\ board \subseteq Object /\ view \subseteq Leaf /\ connectivity \subseteq Connectable
        /\ allocated \subseteq Object /\ structDeleted \subseteq Object
    BY InitAssumption DEF Init
  <2>2. data \in [Leaf -> Value \cup {None}]
    BY DEF Init
  <2>3. members \in [Group -> SUBSET Leaf]
    BY InitAssumption DEF Init, Leaf
  <2>4. parent \in [Leaf -> Group \cup {None}]
    BY DEF Init
  <2>5. commit \in CommitType
    BY DEF Init, EmptyCommit, CommitType
  <2>6. undoList \in Seq(Command) /\ redoList \in Seq(Command) /\ list \in Command
    BY DEF Init, Command
  <2>7. base \in Snapshot
    <3>1. base = Document
      BY DEF Init
    <3>2. [i \in Leaf |-> IF i \in board THEN data[i] ELSE None] \in [Leaf -> Value \cup {None}]
      BY <2>2
    <3>3. [g \in Group |-> IF g \in board THEN members[g] ELSE {}] \in [Group -> SUBSET Leaf]
      BY <2>3
    <3>4. [i \in Leaf |-> IF i \in board THEN parent[i] ELSE None] \in [Leaf -> Group \cup {None}]
      BY <2>4
    <3> QED  BY <2>1, <3>1, <3>2, <3>3, <3>4 DEF Document, Snapshot
  <2>8. past \in Seq(Snapshot) /\ future \in Seq(Snapshot)
    BY DEF Init
  <2>9. /\ enteredGroup = None /\ lastGroup = None /\ pc = "idle" /\ idx = 0
        /\ mode = "none" /\ last = "none"
    BY DEF Init
  <2> QED  BY <2>1, <2>2, <2>3, <2>4, <2>5, <2>6, <2>7, <2>8, <2>9
           DEF TypeOK, PutModes, CommitType
<1>2. TypeOK /\ PutModes /\ [Next]_vars => (TypeOK /\ PutModes)'
  <2> SUFFICES ASSUME TypeOK, PutModes, [Next]_vars  PROVE TypeOK'
    BY PutModesKept
  <2>1. CASE UserStep
    BY <2>1, StagingTypes, PushTypes, RevertTypes, GroupTypes, PutTypes DEF UserStep
  <2>2. CASE ProgramStep
    BY <2>2, PushTypes, RevertTypes, PutTypes DEF ProgramStep
  <2>3. CASE UNCHANGED vars
    BY <2>3 DEF vars, TypeOK
  <2> QED  BY <2>1, <2>2, <2>3 DEF Next
<1> QED  BY <1>1, <1>2, PTL DEF Spec

\* The board editor's state is what its declarations say, whatever the tools do
\* and the user undoes: the type invariant of COMMIT, the undo lists and the
\* loops of Push(), Revert() and PutDataInPreviousState().
THEOREM TypeCorrect == Spec => []TypeOK
  BY TypeInvariant, PTL

------------------------------------------------------------------------------
(* The undo and redo lists and the history the user expects are of the     *)
(* same length.  While a command is being undone or redone it is in        *)
(* neither list.                                                           *)

ListLengths ==
    /\ Len(past) = Len(undoList) + (IF pc = "put" /\ mode # "redo" THEN 1 ELSE 0)
    /\ Len(future) = Len(redoList) + (IF pc = "put" /\ mode = "redo" THEN 1 ELSE 0)
    /\ MaxUndo > 0 => Len(past) + Len(future) <= MaxUndo

\* The lists have lengths.
LEMMA LengthsAreNat ==
    ASSUME TypeOK
    PROVE  /\ Len(undoList) \in Nat /\ Len(redoList) \in Nat
           /\ Len(past) \in Nat /\ Len(future) \in Nat
           /\ MaxUndo \in Nat
  BY BoundsAssumption DEF TypeOK

\* What does not touch the lists keeps their lengths.
LEMMA LengthsUnchanged ==
    ASSUME ListLengths, UNCHANGED <<undoList, redoList, past, future>>,
           \/ pc # "put" /\ pc' # "put"
           \/ UNCHANGED <<pc, mode>>
    PROVE  ListLengths'
  BY DEF ListLengths

\* A command that is pushed: saveCopyInUndoList() and the history.
LEMMA LengthsAfterSave ==
    ASSUME TypeOK, ListLengths, pc # "put", pc' # "put",
           NEW cmd \in Command, NEW objects, NEW doc \in Snapshot,
           SaveInUndoList(undoList, cmd, objects), RecordCommand(doc)
    PROVE  ListLengths'
<1>1. undoList \in Seq(Command) /\ past \in Seq(Snapshot)
  BY DEF TypeOK
<1>2. Len(Newest(Append(undoList, cmd))) =
         IF MaxUndo > 0 /\ Len(undoList) + 1 > MaxUndo THEN MaxUndo ELSE Len(undoList) + 1
  BY <1>1, NewestAppend
<1>3. Len(Newest(Append(past, doc))) =
         IF MaxUndo > 0 /\ Len(past) + 1 > MaxUndo THEN MaxUndo ELSE Len(past) + 1
  BY <1>1, NewestAppend
<1>4. Len(redoList') = 0 /\ Len(future') = 0
  BY DEF SaveInUndoList, RecordCommand
<1>5. Len(past) = Len(undoList)
  BY LengthsAreNat DEF ListLengths
<1>6. Len(undoList') = Len(past') /\ (MaxUndo > 0 => Len(past') <= MaxUndo) /\ Len(past') \in Nat
  BY <1>2, <1>3, <1>5, LengthsAreNat DEF SaveInUndoList, RecordCommand
<1> QED  BY <1>4, <1>6, LengthsAreNat DEF ListLengths

\* AppendCopyToUndoList(): the number of commands does not change.
LEMMA LengthsAfterJoin ==
    ASSUME TypeOK, ListLengths, pc # "put", pc' # "put", undoList # << >>,
           NEW cmd \in Command, NEW objects,
           SaveInUndoList(Front(undoList), cmd, objects), future' = << >>, UNCHANGED past
    PROVE  ListLengths'
<1>1. undoList \in Seq(Command)
  BY DEF TypeOK
<1>2. Front(undoList) \in Seq(Command) /\ Len(Front(undoList)) = Len(undoList) - 1
  BY <1>1, FrontLast
<1>3. Len(Newest(Append(Front(undoList), cmd))) =
         IF MaxUndo > 0 /\ Len(Front(undoList)) + 1 > MaxUndo
         THEN MaxUndo ELSE Len(Front(undoList)) + 1
  BY <1>2, NewestAppend
<1>4. Len(past) = Len(undoList) /\ (MaxUndo > 0 => Len(past) <= MaxUndo)
  BY LengthsAreNat DEF ListLengths
<1>5. Len(undoList') = Len(past)
  BY <1>2, <1>3, <1>4, LengthsAreNat DEF SaveInUndoList
<1>6. Len(redoList') = 0 /\ Len(future') = 0
  BY DEF SaveInUndoList
<1> QED  BY <1>4, <1>5, <1>6, LengthsAreNat DEF ListLengths

\* A command is taken off a list: RestoreCopyFromUndoList(),
\* RestoreCopyFromRedoList(), RollbackFromUndo().
LEMMA LengthsAfterBegin ==
    ASSUME TypeOK, ListLengths, UndoCommand \/ RedoCommand \/ RollbackCommand
    PROVE  ListLengths'
<1>1. undoList \in Seq(Command) /\ redoList \in Seq(Command)
  BY DEF TypeOK
<1>2. Len(past) = Len(undoList) /\ Len(future) = Len(redoList)
  BY LengthsAreNat DEF ListLengths, UndoCommand, RedoCommand, RollbackCommand, BeginPut
<1>3. CASE UndoCommand
  <2>1. Len(undoList') = Len(undoList) - 1
    BY <1>1, <1>3, FrontLast DEF UndoCommand
  <2> QED  BY <1>2, <1>3, <2>1, LengthsAreNat DEF UndoCommand, BeginPut, ListLengths
<1>4. CASE RedoCommand
  <2>1. Len(redoList') = Len(redoList) - 1
    BY <1>1, <1>4, FrontLast DEF RedoCommand
  <2> QED  BY <1>2, <1>4, <2>1, LengthsAreNat DEF RedoCommand, BeginPut, ListLengths
<1>5. CASE RollbackCommand
  <2>1. Len(undoList') = Len(undoList) - 1
    BY <1>1, <1>5, FrontLast DEF RollbackCommand
  <2> QED  BY <1>2, <1>5, <2>1, LengthsAreNat DEF RollbackCommand, BeginPut, ListLengths
<1> QED  BY <1>3, <1>4, <1>5

\* The command goes to the other list, or is freed.
LEMMA LengthsAfterPut ==
    ASSUME TypeOK, PutModes, ListLengths, PutDone
    PROVE  ListLengths'
<1>1. /\ undoList \in Seq(Command) /\ redoList \in Seq(Command) /\ Reverse(list) \in Command
      /\ past \in Seq(Snapshot) /\ future \in Seq(Snapshot) /\ base \in Snapshot
  BY ReverseType DEF TypeOK, Command
<1>2. pc = "put" /\ pc' = "idle" /\ mode \in {"undo", "redo", "rollback"}
  BY DEF PutDone, PutModes
<1>3. CASE mode = "undo"
  <2>1. /\ redoList' = Newest(Append(redoList, Reverse(list))) /\ undoList' = undoList
        /\ past' = Front(past) /\ future' = Newest(Append(future, base))
    BY <1>3 DEF PutDone
  <2>2. Len(redoList') = IF MaxUndo > 0 /\ Len(redoList) + 1 > MaxUndo
                         THEN MaxUndo ELSE Len(redoList) + 1
    BY <1>1, <2>1, NewestAppend
  <2>3. Len(future') = IF MaxUndo > 0 /\ Len(future) + 1 > MaxUndo
                       THEN MaxUndo ELSE Len(future) + 1
    BY <1>1, <2>1, NewestAppend
  <2>4. Len(past) = Len(undoList) + 1 /\ Len(future) = Len(redoList)
    BY <1>2, <1>3, LengthsAreNat DEF ListLengths
  <2>5. Len(past') = Len(past) - 1
    <3>1. past # << >>
      BY <2>4, LengthsAreNat
    <3> QED  BY <1>1, <2>1, <3>1, FrontLast
  <2>6. MaxUndo > 0 => Len(past) + Len(future) <= MaxUndo
    BY DEF ListLengths
  <2>7. /\ Len(past') = Len(undoList') /\ Len(future') = Len(redoList')
        /\ MaxUndo > 0 => Len(past') + Len(future') <= MaxUndo
    BY <2>1, <2>2, <2>3, <2>4, <2>5, <2>6, LengthsAreNat
  <2> QED  BY <1>2, <2>1, <2>4, <2>5, <2>7, LengthsAreNat DEF ListLengths
<1>4. CASE mode = "redo"
  <2>1. /\ undoList' = Newest(Append(undoList, Reverse(list))) /\ redoList' = redoList
        /\ future' = Front(future) /\ past' = Newest(Append(past, base))
    BY <1>4 DEF PutDone
  <2>2. Len(undoList') = IF MaxUndo > 0 /\ Len(undoList) + 1 > MaxUndo
                         THEN MaxUndo ELSE Len(undoList) + 1
    BY <1>1, <2>1, NewestAppend
  <2>3. Len(past') = IF MaxUndo > 0 /\ Len(past) + 1 > MaxUndo
                     THEN MaxUndo ELSE Len(past) + 1
    BY <1>1, <2>1, NewestAppend
  <2>4. Len(future) = Len(redoList) + 1 /\ Len(past) = Len(undoList)
    BY <1>2, <1>4, LengthsAreNat DEF ListLengths
  <2>5. Len(future') = Len(future) - 1
    <3>1. future # << >>
      BY <2>4, LengthsAreNat
    <3> QED  BY <1>1, <2>1, <3>1, FrontLast
  <2>6. MaxUndo > 0 => Len(past) + Len(future) <= MaxUndo
    BY DEF ListLengths
  <2>7. /\ Len(past') = Len(undoList') /\ Len(future') = Len(redoList')
        /\ MaxUndo > 0 => Len(past') + Len(future') <= MaxUndo
    BY <2>1, <2>2, <2>3, <2>4, <2>5, <2>6, LengthsAreNat
  <2> QED  BY <1>2, <2>1, <2>4, <2>5, <2>7, LengthsAreNat DEF ListLengths
<1>5. CASE mode = "rollback"
  <2>1. UNCHANGED <<undoList, redoList, future>> /\ past' = Front(past)
    BY <1>5 DEF PutDone
  <2>2. Len(past) = Len(undoList) + 1 /\ Len(future) = Len(redoList)
    BY <1>2, <1>5, LengthsAreNat DEF ListLengths
  <2>3. Len(past') = Len(past) - 1
    <3>1. past # << >>
      BY <2>2, LengthsAreNat
    <3> QED  BY <1>1, <2>1, <3>1, FrontLast
  <2>4. MaxUndo > 0 => Len(past) + Len(future) <= MaxUndo
    BY DEF ListLengths
  <2>5. /\ Len(past') = Len(undoList') /\ Len(future') = Len(redoList')
        /\ MaxUndo > 0 => Len(past') + Len(future') <= MaxUndo
    BY <2>1, <2>2, <2>3, <2>4, LengthsAreNat
  <2>6. Len(past') \in Nat /\ Len(future') \in Nat
    BY <2>1, <2>2, <2>3, LengthsAreNat
  <2> QED  BY <1>2, <2>5, <2>6 DEF ListLengths
<1> QED  BY <1>2, <1>3, <1>4, <1>5

\* GROUP_TOOL::Group() and Ungroup()
LEMMA GroupLengths ==
    ASSUME TypeOK, ListLengths, NEW g \in Group,
           UngroupItems(g) \/ \E items \in SUBSET Item : GroupItems(g, items)
    PROVE  ListLengths'
<1>1. pc # "put" /\ pc' # "put"
  BY DEF UngroupItems, GroupItems, RecordAtOnce, loopVars
<1>2. PICK cmd \in Command, objects \in SUBSET Object : RecordAtOnce(cmd, objects)
  BY RecordedCommand
<1>3. Document \in Snapshot
  BY DocumentType
<1> QED  BY <1>1, <1>2, <1>3, LengthsAfterSave DEF RecordAtOnce

\* Every step keeps the lengths.
LEMMA LengthsKept ==
    ASSUME TypeOK, PutModes, ListLengths, [Next]_vars
    PROVE  ListLengths'
<1>1. CASE UNCHANGED vars
  BY <1>1, LengthsUnchanged DEF vars
<1>2. ASSUME \/ \E i \in Item, v \in Value :
                   ModifyItem(i, v) \/ AddItem(i, v) \/ AddPlacedItem(i, v)
             \/ \E g \in Group, v \in Value : ModifyGroup(g, v)
             \/ \E i \in Leaf : RemoveItem(i) \/ DeleteItem(i) \/ RemoveFromGroup(i)
             \/ \E g \in Group : DeleteGroup(g) \/ EnterGroup(g)
             \/ \E i \in Item : \/ CleanerRemove(i)
                                \/ \E j \in Item, v \in Value : CleanerMerge(i, j, v)
             \/ \E flag \in {"push", "append"} : Push(flag)
             \/ Revert \/ RunDrc \/ ExitGroup
      PROVE  ListLengths'
  <2>1. UNCHANGED <<undoList, redoList, past, future>>
    BY <1>2 DEF ModifyItem, Stages, AddItem, AddPlacedItem, ModifyGroup, RemoveItem, DeleteItem,
       RemoveFromGroup, DeleteGroup, EnterGroup, CleanerRemove, CleanerMerge, Push, Revert,
       RunDrc, ExitGroup, historyVars
  <2>2. pc # "put" /\ pc' # "put"
    BY <1>2 DEF ModifyItem, Stages, AddItem, AddPlacedItem, ModifyGroup, RemoveItem, DeleteItem,
       RemoveFromGroup, DeleteGroup, EnterGroup, CleanerRemove, CleanerMerge, Push, Revert,
       RunDrc, ExitGroup, loopVars
  <2> QED  BY <2>1, <2>2, LengthsUnchanged
<1>3. ASSUME \/ \E t \in Teardrop : RemoveStaleTeardrop(t)
             \/ StaleTeardropsDone
             \/ PushAdd \/ PushRemove \/ PushModify
             \/ LinesDone
             \/ \E i \in Item, v \in Value : PropagateNet(i, v)
             \/ PropagateNothing
             \/ \E t \in Teardrop, v \in Value : CreateTeardrop(t, v)
             \/ TeardropsDone
             \/ PushLate
             \/ RevertAdd \/ RevertRemove \/ RevertModify \/ RevertDone
      PROVE  ListLengths'
  <2>1. UNCHANGED <<undoList, redoList, past, future>>
    BY <1>3 DEF RemoveStaleTeardrop, StaleTeardropsDone, PushAdd, PushRemove, PushModify,
       LinesDone, PropagateNet, PropagateNothing, CreateTeardrop, TeardropsDone, PushLate,
       RevertAdd, RevertRemove, RevertModify, AtRevert, RevertDone, historyVars
  <2>2. pc # "put" /\ pc' # "put"
    BY <1>3 DEF RemoveStaleTeardrop, StaleTeardropsDone, PushAdd, PushRemove, PushModify, AtLine,
       LinesDone, PropagateNet, PropagateNothing, CreateTeardrop, TeardropsDone, PushLate,
       RevertAdd, RevertRemove, RevertModify, AtRevert, RevertDone, loopVars
  <2> QED  BY <2>1, <2>2, LengthsUnchanged
<1>4. CASE PutMissing \/ PutChanged \/ PutNewItem \/ PutDeleted \/ PutRegroup \/ PutUngroup
  BY <1>4, LengthsUnchanged DEF PutMissing, PutChanged, PutNewItem, PutDeleted, PutRegroup,
     PutUngroup, AtPicker, historyVars
<1>5. CASE PushDone
  <2>1. pc # "put" /\ pc' # "put" /\ list \in Command /\ base \in Snapshot
    BY <1>5 DEF PushDone, TypeOK
  <2>2. CASE mode = "skip"
    BY <1>5, <2>1, <2>2, LengthsUnchanged DEF PushDone
  <2>3. CASE mode = "append" /\ undoList # << >>
    <3>1. /\ SaveInUndoList(Front(undoList), Joined(Last(undoList), list), allocated)
          /\ future' = << >> /\ UNCHANGED past
      BY <1>5, <2>3 DEF PushDone
    <3>2. Joined(Last(undoList), list) \in Command
      <4>1. undoList \in Seq(Command)
        BY DEF TypeOK
      <4>2. Last(undoList) \in Command
        BY <2>3, <4>1, FrontLast
      <4> QED  BY <2>1, <4>2, ConcatProperties DEF Joined, Command
    <3> QED  BY <2>1, <2>3, <3>1, <3>2, LengthsAfterJoin
  <2>4. CASE mode # "skip" /\ ~(mode = "append" /\ undoList # << >>)
    <3>1. SaveInUndoList(undoList, list, allocated) /\ RecordCommand(base)
      BY <1>5, <2>4 DEF PushDone
    <3> QED  BY <2>1, <3>1, LengthsAfterSave
  <2> QED  BY <2>2, <2>3, <2>4
<1>6. CASE UndoCommand \/ RedoCommand \/ RollbackCommand
  BY <1>6, LengthsAfterBegin
<1>7. CASE PutDone
  BY <1>7, LengthsAfterPut
<1>8. ASSUME NEW g \in Group, UngroupItems(g) \/ \E items \in SUBSET Item : GroupItems(g, items)
      PROVE  ListLengths'
  BY <1>8, GroupLengths
<1>9. CASE UserStep
  BY <1>2, <1>6, <1>8, <1>9 DEF UserStep
<1>10. CASE ProgramStep
  BY <1>3, <1>4, <1>5, <1>7, <1>10 DEF ProgramStep
<1> QED  BY <1>1, <1>9, <1>10 DEF Next

\* The undo and redo lists together never keep more commands than the limit that
\* PushCommandToUndoList() and PushCommandToRedoList() apply to each of them
\* alone, joined and rolled back commands included; and each list is as long as
\* the history the user expects.
THEOREM HistoryLimit == Spec => []HistoryWithinLimit
<1>1. Init => ListLengths
  BY BoundsAssumption DEF Init, ListLengths
<1>2. TypeOK /\ PutModes /\ ListLengths /\ [Next]_vars => ListLengths'
  BY LengthsKept
<1>3. TypeOK /\ ListLengths => HistoryWithinLimit
  <2> SUFFICES ASSUME TypeOK, ListLengths  PROVE HistoryWithinLimit
    OBVIOUS
  <2>1. /\ Len(past) \in Nat /\ Len(future) \in Nat /\ Len(undoList) \in Nat
        /\ Len(redoList) \in Nat /\ MaxUndo \in Nat
    BY LengthsAreNat
  <2>2. /\ Len(past) = Len(undoList) + (IF pc = "put" /\ mode # "redo" THEN 1 ELSE 0)
        /\ Len(future) = Len(redoList) + (IF pc = "put" /\ mode = "redo" THEN 1 ELSE 0)
    BY DEF ListLengths
  <2>3. pc = "idle" => Len(undoList) = Len(past) /\ Len(redoList) = Len(future)
    BY <2>1, <2>2
  <2>4. Len(undoList) <= Len(past) /\ Len(redoList) <= Len(future)
    BY <2>1, <2>2
  <2>5. MaxUndo > 0 => Len(past) + Len(future) <= MaxUndo
    BY DEF ListLengths
  <2>6. MaxUndo > 0 => Len(undoList) + Len(redoList) <= MaxUndo
    BY <2>1, <2>4, <2>5
  <2> QED  BY <2>3, <2>6 DEF HistoryWithinLimit
<1> QED  BY <1>1, <1>2, <1>3, TypeInvariant, PTL DEF Spec

-----------------------------------------------------------------------------
(* The group that has been entered.  The selection tool keeps a pointer to   *)
(* it: no edit, revert, undo, redo or rollback leaves it pointing to a group *)
(* that is not on the board.                                                 *)

\* No line of the commit takes the group off the board.
KeepsGroup(c, g) ==
    \A k \in 1 .. Len(c.lines) : c.lines[k].item = g => c.lines[k].type # "REMOVE"

\* The entered group can be off the board while a command is being put back or
\* reverted, not while one is staged or pushed.
EnteredGroupKept ==
    /\ pc \in {"idle", "put"} => commit.lines = << >>
    /\ pc \notin {"put", "revert"} => enteredGroup \in board \cup {None}
    /\ KeepsGroup(commit, enteredGroup)

------------------------------------------------------------------------------
(* What the staging operators do to the lines                              *)

\* An entry keeps the group unless it removes it.
LEMMA EntryKeepsGroup ==
    ASSUME NEW c \in CommitType, NEW o, NEW type, NEW done, NEW g,
           KeepsGroup(c, g), o = g => type # "REMOVE"
    PROVE  KeepsGroup(MakeEntry(c, o, type, done), g)
<1> DEFINE d == MakeEntry(c, o, type, done)
<1>1. c.lines \in Seq(CommitLine)
  BY DEF CommitType
<1>2. d.lines = Append(c.lines, Line(o, type, done))
  BY DEF MakeEntry
<1>3. Len(d.lines) = Len(c.lines) + 1 /\ Len(c.lines) \in Nat
  BY <1>1, <1>2
<1>4. SUFFICES ASSUME NEW k \in 1 .. Len(d.lines), d.lines[k].item = g
               PROVE  d.lines[k].type # "REMOVE"
  BY DEF KeepsGroup
<1>5. CASE k = Len(c.lines) + 1
  <2>1. d.lines[k] = Line(o, type, done)
    BY <1>1, <1>2, <1>5
  <2> QED  BY <1>4, <2>1 DEF Line
<1>6. CASE k # Len(c.lines) + 1
  <2>1. k \in 1 .. Len(c.lines)
    BY <1>3, <1>6
  <2>2. d.lines[k] = c.lines[k]
    BY <1>1, <1>2, <2>1
  <2> QED  BY <1>4, <2>1, <2>2 DEF KeepsGroup
<1> QED  BY <1>5, <1>6

\* COMMIT::createModified() removes nothing.
LEMMA ModifyKeepsGroup ==
    ASSUME NEW c \in CommitType, NEW o, NEW g, KeepsGroup(c, g)
    PROVE  KeepsGroup(StageModify(c, o), g)
<1>1. "MODIFY" # "REMOVE"
  OBVIOUS
<1>2. KeepsGroup(MakeEntry(c, o, "MODIFY", FALSE), g)
  BY <1>1, EntryKeepsGroup, Zenon
<1> QED  BY <1>2 DEF StageModify

\* Lines that are put at the end, and remove something else or nothing.
LEMMA LinesKeepGroup ==
    ASSUME NEW c \in CommitType, NEW more \in Seq(CommitLine), NEW items, NEW g,
           KeepsGroup(c, g),
           \A k \in 1 .. Len(more) : more[k].item = g => more[k].type # "REMOVE"
    PROVE  KeepsGroup([lines |-> c.lines \o more, items |-> items], g)
<1> DEFINE d == c.lines \o more
<1>1. c.lines \in Seq(CommitLine)
  BY DEF CommitType
<1>2. Len(d) = Len(c.lines) + Len(more) /\ Len(c.lines) \in Nat /\ Len(more) \in Nat
  BY <1>1, ConcatProperties
<1>3. ASSUME NEW k \in 1 .. Len(d), d[k].item = g  PROVE d[k].type # "REMOVE"
  <2>1. CASE k \in 1 .. Len(c.lines)
    <3>1. d[k] = c.lines[k]
      BY <1>1, <2>1, ConcatProperties
    <3> QED  BY <1>3, <2>1, <3>1 DEF KeepsGroup
  <2>2. CASE k \notin 1 .. Len(c.lines)
    <3>1. k - Len(c.lines) \in 1 .. Len(more)
      BY <1>2, <2>2
    <3>2. d[k] = more[k - Len(c.lines)]
      BY <1>1, <1>2, <2>2, ConcatProperties
    <3> QED  BY <1>3, <3>1, <3>2
  <2> QED  BY <2>1, <2>2
<1> QED  BY <1>3 DEF KeepsGroup

\* BOARD_COMMIT::Stage() of a modified group and its children.
LEMMA ModifyGroupKeepsGroup ==
    ASSUME TypeOK, NEW c \in CommitType, NEW h \in Group, NEW s \in ChildOrders(c, h), NEW g,
           KeepsGroup(c, g)
    PROVE  KeepsGroup(StageModifyGroup(c, h, s), g)
<1> DEFINE lines == [k \in 1 .. Len(s) |-> Line(s[k], "MODIFY", FALSE)]
           d == [lines |-> c.lines \o lines, items |-> c.items \cup ToSet(s)]
<1>1. s \in Seq(Object)
  BY MembersOrder DEF ChildOrders
<1>2. lines \in Seq(CommitLine)
  BY <1>1, LinesType
<1>3. \A k \in 1 .. Len(lines) : lines[k].type # "REMOVE"
  BY <1>1 DEF Line
<1>4. KeepsGroup(d, g)
  <2> HIDE DEF lines
  <2> QED  BY <1>2, <1>3, LinesKeepGroup
<1>5. d \in CommitType
  <2>1. c.lines \o lines \in Seq(CommitLine)
    BY <1>2, ConcatProperties DEF CommitType
  <2>2. ToSet(s) \subseteq Object
    BY <1>1 DEF ToSet
  <2> QED  BY <2>1, <2>2 DEF CommitType
<1>6. StageModifyGroup(c, h, s) = StageModify(d, h)
  BY DEF StageModifyGroup
<1> HIDE DEF d
<1> QED  BY <1>4, <1>5, <1>6, ModifyKeepsGroup

\* None is not an object: no line is about it.
LEMMA NoneIsKept ==
    ASSUME NEW c \in CommitType
    PROVE  KeepsGroup(c, None)
<1>1. ASSUME NEW k \in 1 .. Len(c.lines)  PROVE c.lines[k].item \in Object
  <2>1. c.lines \in Seq(CommitLine)
    BY DEF CommitType
  <2>2. c.lines[k] \in CommitLine
    BY <2>1
  <2> QED  BY <2>2 DEF CommitLine
<1>2. None \notin Object
  BY KindsAssumption
<1>3. \A k \in 1 .. Len(c.lines) : c.lines[k].item # None
  BY <1>1, <1>2
<1> QED  BY <1>3, Zenon DEF KeepsGroup

------------------------------------------------------------------------------
(* Each phase                                                              *)

\* Tools that stage changes: the board loses items only, and the group is left
\* when it has been emptied.
LEMMA StagingKeepsEntered ==
    ASSUME TypeOK, EnteredGroupKept,
           \/ \E i \in Item, v \in Value :
                 ModifyItem(i, v) \/ AddItem(i, v) \/ AddPlacedItem(i, v)
           \/ \E g \in Group, v \in Value : ModifyGroup(g, v)
           \/ \E i \in Leaf : RemoveItem(i) \/ DeleteItem(i) \/ RemoveFromGroup(i)
           \/ \E g \in Group : DeleteGroup(g)
           \/ \E i \in Item :
                 \/ CleanerRemove(i)
                 \/ \E j \in Item, v \in Value : CleanerMerge(i, j, v)
    PROVE  EnteredGroupKept'
<1>1. commit \in CommitType /\ KeepsGroup(commit, enteredGroup)
  BY DEF TypeOK, CommitType, EnteredGroupKept
<1>2. enteredGroup \in Group \cup {None}
  BY DEF TypeOK
<1>3. \A i \in Leaf : i # enteredGroup
  BY <1>2, KindsAssumption DEF Leaf, Object
<1>4. ASSUME pc \notin {"put", "revert"}, pc' \in {"staging", "committing"},
             enteredGroup' \in board' \cup {None}, KeepsGroup(commit', enteredGroup')
      PROVE  EnteredGroupKept'
  BY <1>4 DEF EnteredGroupKept
<1>5. pc \notin {"put", "revert"} => enteredGroup \in board \cup {None}
  BY DEF EnteredGroupKept
<1>6. ASSUME NEW i \in Item, NEW v \in Value,
             ModifyItem(i, v) \/ AddItem(i, v) \/ AddPlacedItem(i, v)
      PROVE  EnteredGroupKept'
  <2>1. /\ pc \notin {"put", "revert"} /\ pc' \in {"staging", "committing"}
        /\ board \subseteq board' /\ enteredGroup' = enteredGroup
    BY <1>6 DEF ModifyItem, AddItem, AddPlacedItem, BoardAdd, Stages
  <2>2. KeepsGroup(commit', enteredGroup)
    <3>1. "ADD" # "REMOVE"
      OBVIOUS
    <3>2. \/ commit' = StageModify(commit, i)
          \/ commit' = MakeEntry(commit, i, "ADD", FALSE)
          \/ commit' = MakeEntry(commit, i, "ADD", TRUE)
      BY <1>6 DEF ModifyItem, AddItem, AddPlacedItem, Added
    <3>3. KeepsGroup(StageModify(commit, i), enteredGroup)
      BY <1>1, ModifyKeepsGroup
    <3>4. \A done : KeepsGroup(MakeEntry(commit, i, "ADD", done), enteredGroup)
      BY <1>1, <3>1, EntryKeepsGroup, Zenon
    <3> QED  BY <3>2, <3>3, <3>4
  <2> QED  BY <1>4, <1>5, <2>1, <2>2
<1>7. ASSUME NEW g \in Group, NEW v \in Value, ModifyGroup(g, v)  PROVE EnteredGroupKept'
  <2>1. /\ pc \notin {"put", "revert"} /\ pc' \in {"staging", "committing"}
        /\ UNCHANGED <<board, enteredGroup>>
    BY <1>7 DEF ModifyGroup, Stages
  <2>2. PICK s \in ChildOrders(commit, g) : commit' = StageModifyGroup(commit, g, s)
    BY <1>7 DEF ModifyGroup
  <2>3. KeepsGroup(commit', enteredGroup)
    BY <1>1, <2>2, ModifyGroupKeepsGroup
  <2> QED  BY <1>4, <1>5, <2>1, <2>3
<1>8. ASSUME NEW i \in Leaf, RemoveItem(i)  PROVE EnteredGroupKept'
  <2>1. /\ pc \notin {"put", "revert"} /\ pc' \in {"staging", "committing"}
        /\ UNCHANGED <<board, enteredGroup>>
    BY <1>8 DEF RemoveItem, Stages
  <2>2. commit' = MakeEntry(commit, i, "REMOVE", FALSE)
    BY <1>8 DEF RemoveItem
  <2>3. KeepsGroup(commit', enteredGroup)
    BY <1>1, <1>3, <2>2, EntryKeepsGroup, Zenon
  <2> QED  BY <1>4, <1>5, <2>1, <2>3
<1>9. ASSUME NEW i \in Leaf, DeleteItem(i)  PROVE EnteredGroupKept'
  <2>1. /\ pc \notin {"put", "revert"} /\ pc' \in {"staging", "committing"}
        /\ UNCHANGED board /\ enteredGroup' \in {enteredGroup, None}
    BY <1>9 DEF DeleteItem, LeaveEmptyGroup, Stages
  <2>2. commit' \in CommitType /\ KeepsGroup(commit', enteredGroup)
    <3>1. i \in Object
      BY DEF Object
    <3>2. CASE parent[i] = None
      <4>1. commit' = MakeEntry(commit, i, "REMOVE", FALSE)
        BY <1>9, <3>2 DEF DeleteItem
      <4>2. KeepsGroup(commit', enteredGroup)
        BY <1>1, <1>3, <4>1, EntryKeepsGroup, Zenon
      <4>3. commit' \in CommitType
        BY <1>1, <3>1, <4>1, MakeEntryType
      <4> QED  BY <4>2, <4>3
    <3>3. CASE parent[i] # None
      <4>1. parent[i] \in Group
        BY <3>3 DEF TypeOK
      <4>2. PICK s \in ChildOrders(commit, parent[i]) :
              commit' = MakeEntry(StageModifyGroup(commit, parent[i], s), i, "REMOVE", FALSE)
        BY <1>9, <3>3 DEF DeleteItem
      <4> DEFINE c == StageModifyGroup(commit, parent[i], s)
      <4>3. c \in CommitType /\ KeepsGroup(c, enteredGroup)
        BY <1>1, <4>1, StageGroupType, ModifyGroupKeepsGroup
      <4> HIDE DEF c
      <4>4. KeepsGroup(MakeEntry(c, i, "REMOVE", FALSE), enteredGroup)
        BY <1>3, <4>3, EntryKeepsGroup, Zenon
      <4>5. MakeEntry(c, i, "REMOVE", FALSE) \in CommitType
        BY <3>1, <4>3, MakeEntryType
      <4> QED  BY <4>2, <4>4, <4>5 DEF c
    <3> QED  BY <3>2, <3>3
  <2>3. KeepsGroup(commit', enteredGroup')
    BY <2>1, <2>2, NoneIsKept
  <2> QED  BY <1>4, <1>5, <2>1, <2>3
<1>10. ASSUME NEW i \in Leaf, RemoveFromGroup(i)  PROVE EnteredGroupKept'
  <2>1. /\ pc \notin {"put", "revert"} /\ pc' \in {"staging", "committing"}
        /\ UNCHANGED <<board, enteredGroup>>
    BY <1>10 DEF RemoveFromGroup, Stages
  <2>2. parent[i] \in Group
    BY <1>10 DEF RemoveFromGroup, TypeOK
  <2>3. PICK s \in ChildOrders(commit, parent[i]) :
          commit' = StageModifyGroup(commit, parent[i], s)
    BY <1>10 DEF RemoveFromGroup
  <2>4. KeepsGroup(commit', enteredGroup)
    BY <1>1, <2>2, <2>3, ModifyGroupKeepsGroup
  <2> QED  BY <1>4, <1>5, <2>1, <2>4
<1>11. ASSUME NEW g \in Group, DeleteGroup(g)  PROVE EnteredGroupKept'
  <2>1. /\ pc \notin {"put", "revert"} /\ pc' \in {"staging", "committing"}
        /\ UNCHANGED <<board, enteredGroup>> /\ g # enteredGroup
    BY <1>11 DEF DeleteGroup, Stages
  <2>2. PICK s \in SetToSeqs(members[g]) :
          commit' = [lines |-> commit.lines \o RemoveLines(<<g>> \o s),
                     items |-> commit.items \cup {g} \cup members[g]]
    BY <1>11 DEF DeleteGroup
  <2> DEFINE objects == <<g>> \o s
             more == RemoveLines(objects)
  <2>3. s \in Seq(Leaf) /\ s \in Seq(Object) /\ g \in Object
    BY MembersOrder DEF Object
  <2>4. objects \in Seq(Object) /\ Len(objects) = Len(s) + 1 /\ Len(s) \in Nat
    BY <2>3, ConcatProperties
  <2>5. ASSUME NEW k \in 1 .. Len(objects)  PROVE objects[k] # enteredGroup
    <3>1. CASE k = 1
      <4>1. objects[k] = g
        BY <2>3, <3>1
      <4> QED  BY <2>1, <4>1
    <3>2. CASE k # 1
      <4>1. k - 1 \in 1 .. Len(s) /\ objects[k] = s[k - 1]
        BY <2>3, <2>4, <3>2
      <4>2. s[k - 1] \in Leaf
        BY <2>3, <4>1
      <4> QED  BY <1>3, <4>1, <4>2
    <3> QED  BY <3>1, <3>2
  <2> HIDE DEF objects
  <2>6. more \in Seq(CommitLine)
    BY <2>4, LinesType DEF RemoveLines
  <2>7. \A k \in 1 .. Len(more) : more[k].item # enteredGroup
    BY <2>4, <2>5 DEF RemoveLines, Line
  <2> HIDE DEF more
  <2>8. KeepsGroup([lines |-> commit.lines \o more,
                    items |-> commit.items \cup {g} \cup members[g]], enteredGroup)
    BY <1>1, <2>6, <2>7, LinesKeepGroup
  <2>9. KeepsGroup(commit', enteredGroup)
    BY <2>2, <2>8 DEF more, objects
  <2> QED  BY <1>4, <1>5, <2>1, <2>9
<1>12. ASSUME NEW i \in Item, CleanerRemove(i)  PROVE EnteredGroupKept'
  <2>1. /\ pc \notin {"put", "revert"} /\ pc' \in {"staging", "committing"}
        /\ board' = board \ {i} /\ UNCHANGED enteredGroup
    BY <1>12 DEF CleanerRemove, BoardRemove, Stages
  <2>2. commit' = MakeEntry(commit, i, "REMOVE", TRUE)
    BY <1>12 DEF CleanerRemove, Removed
  <2>3. i # enteredGroup
    BY <1>3 DEF Leaf
  <2>4. KeepsGroup(commit', enteredGroup)
    BY <1>1, <2>2, <2>3, EntryKeepsGroup, Zenon
  <2> QED  BY <1>4, <1>5, <2>1, <2>3, <2>4
<1>13. ASSUME NEW i \in Item, NEW j \in Item, NEW v \in Value, CleanerMerge(i, j, v)
       PROVE  EnteredGroupKept'
  <2>1. /\ pc \notin {"put", "revert"} /\ pc' \in {"staging", "committing"}
        /\ board' = board \ {j} /\ UNCHANGED enteredGroup
    BY <1>13 DEF CleanerMerge, Stages
  <2> DEFINE c == StageModify(commit, i)
  <2>2. commit' = MakeEntry(c, j, "REMOVE", TRUE)
    BY <1>13 DEF CleanerMerge, Removed
  <2>3. j # enteredGroup /\ i \in Object
    BY <1>3 DEF Leaf, Object
  <2>4. c \in CommitType /\ KeepsGroup(c, enteredGroup)
    BY <1>1, <2>3, StageType, ModifyKeepsGroup
  <2> HIDE DEF c
  <2>5. KeepsGroup(commit', enteredGroup)
    BY <2>2, <2>3, <2>4, EntryKeepsGroup, Zenon
  <2> QED  BY <1>4, <1>5, <2>1, <2>3, <2>5
<1> QED  BY <1>6, <1>7, <1>8, <1>9, <1>10, <1>11, <1>12, <1>13

\* Push() takes off the board only what its lines remove, and stale teardrops.
LEMMA PushKeepsEntered ==
    ASSUME TypeOK, EnteredGroupKept,
           \/ \E flag \in {"push", "append"} : Push(flag)
           \/ RunDrc
           \/ \E t \in Teardrop : RemoveStaleTeardrop(t)
           \/ StaleTeardropsDone \/ LinesDone
           \/ PushAdd \/ PushRemove \/ PushModify
           \/ \E i \in Item, v \in Value : PropagateNet(i, v)
           \/ PropagateNothing
           \/ \E t \in Teardrop, v \in Value : CreateTeardrop(t, v)
           \/ TeardropsDone \/ PushLate \/ PushDone
    PROVE  EnteredGroupKept'
<1>1. commit \in CommitType /\ KeepsGroup(commit, enteredGroup)
  BY DEF TypeOK, CommitType, EnteredGroupKept
<1>2. enteredGroup \in Group \cup {None}
  BY DEF TypeOK
<1>3. \A o \in Leaf : o # enteredGroup
  BY <1>2, KindsAssumption DEF Leaf, Object
<1>4. pc \notin {"put", "revert"} => enteredGroup \in board \cup {None}
  BY DEF EnteredGroupKept
<1>5. "ADD" # "REMOVE"
  OBVIOUS
<1>6. \A o, done : KeepsGroup(MakeEntry(commit, o, "ADD", done), enteredGroup)
  BY <1>1, <1>5, EntryKeepsGroup, Zenon
<1>7. ASSUME \/ \E flag \in {"push", "append"} : Push(flag)
             \/ StaleTeardropsDone \/ LinesDone \/ PushAdd \/ PushModify
             \/ PropagateNothing \/ TeardropsDone \/ PushLate
      PROVE  EnteredGroupKept'
  <2>1. /\ pc \notin {"idle", "put", "revert"} /\ pc' \notin {"idle", "put", "revert"}
        /\ UNCHANGED <<commit, enteredGroup>> /\ board \subseteq board'
    BY <1>7 DEF Push, StaleTeardropsDone, LinesDone, PushAdd, PushModify, AtLine,
       PropagateNothing, TeardropsDone, PushLate, modelVars
  <2> QED  BY <1>1, <1>4, <2>1 DEF EnteredGroupKept
<1>8. CASE RunDrc
  <2>1. pc = "idle" /\ board' = board \ Marker /\ UNCHANGED enteredGroup
    BY <1>8 DEF RunDrc
  <2>2. \/ pc' = "idle" /\ UNCHANGED commit
        \/ pc' = "stale" /\ \E o : commit' = MakeEntry(commit, o, "ADD", FALSE)
    BY <1>8 DEF RunDrc
  <2>3. enteredGroup \in board' \cup {None}
    BY <1>3, <1>4, <2>1 DEF Leaf
  <2>4. KeepsGroup(commit', enteredGroup)
    BY <1>1, <1>6, <2>2
  <2> QED  BY <2>1, <2>2, <2>3, <2>4 DEF EnteredGroupKept
<1>9. ASSUME NEW t \in Teardrop, RemoveStaleTeardrop(t)  PROVE EnteredGroupKept'
  <2>1. /\ pc = "stale" /\ pc' = "stale" /\ board' = board \ {t} /\ UNCHANGED enteredGroup
        /\ commit' = MakeEntry(commit, t, "REMOVE", TRUE)
    BY <1>9 DEF RemoveStaleTeardrop, BoardRemove, Removed, loopVars
  <2>2. t # enteredGroup
    BY <1>3 DEF Leaf
  <2>3. KeepsGroup(commit', enteredGroup)
    BY <1>1, <2>1, <2>2, EntryKeepsGroup, Zenon
  <2> QED  BY <1>4, <2>1, <2>2, <2>3 DEF EnteredGroupKept
<1>10. CASE PushRemove
  <2>1. /\ pc = "lines" /\ idx \in 1 .. Len(commit.lines) /\ commit.lines[idx].type = "REMOVE"
        /\ UNCHANGED <<pc, commit, enteredGroup>>
        /\ board' \in {board, board \ {commit.lines[idx].item}}
    BY <1>10 DEF PushRemove, AtLine
  <2>2. commit.lines[idx].item # enteredGroup
    BY <1>1, <2>1 DEF KeepsGroup
  <2> QED  BY <1>1, <1>4, <2>1, <2>2 DEF EnteredGroupKept
<1>11. ASSUME NEW i \in Item, NEW v \in Value, PropagateNet(i, v)  PROVE EnteredGroupKept'
  <2>1. /\ pc = "propagate" /\ pc' = "update" /\ UNCHANGED <<board, enteredGroup>>
        /\ commit' = StageModify(commit, i)
    BY <1>11 DEF PropagateNet
  <2>2. KeepsGroup(commit', enteredGroup)
    BY <1>1, <2>1, ModifyKeepsGroup
  <2> QED  BY <1>4, <2>1, <2>2 DEF EnteredGroupKept
<1>12. ASSUME NEW t \in Teardrop, NEW v \in Value, CreateTeardrop(t, v)
       PROVE  EnteredGroupKept'
  <2>1. /\ pc = "update" /\ pc' = "update" /\ board \subseteq board' /\ UNCHANGED enteredGroup
        /\ commit' = MakeEntry(commit, t, "ADD", TRUE)
    BY <1>12 DEF CreateTeardrop, BoardAdd, Added, loopVars
  <2> QED  BY <1>4, <1>6, <2>1 DEF EnteredGroupKept
<1>13. CASE PushDone
  <2>1. /\ pc = "late" /\ pc' = "idle" /\ commit' = EmptyCommit
        /\ UNCHANGED <<board, enteredGroup>>
    BY <1>13 DEF PushDone, modelVars
  <2> QED  BY <1>4, <2>1 DEF EnteredGroupKept, EmptyCommit, KeepsGroup
<1> QED  BY <1>7, <1>8, <1>9, <1>10, <1>11, <1>12, <1>13

\* Revert() may take the group off the board; RebuildSelection() at its end
\* forgets it then.
LEMMA RevertKeepsEntered ==
    ASSUME TypeOK, EnteredGroupKept,
           Revert \/ RevertAdd \/ RevertRemove \/ RevertModify \/ RevertDone
    PROVE  EnteredGroupKept'
<1>1. CASE Revert \/ RevertAdd \/ RevertRemove \/ RevertModify
  <2>1. pc' = "revert" /\ UNCHANGED <<commit, enteredGroup>>
    BY <1>1 DEF Revert, RevertAdd, RevertRemove, RevertModify, AtRevert
  <2> QED  BY <2>1 DEF EnteredGroupKept
<1>2. CASE RevertDone
  <2>1. /\ pc' = "idle" /\ commit' = EmptyCommit /\ UNCHANGED board
        /\ enteredGroup' \in board \cup {None}
    BY <1>2 DEF RevertDone, RebuildSelection, modelVars
  <2> QED  BY <2>1 DEF EnteredGroupKept, EmptyCommit, KeepsGroup
<1> QED  BY <1>1, <1>2

\* So may PutDataInPreviousState(), whose callers rebuild the selection too.
LEMMA PutKeepsEntered ==
    ASSUME TypeOK, EnteredGroupKept,
           \/ UndoCommand \/ RedoCommand \/ RollbackCommand
           \/ PutMissing \/ PutChanged \/ PutNewItem \/ PutDeleted \/ PutRegroup
           \/ PutUngroup \/ PutDone
    PROVE  EnteredGroupKept'
<1>1. CASE UndoCommand \/ RedoCommand \/ RollbackCommand
  <2>1. pc = "idle" /\ pc' = "put" /\ UNCHANGED <<commit, enteredGroup>>
    BY <1>1 DEF UndoCommand, RedoCommand, RollbackCommand, BeginPut
  <2> QED  BY <2>1 DEF EnteredGroupKept
<1>2. CASE PutMissing \/ PutChanged \/ PutNewItem \/ PutDeleted \/ PutRegroup \/ PutUngroup
  <2>1. pc = "put" /\ pc' = "put" /\ UNCHANGED <<commit, enteredGroup>>
    BY <1>2 DEF PutMissing, PutChanged, PutNewItem, PutDeleted, PutRegroup, PutUngroup, AtPicker
  <2> QED  BY <2>1 DEF EnteredGroupKept
<1>3. CASE PutDone
  <2>1. /\ pc = "put" /\ pc' = "idle" /\ UNCHANGED <<commit, board>>
        /\ enteredGroup' \in board \cup {None}
    BY <1>3 DEF PutDone, RebuildSelection, modelVars
  <2>2. commit'.lines = << >>
    BY <2>1 DEF EnteredGroupKept
  <2> QED  BY <2>1, <2>2 DEF EnteredGroupKept, KeepsGroup
<1> QED  BY <1>1, <1>2, <1>3

\* The group tools do not ungroup the group that is entered.
LEMMA GroupsKeepEntered ==
    ASSUME TypeOK, EnteredGroupKept,
           \/ \E g \in Group : \/ EnterGroup(g) \/ UngroupItems(g)
                               \/ \E items \in SUBSET Item : GroupItems(g, items)
           \/ ExitGroup
    PROVE  EnteredGroupKept'
<1>1. ASSUME NEW g \in Group, EnterGroup(g)  PROVE EnteredGroupKept'
  <2>1. /\ pc = "idle" /\ pc' = "idle" /\ UNCHANGED <<commit, board>>
        /\ enteredGroup' \in board
    BY <1>1 DEF EnterGroup, modelVars, loopVars
  <2>2. commit'.lines = << >>
    BY <2>1 DEF EnteredGroupKept
  <2> QED  BY <2>1, <2>2 DEF EnteredGroupKept, KeepsGroup
<1>2. CASE ExitGroup
  <2>1. pc = "idle" /\ pc' = "idle" /\ UNCHANGED commit /\ enteredGroup' = None
    BY <1>2 DEF ExitGroup, loopVars
  <2>2. commit'.lines = << >>
    BY <2>1 DEF EnteredGroupKept
  <2> QED  BY <2>1, <2>2 DEF EnteredGroupKept, KeepsGroup
<1>3. ASSUME NEW g \in Group, UngroupItems(g)  PROVE EnteredGroupKept'
  <2>1. /\ pc = "idle" /\ pc' = "idle" /\ UNCHANGED <<commit, enteredGroup>>
        /\ board' = board \ {g} /\ g # enteredGroup
    BY <1>3 DEF UngroupItems, RecordAtOnce, loopVars
  <2> QED  BY <2>1 DEF EnteredGroupKept
<1>4. ASSUME NEW g \in Group, NEW items \in SUBSET Item, GroupItems(g, items)
      PROVE  EnteredGroupKept'
  <2>1. /\ pc = "idle" /\ pc' = "idle" /\ UNCHANGED <<commit, enteredGroup>>
        /\ board \subseteq board'
    BY <1>4 DEF GroupItems, BoardAdd, RecordAtOnce, loopVars
  <2> QED  BY <2>1 DEF EnteredGroupKept
<1> QED  BY <1>1, <1>2, <1>3, <1>4

------------------------------------------------------------------------------
\* The entered group and the commit under way, at every point of an operation.
THEOREM EnteredGroupInvariant == Spec => []EnteredGroupKept
<1>1. Init => EnteredGroupKept
  BY DEF Init, EnteredGroupKept, EmptyCommit, KeepsGroup
<1>2. ASSUME TypeOK, EnteredGroupKept, [Next]_vars  PROVE EnteredGroupKept'
  <2>1. CASE UNCHANGED vars
    BY <1>2, <2>1 DEF vars, EnteredGroupKept, KeepsGroup
  <2>2. CASE UserStep
    BY <1>2, <2>2, StagingKeepsEntered, PushKeepsEntered, RevertKeepsEntered, PutKeepsEntered,
       GroupsKeepEntered DEF UserStep
  <2>3. CASE ProgramStep
    BY <1>2, <2>3, PushKeepsEntered, RevertKeepsEntered, PutKeepsEntered DEF ProgramStep
  <2> QED  BY <1>2, <2>1, <2>2, <2>3 DEF Next
<1> QED  BY <1>1, <1>2, TypeCorrect, PTL DEF Spec

\* The entered group is on the board whenever no operation is under way: what
\* PCB_SELECTION_TOOL::EnterGroup(), ExitGroup() and RebuildSelection(), the group
\* tools, DeleteItems(), Push(), Revert() and undo do together.
THEOREM EnteredGroupStays == Spec => []EnteredGroupOnBoard
<1>1. EnteredGroupKept => EnteredGroupOnBoard
  BY DEF EnteredGroupKept, EnteredGroupOnBoard
<1> QED  BY <1>1, EnteredGroupInvariant, PTL

------------------------------------------------------------------------------
(* What the undo and redo lists say about the board.                         *)

\* In a list of commands an item is first added, then changed, then removed:
\* a picker p comes before q.
Follows(p, q) == p.item = q.item => p.status # "DELETED" /\ q.status # "NEWITEM"

\* An item that both the undo and the redo list know is on the board.
Apart(p, q) == p.item = q.item => p.status # "DELETED" /\ q.status # "DELETED"

FollowAll(P, Q) == \A p \in P, q \in Q : Follows(p, q)
ApartAll(P, Q) == \A p \in P, q \in Q : Apart(p, q)

\* An item with a picker is on the board, unless there is one that owns it.
Placed(P, b) ==
    /\ \A p \in P : p.status = "DELETED" => p.item \notin b
    /\ \A p \in P : p.item \notin b => \E q \in P : q.item = p.item /\ q.status = "DELETED"

\* A picker and the board after PutDataInPreviousState() has handled it.
Turned(status) ==
    CASE status = "NEWITEM" -> "DELETED" [] status = "DELETED" -> "NEWITEM"
      [] status = "CHANGED" -> "CHANGED" [] status = "REGROUP" -> "UNGROUP"
      [] status = "UNGROUP" -> "REGROUP"
BoardAfter(x, b) ==
    CASE x.status = "NEWITEM" -> b \ {x.item} [] x.status = "DELETED" -> b \cup {x.item}
      [] OTHER -> b

\* A picker changes sides: the item it is about is where it has to be, and the
\* other pickers stay in order.
LEMMA PickerTurns ==
    ASSUME NEW near, NEW far, NEW b, NEW x \in Picker, NEW y,
           y.item = x.item, y.status = Turned(x.status),
           FollowAll(near, {x}), ApartAll(near \cup {x}, far), Placed(near \cup {x} \cup far, b)
    PROVE  /\ IF x.status = "DELETED" THEN x.item \notin b ELSE x.item \in b
           /\ FollowAll(far, {y}) /\ ApartAll(near, far \cup {y})
           /\ Placed(near \cup far \cup {y}, BoardAfter(x, b))
<1>1. x.status \in {"NEWITEM", "DELETED", "CHANGED", "REGROUP", "UNGROUP"}
  BY DEF Picker, Status
<1>2. \A p \in near : p.item = x.item => p.status # "DELETED" /\ x.status # "NEWITEM"
  BY DEF FollowAll, Follows
<1>3. \A q \in far : q.item = x.item => q.status # "DELETED" /\ x.status # "DELETED"
  BY DEF ApartAll, Apart
<1>4. IF x.status = "DELETED" THEN x.item \notin b ELSE x.item \in b
  BY <1>2, <1>3 DEF Placed
<1>5. FollowAll(far, {y}) /\ ApartAll(near, far \cup {y})
  BY <1>1, <1>2, <1>3 DEF FollowAll, ApartAll, Follows, Apart, Turned
<1>6. Placed(near \cup far \cup {y}, BoardAfter(x, b))
  <2> DEFINE P == near \cup far
             Q == P \cup {y}
             c == BoardAfter(x, b)
  <2>1. \A p \in P : p.item # x.item => (p.item \in c <=> p.item \in b)
    BY <1>1 DEF BoardAfter
  <2>2. ASSUME NEW p \in P, p.item # x.item
        PROVE  /\ p.status = "DELETED" => p.item \notin c
               /\ p.item \notin c => \E q \in Q : q.item = p.item /\ q.status = "DELETED"
    <3>1. p.status = "DELETED" => p.item \notin b
      BY DEF Placed
    <3>2. p.item \notin b => \E q \in P : q.item = p.item /\ q.status = "DELETED"
      BY <2>2 DEF Placed
    <3> QED  BY <2>1, <2>2, <3>1, <3>2
  <2>3. x.status = "NEWITEM" => x.item \notin c /\ y.status = "DELETED" /\ \A p \in near : p.item # x.item
    BY <1>2 DEF BoardAfter, Turned
  <2>4. x.status # "NEWITEM" => x.item \in c /\ y.status # "DELETED"
    BY <1>1, <1>4 DEF BoardAfter, Turned
  <2>5. ASSUME NEW p \in Q, p.item = x.item
        PROVE  /\ p.status = "DELETED" => p.item \notin c
               /\ p.item \notin c => \E q \in Q : q.item = p.item /\ q.status = "DELETED"
    <3>1. CASE x.status = "NEWITEM"
      BY <2>3, <2>5, <3>1
    <3>2. CASE x.status # "NEWITEM"
      BY <1>2, <1>3, <2>4, <2>5, <3>2
    <3> QED  BY <3>1, <3>2
  <2> HIDE DEF P, c
  <2>6. \A p \in Q : /\ p.status = "DELETED" => p.item \notin c
                     /\ p.item \notin c => \E q \in Q : q.item = p.item /\ q.status = "DELETED"
    BY <2>2, <2>5
  <2> QED  BY <2>6 DEF Placed, P, c
<1> QED  BY <1>4, <1>5, <1>6

\* The oldest commands are dropped: nobody refers to the items that they own, and
\* these are not on the board.
ItemsOf(P) == {p.item : p \in P}
OwnedBy(P) == {p.item : p \in {q \in P : q.status = "DELETED"}}

LEMMA OldestDropped ==
    ASSUME NEW old, NEW kept, NEW far, NEW b, FollowAll(old, kept),
           ApartAll(old \cup kept, far), Placed(old \cup kept \cup far, b)
    PROVE  /\ ApartAll(kept, far) /\ Placed(kept \cup far, b)
           /\ OwnedBy(old) \cap b = {} /\ OwnedBy(old) \cap ItemsOf(kept \cup far) = {}
<1>1. ApartAll(kept, far)
  BY DEF ApartAll
<1>2. OwnedBy(old) \cap b = {}
  BY DEF OwnedBy, Placed
<1>3. ASSUME NEW p \in old, p.status = "DELETED", NEW q \in kept \cup far
      PROVE  q.item # p.item
  BY <1>3 DEF FollowAll, ApartAll, Follows, Apart
<1>4. OwnedBy(old) \cap ItemsOf(kept \cup far) = {}
  BY <1>3 DEF OwnedBy, ItemsOf
<1>5. Placed(kept \cup far, b)
  BY <1>3 DEF Placed
<1> QED  BY <1>1, <1>2, <1>4, <1>5

------------------------------------------------------------------------------
(* Sequences of pickers and commands.                                        *)

PickersOf(cmds) == UNION {ToSet(cmds[c]) : c \in DOMAIN cmds}
Ordered(cmd) == \A j, k \in DOMAIN cmd : j < k => Follows(cmd[j], cmd[k])
AllOrdered(cmds) ==
    /\ \A c \in DOMAIN cmds : Ordered(cmds[c])
    /\ \A c, d \in DOMAIN cmds : c < d => FollowAll(ToSet(cmds[c]), ToSet(cmds[d]))

\* One more picker, one more command.
LEMMA PickerAdded ==
    ASSUME NEW cmd \in Command, NEW p \in Picker
    PROVE  /\ ToSet(Append(cmd, p)) = ToSet(cmd) \cup {p}
           /\ Ordered(Append(cmd, p)) <=> Ordered(cmd) /\ FollowAll(ToSet(cmd), {p})
<1> DEFINE r == Append(cmd, p)
           n == Len(cmd)
<1>1. /\ n \in Nat /\ DOMAIN r = 1 .. (n + 1) /\ DOMAIN cmd = 1 .. n
      /\ \A k \in 1 .. n : r[k] = cmd[k]
      /\ r[n + 1] = p /\ ToSet(r) = ToSet(cmd) \cup {p}
  BY AppendAt DEF Command
<1> HIDE DEF r, n
<1>2. ASSUME Ordered(r)  PROVE Ordered(cmd) /\ FollowAll(ToSet(cmd), {p})
  <2>1. Ordered(cmd)
    BY <1>1, <1>2 DEF Ordered
  <2>2. \A k \in 1 .. n : k < n + 1 /\ k \in 1 .. (n + 1) /\ n + 1 \in 1 .. (n + 1)
    BY <1>1
  <2>3. \A k \in 1 .. n : Follows(cmd[k], p)
    BY <1>1, <1>2, <2>2 DEF Ordered
  <2> QED  BY <1>1, <2>1, <2>3 DEF FollowAll, ToSet
<1>3. ASSUME Ordered(cmd), FollowAll(ToSet(cmd), {p})  PROVE Ordered(r)
  <2>1. \A k \in 1 .. n : Follows(cmd[k], p)
    BY <1>1, <1>3 DEF FollowAll, ToSet
  <2>2. \A j, k \in 1 .. (n + 1) : j < k => j \in 1 .. n /\ (k = n + 1 \/ k \in 1 .. n)
    BY <1>1
  <2> QED  BY <1>1, <1>3, <2>1, <2>2 DEF Ordered
<1> QED  BY <1>1, <1>2, <1>3 DEF r

\* One more command in a list: its pickers, and when it is in order.
LEMMA CommandAdded ==
    ASSUME NEW cmds \in Seq(Command), NEW cmd \in Command
    PROVE  /\ PickersOf(Append(cmds, cmd)) = PickersOf(cmds) \cup ToSet(cmd)
           /\ AllOrdered(Append(cmds, cmd)) <=>
                AllOrdered(cmds) /\ Ordered(cmd) /\ FollowAll(PickersOf(cmds), ToSet(cmd))
<1> DEFINE r == Append(cmds, cmd)
           n == Len(cmds)
<1>1. /\ n \in Nat /\ DOMAIN r = 1 .. (n + 1) /\ DOMAIN cmds = 1 .. n
      /\ \A k \in 1 .. n : r[k] = cmds[k]
      /\ r[n + 1] = cmd
  BY AppendAt
<1> HIDE DEF r, n
<1>2. \A k \in 1 .. (n + 1) : k = n + 1 \/ k \in 1 .. n
  BY <1>1
<1>3. \A k \in 1 .. n : k < n + 1 /\ k \in 1 .. (n + 1)
  BY <1>1
<1>4. n + 1 \in 1 .. (n + 1)
  BY <1>1
<1>5. PickersOf(r) = PickersOf(cmds) \cup ToSet(cmd)
  BY <1>1, <1>2, <1>3, <1>4 DEF PickersOf
<1>6. FollowAll(PickersOf(cmds), ToSet(cmd)) <=> \A c \in 1 .. n : FollowAll(ToSet(cmds[c]), ToSet(cmd))
  BY <1>1 DEF FollowAll, PickersOf
<1>7. ASSUME AllOrdered(r)  PROVE AllOrdered(cmds) /\ Ordered(cmd) /\ FollowAll(PickersOf(cmds), ToSet(cmd))
  <2>1. AllOrdered(cmds) /\ Ordered(cmd)
    BY <1>1, <1>3, <1>4, <1>7 DEF AllOrdered
  <2>2. \A c \in 1 .. n : FollowAll(ToSet(cmds[c]), ToSet(cmd))
    BY <1>1, <1>3, <1>4, <1>7 DEF AllOrdered
  <2> QED  BY <1>6, <2>1, <2>2
<1>8. ASSUME AllOrdered(cmds), Ordered(cmd), FollowAll(PickersOf(cmds), ToSet(cmd))  PROVE AllOrdered(r)
  <2>1. \A c \in 1 .. n : FollowAll(ToSet(cmds[c]), ToSet(cmd))
    BY <1>6, <1>8
  <2>2. \A c, d \in 1 .. (n + 1) : c < d => c \in 1 .. n
    BY <1>1
  <2>3. \A c \in 1 .. (n + 1) : Ordered(r[c])
    BY <1>1, <1>2, <1>8 DEF AllOrdered
  <2>4. \A c, d \in 1 .. (n + 1) : c < d => FollowAll(ToSet(r[c]), ToSet(r[d]))
    BY <1>1, <1>2, <1>8, <2>1, <2>2 DEF AllOrdered
  <2> QED  BY <1>1, <2>3, <2>4 DEF AllOrdered
<1> QED  BY <1>5, <1>7, <1>8 DEF r

\* A list of commands is cut: saveCopyInUndoList() and the limit of the lists.
LEMMA CommandsCut ==
    ASSUME NEW cmds \in Seq(Command), AllOrdered(cmds), NEW n \in 0 .. Len(cmds)
    PROVE  /\ SubSeq(cmds, 1, n) \in Seq(Command) /\ SubSeq(cmds, n + 1, Len(cmds)) \in Seq(Command)
           /\ AllOrdered(SubSeq(cmds, n + 1, Len(cmds)))
           /\ PickersOf(cmds) = PickersOf(SubSeq(cmds, 1, n)) \cup PickersOf(SubSeq(cmds, n + 1, Len(cmds)))
           /\ FollowAll(PickersOf(SubSeq(cmds, 1, n)), PickersOf(SubSeq(cmds, n + 1, Len(cmds))))
<1> DEFINE m == Len(cmds)
           old == SubSeq(cmds, 1, n)
           kept == SubSeq(cmds, n + 1, m)
<1>1. m \in Nat /\ n \in Nat /\ n <= m /\ DOMAIN cmds = 1 .. m
  OBVIOUS
<1>2. /\ old \in Seq(Command) /\ DOMAIN old = 1 .. n
      /\ \A k \in 1 .. n : old[k] = cmds[k]
  <2>1. 1 \in 1 .. (m + 1) /\ n \in 0 .. m /\ 1 <= n + 1 /\ n - 1 + 1 = n
    BY <1>1
  <2>2. /\ old \in Seq(Command) /\ DOMAIN old = 1 .. (n - 1 + 1)
        /\ \A k \in 1 .. (n - 1 + 1) : old[k] = cmds[1 + k - 1]
    BY <2>1, PartAt
  <2>3. \A k \in 1 .. n : 1 + k - 1 = k
    BY <1>1
  <2> HIDE DEF old
  <2> QED  BY <2>1, <2>2, <2>3
<1>3. /\ kept \in Seq(Command) /\ DOMAIN kept = 1 .. (m - n)
      /\ \A k \in 1 .. (m - n) : kept[k] = cmds[n + k]
  <2>1. n + 1 \in 1 .. (m + 1) /\ m \in 0 .. m /\ n + 1 <= m + 1 /\ m - (n + 1) + 1 = m - n
    BY <1>1
  <2>2. /\ kept \in Seq(Command) /\ DOMAIN kept = 1 .. (m - (n + 1) + 1)
        /\ \A k \in 1 .. (m - (n + 1) + 1) : kept[k] = cmds[(n + 1) + k - 1]
    BY <2>1, PartAt
  <2>3. \A k \in 1 .. (m - n) : (n + 1) + k - 1 = n + k
    BY <1>1
  <2> HIDE DEF kept
  <2> QED  BY <2>1, <2>2, <2>3
<1> HIDE DEF old, kept, m
<1>4. \A k \in 1 .. m : k \in 1 .. n \/ (k - n \in 1 .. (m - n) /\ n + (k - n) = k)
  BY <1>1
<1>5. /\ \A k \in 1 .. n : k \in 1 .. m
      /\ \A k \in 1 .. (m - n) : n + k \in 1 .. m
      /\ \A j \in 1 .. n, k \in 1 .. (m - n) : j < n + k
      /\ \A j, k \in 1 .. (m - n) : j < k => n + j < n + k
  BY <1>1
<1>6. PickersOf(cmds) = PickersOf(old) \cup PickersOf(kept)
  <2>1. PickersOf(cmds) \subseteq PickersOf(old) \cup PickersOf(kept)
    <3> SUFFICES ASSUME NEW k \in 1 .. m, NEW p \in ToSet(cmds[k])
                 PROVE  p \in PickersOf(old) \cup PickersOf(kept)
      BY <1>1 DEF PickersOf
    <3>1. CASE k \in 1 .. n
      BY <1>2, <3>1 DEF PickersOf
    <3>2. CASE k - n \in 1 .. (m - n) /\ n + (k - n) = k
      BY <1>3, <3>2 DEF PickersOf
    <3> QED  BY <1>4, <3>1, <3>2
  <2>2. PickersOf(old) \subseteq PickersOf(cmds)
    BY <1>1, <1>2, <1>5 DEF PickersOf
  <2>3. PickersOf(kept) \subseteq PickersOf(cmds)
    BY <1>1, <1>3, <1>5 DEF PickersOf
  <2> QED  BY <2>1, <2>2, <2>3
<1>7. AllOrdered(kept)
  BY <1>1, <1>3, <1>5 DEF AllOrdered
<1>8. FollowAll(PickersOf(old), PickersOf(kept))
  <2>1. \A j \in 1 .. n, k \in 1 .. (m - n) : FollowAll(ToSet(old[j]), ToSet(kept[k]))
    BY <1>1, <1>2, <1>3, <1>5 DEF AllOrdered
  <2> QED  BY <1>2, <1>3, <2>1 DEF PickersOf, FollowAll
<1> QED  BY <1>2, <1>3, <1>6, <1>7, <1>8 DEF old, kept, m

\* What ClearListAndDeleteItems() frees is what pickers own.
LEMMA OwnedItems ==
    ASSUME NEW cmds \in Seq(Command)
    PROVE  ItemsOwnedBy(cmds) = OwnedBy(PickersOf(cmds))
  BY DEF ItemsOwnedBy, DeletedItems, OwnedBy, PickersOf, ToSet

\* What is dropped over the limit and what is kept.
LEMMA NewestAndOldest ==
    ASSUME NEW cmds \in Seq(Command), AllOrdered(cmds)
    PROVE  /\ Newest(cmds) \in Seq(Command) /\ AllOrdered(Newest(cmds))
           /\ ItemsOwnedBy(Oldest(cmds)) = OwnedBy(PickersOf(Oldest(cmds)))
           /\ PickersOf(cmds) = PickersOf(Oldest(cmds)) \cup PickersOf(Newest(cmds))
           /\ FollowAll(PickersOf(Oldest(cmds)), PickersOf(Newest(cmds)))
<1>1. MaxUndo \in Nat /\ Len(cmds) \in Nat
  BY BoundsAssumption
<1>2. PICK n \in 0 .. Len(cmds) : n = IF MaxUndo > 0 /\ Len(cmds) > MaxUndo THEN Len(cmds) - MaxUndo ELSE 0
  BY <1>1
<1>3. Newest(cmds) = SubSeq(cmds, n + 1, Len(cmds)) /\ Len(Newest(cmds)) = Len(cmds) - n
  <2>1. CASE MaxUndo > 0 /\ Len(cmds) > MaxUndo
    <3>1. n = Len(cmds) - MaxUndo
      BY <1>2, <2>1
    <3>2. Newest(cmds) = SubSeq(cmds, (Len(cmds) - MaxUndo) + 1, Len(cmds))
      BY <2>1 DEF Newest, History!Newest
    <3>3. Len(Newest(cmds)) = MaxUndo
      BY <2>1, NewestSeq
    <3> QED  BY <1>1, <3>1, <3>2, <3>3
  <2>2. CASE ~(MaxUndo > 0 /\ Len(cmds) > MaxUndo)
    <3>1. n = 0 /\ Newest(cmds) = cmds
      BY <1>2, <2>2 DEF Newest, History!Newest
    <3>2. SubSeq(cmds, 1, Len(cmds)) = cmds
      BY SubSeqFull
    <3> QED  BY <1>1, <3>1, <3>2
  <2> QED  BY <2>1, <2>2
<1>4. Oldest(cmds) = SubSeq(cmds, 1, n)
  <2>1. \A a, b \in Nat : a - (a - b) = b
    OBVIOUS
  <2>2. n \in Nat
    BY <1>1
  <2>3. Len(cmds) - Len(Newest(cmds)) = n
    BY <1>1, <1>3, <2>1, <2>2
  <2> QED  BY <2>3 DEF Oldest
<1>5. Oldest(cmds) \in Seq(Command)
  BY <1>4, CommandsCut
<1> QED  BY <1>3, <1>4, <1>5, CommandsCut, OwnedItems

\* AppendCopyToUndoList(): a command that is made longer.
LEMMA CommandsJoined ==
    ASSUME NEW cmd \in Command, NEW more \in Command
    PROVE  /\ cmd \o more \in Command /\ ToSet(cmd \o more) = ToSet(cmd) \cup ToSet(more)
           /\ Ordered(cmd) /\ Ordered(more) /\ FollowAll(ToSet(cmd), ToSet(more)) => Ordered(cmd \o more)
<1> DEFINE r == cmd \o more
           m == Len(cmd)
           n == Len(more)
<1>1. /\ r \in Command /\ m \in Nat /\ n \in Nat /\ DOMAIN r = 1 .. (m + n)
      /\ DOMAIN cmd = 1 .. m /\ DOMAIN more = 1 .. n
      /\ \A k \in 1 .. m : r[k] = cmd[k]
      /\ \A k \in 1 .. n : r[m + k] = more[k]
  <2>1. r \in Command /\ m \in Nat /\ n \in Nat /\ Len(r) = m + n
    BY ConcatProperties DEF Command
  <2>2. \A k \in 1 .. (m + n) : r[k] = IF k <= m THEN cmd[k] ELSE more[k - m]
    BY <2>1 DEF Command
  <2>3. /\ \A k \in 1 .. m : k \in 1 .. (m + n) /\ k <= m
        /\ \A k \in 1 .. n : m + k \in 1 .. (m + n) /\ ~(m + k <= m) /\ (m + k) - m = k
    BY <2>1
  <2>4. DOMAIN r = 1 .. (m + n) /\ DOMAIN cmd = 1 .. m /\ DOMAIN more = 1 .. n
    BY <2>1 DEF Command
  <2> HIDE DEF r, m, n
  <2> QED  BY <2>1, <2>2, <2>3, <2>4
<1> HIDE DEF r, m, n
<1>2. \A k \in 1 .. (m + n) : k \in 1 .. m \/ (k - m \in 1 .. n /\ m + (k - m) = k)
  BY <1>1
<1>3. /\ \A k \in 1 .. m : k \in 1 .. (m + n)
      /\ \A k \in 1 .. n : m + k \in 1 .. (m + n)
  BY <1>1
<1>4. ToSet(r) = ToSet(cmd) \cup ToSet(more)
  <2>1. ToSet(r) \subseteq ToSet(cmd) \cup ToSet(more)
    <3> SUFFICES ASSUME NEW k \in 1 .. (m + n)  PROVE r[k] \in ToSet(cmd) \cup ToSet(more)
      BY <1>1 DEF ToSet
    <3> QED  BY <1>1, <1>2 DEF ToSet
  <2>2. ToSet(cmd) \subseteq ToSet(r) /\ ToSet(more) \subseteq ToSet(r)
    BY <1>1, <1>3 DEF ToSet
  <2> QED  BY <2>1, <2>2
<1>5. ASSUME Ordered(cmd), Ordered(more), FollowAll(ToSet(cmd), ToSet(more))
      PROVE  Ordered(r)
  <2> SUFFICES ASSUME NEW j \in 1 .. (m + n), NEW k \in 1 .. (m + n), j < k
               PROVE  Follows(r[j], r[k])
    BY <1>1 DEF Ordered
  <2>1. CASE j \in 1 .. m /\ k \in 1 .. m
    BY <1>1, <1>5, <2>1 DEF Ordered
  <2>2. CASE j \in 1 .. m /\ k - m \in 1 .. n /\ m + (k - m) = k
    BY <1>1, <1>5, <2>2 DEF FollowAll, ToSet
  <2>3. CASE j - m \in 1 .. n /\ m + (j - m) = j /\ k - m \in 1 .. n /\ m + (k - m) = k
    <3>1. j - m < k - m
      BY <1>1
    <3>2. Follows(more[j - m], more[k - m])
      BY <1>1, <1>5, <2>3, <3>1 DEF Ordered
    <3>3. r[j] = more[j - m] /\ r[k] = more[k - m]
      BY <1>1, <2>3
    <3> QED  BY <3>2, <3>3
  <2>4. ~(k \in 1 .. m /\ j - m \in 1 .. n)
    BY <1>1
  <2> QED  BY <1>2, <2>1, <2>2, <2>3, <2>4
<1> QED  BY <1>1, <1>4, <1>5 DEF r

------------------------------------------------------------------------------
(* The lists and the board: near is the list that PutDataInPreviousState()   *)
(* takes commands from, far the one that they go to, b the board and mem the *)
(* objects that have not been freed.                                         *)

PickersOfBoth(near, far) == PickersOf(near) \cup PickersOf(far)
Safe(near, far, b, mem) ==
    /\ AllOrdered(near) /\ AllOrdered(far)
    /\ ApartAll(PickersOf(near), PickersOf(far))
    /\ Placed(PickersOfBoth(near, far), b)
    /\ b \subseteq mem /\ ItemsOf(PickersOfBoth(near, far)) \subseteq mem
    \* What the DRC tool deletes is in no list.
    /\ "drc" \in Tools => ItemsOf(PickersOfBoth(near, far)) \cap Marker = {}

\* Undo and redo look at the two lists from either side.
LEMMA SafeSwapped ==
    ASSUME NEW near, NEW far, NEW b, NEW mem, Safe(near, far, b, mem)
    PROVE  Safe(far, near, b, mem)
<1>1. PickersOfBoth(near, far) = PickersOfBoth(far, near)
  BY DEF PickersOfBoth
<1>2. ApartAll(PickersOf(far), PickersOf(near))
  BY DEF Safe, ApartAll, Apart
<1> QED  BY <1>1, <1>2 DEF Safe

\* The board or the memory changes, but not for what is in the lists.
LEMMA SafeKept ==
    ASSUME NEW near, NEW far, NEW b, NEW mem, Safe(near, far, b, mem), NEW c, NEW new,
           \A o \in ItemsOf(PickersOfBoth(near, far)) : (o \in c <=> o \in b) /\ o \in new,
           c \subseteq new
    PROVE  Safe(near, far, c, new)
<1>1. Placed(PickersOfBoth(near, far), c)
  BY DEF Safe, Placed, ItemsOf
<1> QED  BY <1>1 DEF Safe

\* An empty list says nothing.
LEMMA NoPickers == PickersOf(<< >>) = {} /\ ToSet(<< >>) = {} /\ AllOrdered(<< >>) /\ Ordered(<< >>)
<1>1. DOMAIN << >> = {}
  OBVIOUS
<1> QED  BY <1>1 DEF PickersOf, ToSet, AllOrdered, Ordered

\* A command is taken off its list.
LEMMA SafeBegun ==
    ASSUME NEW near \in Seq(Command), NEW far \in Seq(Command), NEW b, NEW mem,
           Safe(near, far, b, mem), near # << >>
    PROVE  Safe(Append(Front(near), Last(near)), Append(far, << >>), b, mem)
<1>1. << >> \in Command
  BY DEF Command
<1>2. PickersOf(Append(far, << >>)) = PickersOf(far) /\ AllOrdered(Append(far, << >>))
  <2>1. AllOrdered(far)
    BY DEF Safe
  <2>2. PICK none \in Command : none = << >>
    BY <1>1
  <2>3. ToSet(none) = {} /\ Ordered(none)
    BY <2>2, NoPickers
  <2>4. FollowAll(PickersOf(far), ToSet(none))
    BY <2>3 DEF FollowAll
  <2>5. PickersOf(Append(far, none)) = PickersOf(far) \cup ToSet(none)
    BY <2>2, CommandAdded
  <2>6. AllOrdered(Append(far, none))
    BY <2>1, <2>2, <2>3, <2>4, CommandAdded
  <2> QED  BY <2>2, <2>3, <2>5, <2>6
<1>3. Append(Front(near), Last(near)) = near
  BY FrontAndLast
<1> QED  BY <1>2, <1>3 DEF Safe, PickersOfBoth

\* PutDataInPreviousState() has handled a picker.
LEMMA SafeTurned ==
    ASSUME NEW near \in Seq(Command), NEW far \in Seq(Command), NEW todo \in Command, NEW done \in Command,
           NEW b, NEW mem, NEW x \in Picker, NEW y \in Picker,
           y.item = x.item, y.status = Turned(x.status),
           Safe(Append(near, Append(todo, x)), Append(far, done), b, mem)
    PROVE  /\ IF x.status = "DELETED" THEN x.item \notin b ELSE x.item \in b
           /\ x.item \in mem
           /\ Safe(Append(near, todo), Append(far, Append(done, y)), BoardAfter(x, b), mem)
<1> DEFINE N == PickersOf(near) \cup ToSet(todo)
           F == PickersOf(far) \cup ToSet(done)
           c == BoardAfter(x, b)
<1>1. Append(todo, x) \in Command /\ Append(done, y) \in Command
  BY DEF Command
<1>2. ToSet(Append(todo, x)) = ToSet(todo) \cup {x} /\ ToSet(Append(done, y)) = ToSet(done) \cup {y}
  BY PickerAdded
<1>3. /\ PickersOf(Append(near, Append(todo, x))) = N \cup {x}
      /\ PickersOf(Append(near, todo)) = N
      /\ PickersOf(Append(far, done)) = F
      /\ PickersOf(Append(far, Append(done, y))) = F \cup {y}
  BY <1>1, <1>2, CommandAdded
<1>4. /\ AllOrdered(near) /\ Ordered(todo) /\ FollowAll(ToSet(todo), {x})
      /\ FollowAll(PickersOf(near), ToSet(todo) \cup {x})
      /\ AllOrdered(far) /\ Ordered(done) /\ FollowAll(PickersOf(far), ToSet(done))
  <2>1. AllOrdered(Append(near, Append(todo, x))) /\ AllOrdered(Append(far, done))
    BY DEF Safe
  <2>2. Ordered(Append(todo, x)) => Ordered(todo) /\ FollowAll(ToSet(todo), {x})
    BY PickerAdded
  <2> QED  BY <1>1, <1>2, <2>1, <2>2, CommandAdded
<1>5. FollowAll(N, {x}) /\ FollowAll(PickersOf(near), ToSet(todo))
  BY <1>4 DEF FollowAll
<1>6. ApartAll(N \cup {x}, F) /\ Placed(N \cup {x} \cup F, b)
  BY <1>3 DEF Safe, PickersOfBoth
<1>7. b \subseteq mem /\ ItemsOf(N \cup {x} \cup F) \subseteq mem
      /\ ("drc" \in Tools => ItemsOf(N \cup {x} \cup F) \cap Marker = {})
  BY <1>3 DEF Safe, PickersOfBoth
<1> HIDE DEF N, F
<1>8. /\ IF x.status = "DELETED" THEN x.item \notin b ELSE x.item \in b
      /\ FollowAll(F, {y}) /\ ApartAll(N, F \cup {y})
      /\ Placed(N \cup F \cup {y}, c)
  BY <1>5, <1>6, PickerTurns
<1>9. AllOrdered(Append(near, todo))
  BY <1>4, <1>5, CommandAdded
<1>10. AllOrdered(Append(far, Append(done, y)))
  <2>1. FollowAll(ToSet(done), {y}) /\ FollowAll(PickersOf(far), ToSet(done) \cup {y})
    BY <1>4, <1>8 DEF FollowAll, F
  <2>2. Ordered(Append(done, y))
    BY <1>4, <2>1, PickerAdded
  <2> QED  BY <1>1, <1>2, <1>4, <2>1, <2>2, CommandAdded
<1>11. ItemsOf(N \cup F \cup {y}) = ItemsOf(N \cup {x} \cup F)
  BY DEF ItemsOf
<1>12. x.item \in mem /\ c \subseteq mem
  <2>1. x.item \in mem
    BY <1>7 DEF ItemsOf
  <2> QED  BY <1>7, <2>1 DEF BoardAfter
<1>13. PickersOfBoth(Append(near, todo), Append(far, Append(done, y))) = N \cup F \cup {y}
  BY <1>3 DEF PickersOfBoth
<1> QED  BY <1>3, <1>7, <1>8, <1>9, <1>10, <1>11, <1>12, <1>13 DEF Safe

\* The command goes to the other list; the oldest ones of that are freed.
LEMMA SafeEnded ==
    ASSUME NEW near \in Seq(Command), NEW far \in Seq(Command), NEW done \in Command, NEW b, NEW mem,
           Safe(Append(near, << >>), Append(far, done), b, mem)
    PROVE  Safe(near, Newest(Append(far, done)), b,
                mem \ ItemsOwnedBy(Oldest(Append(far, done))))
<1> DEFINE cmds == Append(far, done)
           old == PickersOf(Oldest(cmds))
           kept == PickersOf(Newest(cmds))
           N == PickersOf(near)
<1>1. << >> \in Command
  BY DEF Command
<1>2. PickersOf(Append(near, << >>)) = N /\ AllOrdered(near)
  <2>1. AllOrdered(Append(near, << >>))
    BY DEF Safe
  <2>2. PickersOf(Append(near, << >>)) = PickersOf(near) \cup ToSet(<< >>)
    BY <1>1, CommandAdded
  <2>3. AllOrdered(near)
    BY <1>1, <2>1, CommandAdded
  <2> QED  BY <2>2, <2>3, NoPickers
<1>3. cmds \in Seq(Command) /\ AllOrdered(cmds)
  BY DEF Safe
<1>4. /\ AllOrdered(Newest(cmds)) /\ ItemsOwnedBy(Oldest(cmds)) = OwnedBy(old)
      /\ PickersOf(cmds) = old \cup kept /\ FollowAll(old, kept)
  BY <1>3, NewestAndOldest
<1>5. /\ ApartAll(N, PickersOf(cmds)) /\ Placed(N \cup PickersOf(cmds), b)
      /\ b \subseteq mem /\ ItemsOf(N \cup PickersOf(cmds)) \subseteq mem
      /\ ("drc" \in Tools => ItemsOf(N \cup PickersOf(cmds)) \cap Marker = {})
  BY <1>2 DEF Safe, PickersOfBoth
<1> HIDE DEF cmds, old, kept, N
<1>6. ApartAll(old \cup kept, N) /\ Placed(old \cup kept \cup N, b)
  <2>1. N \cup PickersOf(cmds) = old \cup kept \cup N
    BY <1>4
  <2> QED  BY <1>4, <1>5, <2>1 DEF ApartAll, Apart
<1>7. /\ ApartAll(kept, N) /\ Placed(kept \cup N, b)
      /\ OwnedBy(old) \cap b = {} /\ OwnedBy(old) \cap ItemsOf(kept \cup N) = {}
  BY <1>4, <1>6, OldestDropped
<1>8. ApartAll(N, kept) /\ PickersOfBoth(near, Newest(cmds)) = kept \cup N
  BY <1>7 DEF ApartAll, Apart, PickersOfBoth, kept, N
<1>9. ItemsOf(kept \cup N) \subseteq ItemsOf(N \cup PickersOf(cmds))
  BY <1>4 DEF ItemsOf
<1>10. b \subseteq mem \ OwnedBy(old) /\ ItemsOf(kept \cup N) \subseteq mem \ OwnedBy(old)
  BY <1>5, <1>7, <1>9
<1>11. Safe(near, Newest(cmds), b, mem \ OwnedBy(old))
  BY <1>2, <1>4, <1>5, <1>7, <1>8, <1>9, <1>10 DEF Safe, kept, N
<1> QED  BY <1>4, <1>11 DEF cmds

\* A command that is rolled back is freed; there is nothing to redo.
LEMMA SafeFreed ==
    ASSUME NEW near \in Seq(Command), NEW done \in Command, NEW b, NEW mem,
           Safe(Append(near, << >>), Append(<< >>, done), b, mem)
    PROVE  Safe(near, << >>, b, mem \ OwnedBy(ToSet(done)))
<1> DEFINE N == PickersOf(near)
           D == ToSet(done)
<1>1. << >> \in Command /\ << >> \in Seq(Command)
  BY DEF Command
<1>2. PickersOf(Append(near, << >>)) = N /\ AllOrdered(near)
  <2>1. AllOrdered(Append(near, << >>))
    BY DEF Safe
  <2>2. PickersOf(Append(near, << >>)) = PickersOf(near) \cup ToSet(<< >>)
    BY <1>1, CommandAdded
  <2>3. AllOrdered(near)
    BY <1>1, <2>1, CommandAdded
  <2> QED  BY <2>2, <2>3, NoPickers
<1>3. PickersOf(Append(<< >>, done)) = D
  <2>1. PickersOf(Append(<< >>, done)) = PickersOf(<< >>) \cup ToSet(done)
    BY <1>1, CommandAdded
  <2> QED  BY <2>1, NoPickers
<1>4. /\ ApartAll(N, D) /\ Placed(N \cup D, b) /\ b \subseteq mem /\ ItemsOf(N \cup D) \subseteq mem
      /\ ("drc" \in Tools => ItemsOf(N \cup D) \cap Marker = {})
  BY <1>2, <1>3 DEF Safe, PickersOfBoth
<1> HIDE DEF N, D
<1>5. ApartAll(D \cup {}, N) /\ Placed(D \cup {} \cup N, b) /\ FollowAll(D, {})
  <2>1. D \cup {} \cup N = N \cup D
    OBVIOUS
  <2> QED  BY <1>4, <2>1 DEF ApartAll, Apart, FollowAll
<1>6. /\ ApartAll({}, N) /\ Placed({} \cup N, b)
      /\ OwnedBy(D) \cap b = {} /\ OwnedBy(D) \cap ItemsOf({} \cup N) = {}
  BY <1>5, OldestDropped
<1>7. Placed(N, b) /\ OwnedBy(D) \cap ItemsOf(N) = {}
  <2>1. {} \cup N = N
    OBVIOUS
  <2> QED  BY <1>6, <2>1
<1>8. ApartAll(N, {})
  BY DEF ApartAll
<1>9. PickersOfBoth(near, << >>) = N /\ PickersOf(<< >>) = {} /\ AllOrdered(<< >>)
  BY NoPickers DEF PickersOfBoth, N
<1>10. b \subseteq mem \ OwnedBy(D) /\ ItemsOf(N) \subseteq mem \ OwnedBy(D)
  <2>1. ItemsOf(N) \subseteq ItemsOf(N \cup D)
    BY DEF ItemsOf
  <2> QED  BY <1>4, <1>6, <1>7, <2>1
<1>11. "drc" \in Tools => ItemsOf(N) \cap Marker = {}
  BY <1>4 DEF ItemsOf
<1> QED  BY <1>2, <1>7, <1>8, <1>9, <1>10, <1>11 DEF Safe, N, D

\* What a new command may say of the board, b now and S when the command began:
\* it adds what no list knows, and where it is silent the board is as it was.
Recordable(Q, known, S, b, objects) ==
    /\ \A q \in Q : q.item \in known => q.status # "NEWITEM" /\ q.item \in S
    /\ Placed(Q, b)
    /\ \A o \in known \ ItemsOf(Q) : o \in b <=> o \in S
    /\ b \cup known \cup ItemsOf(Q) \subseteq objects
    /\ "drc" \in Tools => ItemsOf(Q) \cap Marker = {}

\* A command that can be recorded goes after all there is.
LEMMA RecordedFollows ==
    ASSUME NEW undo, NEW redo, NEW S, NEW mem, Safe(undo, redo, S, mem), NEW Q, NEW b, NEW objects,
           Recordable(Q, ItemsOf(PickersOfBoth(undo, redo)), S, b, objects)
    PROVE  FollowAll(PickersOf(undo), Q)
<1> SUFFICES ASSUME NEW p \in PickersOf(undo), NEW q \in Q, p.item = q.item
             PROVE  p.status # "DELETED" /\ q.status # "NEWITEM"
  BY DEF FollowAll, Follows
<1>1. p \in PickersOfBoth(undo, redo)
  BY DEF PickersOfBoth
<1>2. p.item \in ItemsOf(PickersOfBoth(undo, redo))
  BY <1>1 DEF ItemsOf
<1>3. q.status # "NEWITEM" /\ q.item \in S
  BY <1>2 DEF Recordable
<1>4. Placed(PickersOfBoth(undo, redo), S)
  BY DEF Safe
<1> QED  BY <1>1, <1>3, <1>4 DEF Placed

\* A new command, alone or at the end of the newest one.
LEMMA RecordedInOrder ==
    ASSUME NEW undo \in Seq(Command), NEW cmd \in Command, AllOrdered(undo), Ordered(cmd),
           FollowAll(PickersOf(undo), ToSet(cmd))
    PROVE  /\ Append(undo, cmd) \in Seq(Command) /\ AllOrdered(Append(undo, cmd))
           /\ PickersOf(Append(undo, cmd)) = PickersOf(undo) \cup ToSet(cmd)
           /\ undo # << >> =>
                /\ Append(Front(undo), Joined(Last(undo), cmd)) \in Seq(Command)
                /\ AllOrdered(Append(Front(undo), Joined(Last(undo), cmd)))
                /\ PickersOf(Append(Front(undo), Joined(Last(undo), cmd))) = PickersOf(undo) \cup ToSet(cmd)
<1>1. /\ Append(undo, cmd) \in Seq(Command) /\ AllOrdered(Append(undo, cmd))
      /\ PickersOf(Append(undo, cmd)) = PickersOf(undo) \cup ToSet(cmd)
  BY CommandAdded
<1>2. ASSUME undo # << >>
      PROVE  /\ Append(Front(undo), Joined(Last(undo), cmd)) \in Seq(Command)
             /\ AllOrdered(Append(Front(undo), Joined(Last(undo), cmd)))
             /\ PickersOf(Append(Front(undo), Joined(Last(undo), cmd))) = PickersOf(undo) \cup ToSet(cmd)
  <2>1. PICK f \in Seq(Command), l \in Command : f = Front(undo) /\ l = Last(undo) /\ undo = Append(f, l)
    BY <1>2, FrontAndLast
  <2>2. PickersOf(undo) = PickersOf(f) \cup ToSet(l)
    BY <2>1, CommandAdded
  <2>3. AllOrdered(f) /\ Ordered(l) /\ FollowAll(PickersOf(f), ToSet(l))
    BY <2>1, CommandAdded
  <2>4. FollowAll(PickersOf(f), ToSet(cmd)) /\ FollowAll(ToSet(l), ToSet(cmd))
    BY <2>2 DEF FollowAll
  <2>5. l \o cmd \in Command /\ ToSet(l \o cmd) = ToSet(l) \cup ToSet(cmd) /\ Ordered(l \o cmd)
    BY <2>3, <2>4, CommandsJoined
  <2>6. FollowAll(PickersOf(f), ToSet(l \o cmd))
    BY <2>3, <2>4, <2>5 DEF FollowAll
  <2>7. PICK c \in Command : c = l \o cmd
    BY <2>5
  <2>8. Append(f, c) \in Seq(Command) /\ AllOrdered(Append(f, c))
        /\ PickersOf(Append(f, c)) = PickersOf(f) \cup ToSet(c)
    <3>1. Ordered(c) /\ FollowAll(PickersOf(f), ToSet(c))
      BY <2>5, <2>6, <2>7
    <3>2. Append(f, c) \in Seq(Command)
      OBVIOUS
    <3> QED  BY <2>3, <3>1, <3>2, CommandAdded
  <2>9. Append(Front(undo), Joined(Last(undo), cmd)) = Append(f, c)
    BY <2>1, <2>7 DEF Joined
  <2> QED  BY <2>2, <2>5, <2>7, <2>8, <2>9
<1> QED  BY <1>1, <1>2

\* SaveCopyInUndoList(): the redo list is freed, the command becomes the newest.
LEMMA SafeRecorded ==
    ASSUME NEW undo \in Seq(Command), NEW redo \in Seq(Command), NEW S, NEW mem, Safe(undo, redo, S, mem),
           NEW Q, NEW b, NEW objects,
           Recordable(Q, ItemsOf(PickersOfBoth(undo, redo)), S, b, objects),
           NEW cmds \in Seq(Command), AllOrdered(cmds), PickersOf(cmds) = PickersOf(undo) \cup Q
    PROVE  Safe(Newest(cmds), << >>, b, objects \ (ItemsOwnedBy(Oldest(cmds)) \cup ItemsOwnedBy(redo)))
<1> DEFINE U == PickersOf(undo)
           R == PickersOf(redo)
           old == PickersOf(Oldest(cmds))
           kept == PickersOf(Newest(cmds))
<1>1. /\ AllOrdered(Newest(cmds)) /\ ItemsOwnedBy(Oldest(cmds)) = OwnedBy(old)
      /\ U \cup Q = old \cup kept /\ FollowAll(old, kept) /\ ItemsOwnedBy(redo) = OwnedBy(R)
  BY NewestAndOldest, OwnedItems
<1>2. /\ ApartAll(U, R) /\ Placed(U \cup R, S)
      /\ ("drc" \in Tools => ItemsOf(U \cup R) \cap Marker = {})
      /\ PickersOfBoth(undo, redo) = U \cup R
  BY DEF Safe, PickersOfBoth
<1>3. Recordable(Q, ItemsOf(U \cup R), S, b, objects)
  BY <1>2
<1> HIDE DEF U, R, old, kept
<1>4. \A p \in U \cup R : p.status = "DELETED" => p.item \notin S /\ p.item \notin b
        /\ \A q \in Q : q.item # p.item
  <2> SUFFICES ASSUME NEW p \in U \cup R, p.status = "DELETED"
               PROVE  p.item \notin S /\ p.item \notin b /\ \A q \in Q : q.item # p.item
    OBVIOUS
  <2>1. p.item \notin S /\ p.item \in ItemsOf(U \cup R)
    BY <1>2 DEF Placed, ItemsOf
  <2>2. \A q \in Q : q.item # p.item
    BY <1>3, <2>1 DEF Recordable
  <2>3. p.item \notin ItemsOf(Q)
    BY <2>2 DEF ItemsOf
  <2> QED  BY <1>3, <2>1, <2>2, <2>3 DEF Recordable
<1>5. Placed(U \cup Q, b)
  <2>1. \A p \in U \cup Q : p.status = "DELETED" => p.item \notin b
    BY <1>3, <1>4 DEF Recordable, Placed
  <2>2. ASSUME NEW p \in U \cup Q, p.item \notin b
        PROVE  \E q \in U \cup Q : q.item = p.item /\ q.status = "DELETED"
    <3>1. CASE p.item \in ItemsOf(Q)
      <4>1. PICK q \in Q : q.item = p.item
        BY <3>1 DEF ItemsOf
      <4>2. \E r \in Q : r.item = q.item /\ r.status = "DELETED"
        BY <1>3, <2>2, <4>1 DEF Recordable, Placed
      <4> QED  BY <4>1, <4>2
    <3>2. CASE p.item \notin ItemsOf(Q)
      <4>1. p \in U
        BY <3>2 DEF ItemsOf
      <4>2. p.item \in ItemsOf(U \cup R) \ ItemsOf(Q)
        BY <3>2, <4>1 DEF ItemsOf
      <4>3. p.item \notin S
        BY <1>3, <2>2, <4>2 DEF Recordable
      <4>4. PICK r \in U \cup R : r.item = p.item /\ r.status = "DELETED"
        BY <1>2, <4>1, <4>3 DEF Placed
      <4>5. r \notin R
        BY <1>2, <4>1, <4>4 DEF ApartAll, Apart
      <4> QED  BY <4>4, <4>5
    <3> QED  BY <3>1, <3>2
  <2> QED  BY <2>1, <2>2 DEF Placed
<1>6. ApartAll(old \cup kept, {}) /\ Placed(old \cup kept \cup {}, b)
  <2>1. old \cup kept \cup {} = U \cup Q
    BY <1>1
  <2> QED  BY <1>5, <2>1 DEF ApartAll
<1>7. /\ ApartAll(kept, {}) /\ Placed(kept \cup {}, b)
      /\ OwnedBy(old) \cap b = {} /\ OwnedBy(old) \cap ItemsOf(kept \cup {}) = {}
  BY <1>1, <1>6, OldestDropped
<1>8. kept \cup {} = kept
  OBVIOUS
<1>9. OwnedBy(R) \cap b = {} /\ OwnedBy(R) \cap ItemsOf(U \cup Q) = {}
  <2>1. OwnedBy(R) \cap b = {}
    BY <1>4 DEF OwnedBy
  <2>2. ASSUME NEW p \in R, p.status = "DELETED", NEW q \in U \cup Q  PROVE q.item # p.item
    BY <1>2, <1>4, <2>2 DEF ApartAll, Apart
  <2>3. OwnedBy(R) \cap ItemsOf(U \cup Q) = {}
    BY <2>2 DEF OwnedBy, ItemsOf
  <2> QED  BY <2>1, <2>3
<1>10. ItemsOf(kept) \subseteq ItemsOf(U \cup Q)
  BY <1>1 DEF ItemsOf
<1>11. ItemsOf(U \cup Q) \subseteq objects /\ b \subseteq objects
       /\ ("drc" \in Tools => ItemsOf(U \cup Q) \cap Marker = {})
  <2>1. ItemsOf(U \cup Q) \subseteq ItemsOf(U \cup R) \cup ItemsOf(Q)
    BY DEF ItemsOf
  <2> QED  BY <1>2, <1>3, <2>1 DEF Recordable
<1>12. PickersOfBoth(Newest(cmds), << >>) = kept /\ PickersOf(<< >>) = {} /\ AllOrdered(<< >>)
  BY NoPickers DEF PickersOfBoth, kept
<1>13. ItemsOf(kept) \subseteq objects \ (OwnedBy(old) \cup OwnedBy(R))
  BY <1>7, <1>8, <1>9, <1>10, <1>11
<1>14. b \subseteq objects \ (OwnedBy(old) \cup OwnedBy(R))
  BY <1>7, <1>9, <1>11
<1>15. "drc" \in Tools => ItemsOf(kept) \cap Marker = {}
  BY <1>10, <1>11
<1>16. ApartAll(PickersOf(Newest(cmds)), PickersOf(<< >>)) /\ Placed(PickersOfBoth(Newest(cmds), << >>), b)
  BY <1>7, <1>8, <1>12 DEF kept
<1>17. ItemsOf(PickersOfBoth(Newest(cmds), << >>)) = ItemsOf(kept)
  BY <1>12
<1> QED  BY <1>1, <1>12, <1>13, <1>14, <1>15, <1>16, <1>17 DEF Safe

------------------------------------------------------------------------------
(* The lines of a commit: S is the board when it began, known what the undo  *)
(* and redo lists refer to, mem what has not been freed.                     *)

ItemsIn(lines) == {lines[k].item : k \in DOMAIN lines}
Adds(lines, K) == {lines[k].item : k \in {j \in K : lines[j].type = "ADD"}}
Removes(lines, K) == {lines[k].item : k \in {j \in K : lines[j].type = "REMOVE"}}
DoneLines(lines) == {k \in DOMAIN lines : lines[k].done}

\* The board when the lines of K have been carried out.
Carried(lines, S, K) == (S \cup Adds(lines, K)) \ Removes(lines, K)

\* What a line can be about.
LineOK(l, S, added, known, mem) ==
    /\ l.item \in mem
    /\ l.type = "ADD" => l.item \notin S \cup known
    /\ l.type = "MODIFY" => l.item \in S /\ ~l.done
    /\ l.type = "REMOVE" => l.item \in S \cup added

\* Of the lines of an item an ADD is the first, a REMOVE the last and a REMOVE
\* that has been done the only one.
LinesOK(lines, S, known, mem) ==
    /\ \A j, k \in DOMAIN lines : j < k /\ lines[j].item = lines[k].item
                                  => lines[j].type # "REMOVE" /\ lines[k].type # "ADD"
    /\ \A j, k \in DOMAIN lines :
          lines[k].type = "REMOVE" /\ lines[k].done /\ lines[j].item = lines[k].item => j = k
    /\ \A k \in DOMAIN lines : LineOK(lines[k], S, Adds(lines, DOMAIN lines), known, mem)

\* What can be staged next.
Fits(l, lines, S, known, mem) ==
    /\ LineOK(l, S, Adds(lines, DOMAIN lines), known, mem)
    /\ l.item \notin Removes(lines, DOMAIN lines)
    /\ l.type = "ADD" \/ l.done => l.item \notin ItemsIn(lines)

\* The same in terms of the set of lines.
LEMMA LineSets ==
    ASSUME NEW lines
    PROVE  /\ ItemsIn(lines) = {l.item : l \in ToSet(lines)}
           /\ Adds(lines, DOMAIN lines) = {l.item : l \in {x \in ToSet(lines) : x.type = "ADD"}}
           /\ Removes(lines, DOMAIN lines) = {l.item : l \in {x \in ToSet(lines) : x.type = "REMOVE"}}
  BY DEF ItemsIn, Adds, Removes, ToSet

\* Two lots of lines in a commit add and remove what each does.
LEMMA LinesJoined ==
    ASSUME NEW lines \in Seq(CommitLine), NEW more \in Seq(CommitLine), NEW S, NEW known, NEW mem,
           LinesOK(lines, S, known, mem),
           \A k \in DOMAIN more : Fits(more[k], lines, S, known, mem),
           \A j, k \in DOMAIN more : more[j].item = more[k].item => j = k
    PROVE  /\ lines \o more \in Seq(CommitLine)
           /\ LinesOK(lines \o more, S, known, mem)
           /\ ItemsIn(lines \o more) = ItemsIn(lines) \cup ItemsIn(more)
           /\ \A K \in SUBSET DOMAIN lines :
                 /\ Adds(lines \o more, K) = Adds(lines, K)
                 /\ Removes(lines \o more, K) = Removes(lines, K)
                 /\ Carried(lines \o more, S, K) = Carried(lines, S, K)
           /\ Removes(lines \o more, DOMAIN (lines \o more))
                 = Removes(lines, DOMAIN lines) \cup Removes(more, DOMAIN more)
           /\ Adds(lines \o more, DOMAIN (lines \o more))
                 = Adds(lines, DOMAIN lines) \cup Adds(more, DOMAIN more)
           /\ DoneLines(more) = {} => DoneLines(lines \o more) = DoneLines(lines)
           /\ ToSet(lines \o more) = ToSet(lines) \cup ToSet(more)
<1> DEFINE r == lines \o more
           m == Len(lines)
           n == Len(more)
<1>1. /\ r \in Seq(CommitLine) /\ m \in Nat /\ n \in Nat /\ DOMAIN r = 1 .. (m + n)
      /\ DOMAIN lines = 1 .. m /\ DOMAIN more = 1 .. n
      /\ \A k \in 1 .. m : r[k] = lines[k]
      /\ \A k \in 1 .. n : r[m + k] = more[k]
  <2>1. r \in Seq(CommitLine) /\ m \in Nat /\ n \in Nat /\ Len(r) = m + n
    BY ConcatProperties
  <2>2. \A k \in 1 .. (m + n) : r[k] = IF k <= m THEN lines[k] ELSE more[k - m]
    BY <2>1
  <2>3. /\ \A k \in 1 .. m : k \in 1 .. (m + n) /\ k <= m
        /\ \A k \in 1 .. n : m + k \in 1 .. (m + n) /\ ~(m + k <= m) /\ (m + k) - m = k
    BY <2>1
  <2>4. DOMAIN r = 1 .. (m + n) /\ DOMAIN lines = 1 .. m /\ DOMAIN more = 1 .. n
    BY <2>1
  <2> HIDE DEF r, m, n
  <2> QED  BY <2>1, <2>2, <2>3, <2>4
<1> HIDE DEF r, m, n
<1>2. \A k \in 1 .. (m + n) : k \in 1 .. m \/ \E i \in 1 .. n : k = m + i
  <2> TAKE k \in 1 .. (m + n)
  <2>1. k \in 1 .. m \/ (k - m \in 1 .. n /\ k = m + (k - m))
    BY <1>1
  <2> QED  BY <2>1
<1>3. /\ \A k \in 1 .. m : k \in 1 .. (m + n)
      /\ \A i \in 1 .. n : m + i \in 1 .. (m + n)
      /\ \A k \in 1 .. m, i \in 1 .. n : k < m + i /\ ~(m + i < k) /\ k # m + i
      /\ \A i, j \in 1 .. n : m + i < m + j => i < j
  BY <1>1
<1>4. ToSet(r) = ToSet(lines) \cup ToSet(more)
  <2>1. ASSUME NEW k \in 1 .. (m + n)  PROVE r[k] \in ToSet(lines) \cup ToSet(more)
    <3>1. CASE k \in 1 .. m
      BY <1>1, <3>1 DEF ToSet
    <3>2. ASSUME NEW i \in 1 .. n, k = m + i  PROVE r[k] \in ToSet(lines) \cup ToSet(more)
      <4>1. r[k] = more[i] /\ i \in DOMAIN more
        BY <1>1, <3>2
      <4> QED  BY <4>1 DEF ToSet
    <3> QED  BY <1>2, <3>1, <3>2
  <2>2. ASSUME NEW k \in 1 .. m  PROVE lines[k] \in ToSet(r)
    <3>1. lines[k] = r[k] /\ k \in DOMAIN r
      BY <1>1, <1>3
    <3> QED  BY <3>1 DEF ToSet
  <2>3. ASSUME NEW i \in 1 .. n  PROVE more[i] \in ToSet(r)
    <3>1. more[i] = r[m + i] /\ m + i \in DOMAIN r
      BY <1>1, <1>3
    <3> QED  BY <3>1 DEF ToSet
  <2>4. ASSUME NEW x \in ToSet(r)  PROVE x \in ToSet(lines) \cup ToSet(more)
    <3>1. PICK k \in 1 .. (m + n) : x = r[k]
      BY <1>1 DEF ToSet
    <3> QED  BY <2>1, <3>1
  <2>5. ToSet(lines) \subseteq ToSet(r)
    BY <1>1, <2>2 DEF ToSet
  <2>6. ToSet(more) \subseteq ToSet(r)
    BY <1>1, <2>3 DEF ToSet
  <2> QED  BY <2>4, <2>5, <2>6
<1>5. ItemsIn(r) = ItemsIn(lines) \cup ItemsIn(more)
  BY <1>4, LineSets
<1>6. ASSUME NEW K \in SUBSET DOMAIN lines
      PROVE  Adds(r, K) = Adds(lines, K) /\ Removes(r, K) = Removes(lines, K)
  <2>1. \A k \in K : r[k] = lines[k]
    BY <1>1
  <2> QED  BY <2>1 DEF Adds, Removes
<1>7. Removes(r, DOMAIN r) = Removes(lines, DOMAIN lines) \cup Removes(more, DOMAIN more)
  BY <1>4, LineSets
<1>8. Adds(r, DOMAIN r) = Adds(lines, DOMAIN lines) \cup Adds(more, DOMAIN more)
  BY <1>4, LineSets
<1>9. \A k \in DOMAIN r : LineOK(r[k], S, Adds(r, DOMAIN r), known, mem)
  <2>1. \A k \in 1 .. m : LineOK(lines[k], S, Adds(r, DOMAIN r), known, mem)
    BY <1>1, <1>8 DEF LinesOK, LineOK
  <2>2. \A i \in 1 .. n : LineOK(more[i], S, Adds(r, DOMAIN r), known, mem)
    BY <1>1, <1>8 DEF Fits, LineOK
  <2> SUFFICES ASSUME NEW k \in 1 .. (m + n)  PROVE LineOK(r[k], S, Adds(r, DOMAIN r), known, mem)
    BY <1>1
  <2>3. CASE k \in 1 .. m
    <3>1. r[k] = lines[k]
      BY <1>1, <2>3
    <3> QED  BY <2>1, <2>3, <3>1
  <2>4. ASSUME NEW i \in 1 .. n, k = m + i  PROVE LineOK(r[k], S, Adds(r, DOMAIN r), known, mem)
    <3>1. r[k] = more[i]
      BY <1>1, <2>4
    <3> QED  BY <2>2, <3>1
  <2> QED  BY <1>2, <2>3, <2>4
<1>10. ASSUME NEW k \in 1 .. m, NEW i \in 1 .. n, lines[k].item = more[i].item
      PROVE  lines[k].type # "REMOVE" /\ more[i].type # "ADD" /\ ~more[i].done
  <2>1. Fits(more[i], lines, S, known, mem)
    BY <1>1
  <2>2. more[i].item \in ItemsIn(lines)
    BY <1>1, <1>10 DEF ItemsIn
  <2>3. lines[k].type # "REMOVE"
    BY <1>1, <1>10, <2>1 DEF Fits, Removes
  <2> QED  BY <2>1, <2>2, <2>3 DEF Fits
<1>11. ASSUME NEW j \in DOMAIN r, NEW k \in DOMAIN r, r[j].item = r[k].item
       PROVE  /\ j < k => r[j].type # "REMOVE" /\ r[k].type # "ADD"
              /\ r[k].type = "REMOVE" /\ r[k].done => j = k
  <2>1. CASE j \in 1 .. m /\ k \in 1 .. m
    <3>1. r[j] = lines[j] /\ r[k] = lines[k]
      BY <1>1, <2>1
    <3> QED  BY <1>1, <1>11, <2>1, <3>1 DEF LinesOK
  <2>2. ASSUME j \in 1 .. m, NEW i \in 1 .. n, k = m + i
        PROVE  /\ j < k => r[j].type # "REMOVE" /\ r[k].type # "ADD"
               /\ r[k].type = "REMOVE" /\ r[k].done => j = k
    <3>1. r[j] = lines[j] /\ r[k] = more[i]
      BY <1>1, <2>2
    <3> QED  BY <1>10, <1>11, <2>2, <3>1
  <2>3. ASSUME k \in 1 .. m, NEW i \in 1 .. n, j = m + i
        PROVE  /\ j < k => r[j].type # "REMOVE" /\ r[k].type # "ADD"
               /\ r[k].type = "REMOVE" /\ r[k].done => j = k
    <3>1. r[k] = lines[k] /\ r[j] = more[i]
      BY <1>1, <2>3
    <3>2. ~(j < k)
      BY <1>3, <2>3
    <3> QED  BY <1>10, <1>11, <2>3, <3>1, <3>2
  <2>4. ASSUME NEW i \in 1 .. n, j = m + i, NEW l \in 1 .. n, k = m + l
        PROVE  /\ j < k => r[j].type # "REMOVE" /\ r[k].type # "ADD"
               /\ r[k].type = "REMOVE" /\ r[k].done => j = k
    <3>1. r[j] = more[i] /\ r[k] = more[l]
      BY <1>1, <2>4
    <3>2. i = l
      BY <1>1, <1>11, <3>1
    <3> QED  BY <1>1, <2>4, <3>2
  <2>5. j \in 1 .. (m + n) /\ k \in 1 .. (m + n)
    BY <1>1
  <2>6. \/ j \in 1 .. m \/ \E i \in 1 .. n : j = m + i
    BY <1>2, <2>5
  <2>7. \/ k \in 1 .. m \/ \E i \in 1 .. n : k = m + i
    BY <1>2, <2>5
  <2> QED  BY <2>1, <2>2, <2>3, <2>4, <2>6, <2>7
<1>12. LinesOK(r, S, known, mem)
  BY <1>9, <1>11 DEF LinesOK
<1>13. ASSUME DoneLines(more) = {}  PROVE DoneLines(r) = DoneLines(lines)
  <2>1. \A i \in 1 .. n : ~r[m + i].done
    BY <1>1, <1>13 DEF DoneLines
  <2>2. \A k \in 1 .. m : r[k].done <=> lines[k].done
    BY <1>1
  <2> QED  BY <1>1, <1>2, <1>3, <2>1, <2>2 DEF DoneLines
<1>14. \A K \in SUBSET DOMAIN lines : Carried(r, S, K) = Carried(lines, S, K)
  BY <1>6 DEF Carried
<1> QED  BY <1>1, <1>5, <1>6, <1>7, <1>8, <1>12, <1>13, <1>14, <1>4 DEF r

\* The same for one line, done or not.
LEMMA LineAppended ==
    ASSUME NEW lines \in Seq(CommitLine), NEW l \in CommitLine, NEW S, NEW known, NEW mem,
           LinesOK(lines, S, known, mem), Fits(l, lines, S, known, mem)
    PROVE  /\ Append(lines, l) \in Seq(CommitLine)
           /\ LinesOK(Append(lines, l), S, known, mem)
           /\ ItemsIn(Append(lines, l)) = ItemsIn(lines) \cup {l.item}
           /\ \A K \in SUBSET DOMAIN lines :
                 /\ Carried(Append(lines, l), S, K) = Carried(lines, S, K)
                 /\ l.type = "ADD" => Carried(Append(lines, l), S, K \cup {Len(lines) + 1})
                                      = Carried(lines, S, K) \cup {l.item}
                 /\ l.type = "REMOVE" => Carried(Append(lines, l), S, K \cup {Len(lines) + 1})
                                         = Carried(lines, S, K) \ {l.item}
           /\ Removes(Append(lines, l), DOMAIN Append(lines, l))
                 = Removes(lines, DOMAIN lines) \cup (IF l.type = "REMOVE" THEN {l.item} ELSE {})
           /\ Adds(Append(lines, l), DOMAIN Append(lines, l))
                 = Adds(lines, DOMAIN lines) \cup (IF l.type = "ADD" THEN {l.item} ELSE {})
           /\ DoneLines(Append(lines, l))
                 = DoneLines(lines) \cup (IF l.done THEN {Len(lines) + 1} ELSE {})
<1> DEFINE r == Append(lines, l)
           n == Len(lines)
<1>1. /\ r \in Seq(CommitLine) /\ n \in Nat /\ DOMAIN r = 1 .. (n + 1) /\ DOMAIN lines = 1 .. n
      /\ \A k \in 1 .. n : r[k] = lines[k]
      /\ r[n + 1] = l
  BY AppendAt
<1> HIDE DEF r, n
<1>2. \A k \in 1 .. (n + 1) : k = n + 1 \/ k \in 1 .. n
  BY <1>1
<1>3. /\ \A k \in 1 .. n : k < n + 1 /\ ~(n + 1 < k) /\ k \in 1 .. (n + 1)
      /\ n + 1 \in 1 .. (n + 1) /\ ~(n + 1 < n + 1)
  BY <1>1
<1>4. ItemsIn(r) = ItemsIn(lines) \cup {l.item}
  BY <1>1, <1>2, <1>3 DEF ItemsIn
<1>5. ASSUME NEW K \in SUBSET DOMAIN lines
      PROVE  /\ Adds(r, K) = Adds(lines, K) /\ Removes(r, K) = Removes(lines, K)
             /\ Adds(r, K \cup {n + 1}) = Adds(lines, K) \cup (IF l.type = "ADD" THEN {l.item} ELSE {})
             /\ Removes(r, K \cup {n + 1}) = Removes(lines, K) \cup (IF l.type = "REMOVE" THEN {l.item} ELSE {})
  <2>1. \A k \in K : r[k] = lines[k]
    BY <1>1
  <2>2. Adds(r, K) = Adds(lines, K) /\ Removes(r, K) = Removes(lines, K)
    BY <2>1 DEF Adds, Removes
  <2>3. Adds(r, K \cup {n + 1}) = Adds(lines, K) \cup (IF l.type = "ADD" THEN {l.item} ELSE {})
    BY <1>1, <2>1 DEF Adds
  <2>4. Removes(r, K \cup {n + 1}) = Removes(lines, K) \cup (IF l.type = "REMOVE" THEN {l.item} ELSE {})
    BY <1>1, <2>1 DEF Removes
  <2> QED  BY <2>2, <2>3, <2>4
<1>6. DOMAIN r = DOMAIN lines \cup {n + 1}
  BY <1>1, <1>2, <1>3
<1>7. /\ Removes(r, DOMAIN r) = Removes(lines, DOMAIN lines) \cup (IF l.type = "REMOVE" THEN {l.item} ELSE {})
      /\ Adds(r, DOMAIN r) = Adds(lines, DOMAIN lines) \cup (IF l.type = "ADD" THEN {l.item} ELSE {})
  BY <1>5, <1>6
<1>8. \A k \in DOMAIN r : LineOK(r[k], S, Adds(r, DOMAIN r), known, mem)
  <2>1. \A k \in 1 .. n : LineOK(lines[k], S, Adds(r, DOMAIN r), known, mem)
    BY <1>1, <1>7 DEF LinesOK, LineOK
  <2>2. LineOK(l, S, Adds(r, DOMAIN r), known, mem)
    BY <1>7 DEF Fits, LineOK
  <2> QED  BY <1>1, <1>2, <2>1, <2>2
<1>9. ASSUME NEW k \in 1 .. n, lines[k].item = l.item
      PROVE  lines[k].type # "REMOVE" /\ l.type # "ADD" /\ ~l.done
  <2>1. l.item \in ItemsIn(lines)
    BY <1>1, <1>9 DEF ItemsIn
  <2>2. lines[k].type # "REMOVE"
    BY <1>1, <1>9 DEF Fits, Removes
  <2> QED  BY <2>1, <2>2 DEF Fits
<1>10. ASSUME NEW j \in DOMAIN r, NEW k \in DOMAIN r, r[j].item = r[k].item
       PROVE  /\ j < k => r[j].type # "REMOVE" /\ r[k].type # "ADD"
              /\ r[k].type = "REMOVE" /\ r[k].done => j = k
  <2>1. CASE j \in 1 .. n /\ k \in 1 .. n
    <3>1. r[j] = lines[j] /\ r[k] = lines[k]
      BY <1>1, <2>1
    <3> QED  BY <1>1, <1>10, <2>1, <3>1 DEF LinesOK
  <2>2. CASE j \in 1 .. n /\ k = n + 1
    BY <1>1, <1>9, <1>10, <2>2
  <2>3. CASE k \in 1 .. n /\ j = n + 1
    BY <1>1, <1>3, <1>9, <1>10, <2>3
  <2>4. CASE j = n + 1 /\ k = n + 1
    BY <1>3, <2>4
  <2> QED  BY <1>1, <1>2, <2>1, <2>2, <2>3, <2>4
<1>11. LinesOK(r, S, known, mem)
  BY <1>8, <1>10 DEF LinesOK
<1>12. DoneLines(r) = DoneLines(lines) \cup (IF l.done THEN {n + 1} ELSE {})
  <2>1. \A k \in DOMAIN r : k \in DoneLines(r) <=> k \in DoneLines(lines) \cup (IF l.done THEN {n + 1} ELSE {})
    BY <1>1, <1>2, <1>3 DEF DoneLines
  <2>2. DoneLines(lines) \subseteq DOMAIN r /\ (IF l.done THEN {n + 1} ELSE {}) \subseteq DOMAIN r
    BY <1>6 DEF DoneLines
  <2>3. DoneLines(r) \subseteq DOMAIN r
    BY DEF DoneLines
  <2> QED  BY <2>1, <2>2, <2>3
<1>13. ASSUME NEW K \in SUBSET DOMAIN lines
       PROVE /\ Carried(r, S, K) = Carried(lines, S, K)
             /\ l.type = "ADD" => Carried(r, S, K \cup {n + 1}) = Carried(lines, S, K) \cup {l.item}
             /\ l.type = "REMOVE" => Carried(r, S, K \cup {n + 1}) = Carried(lines, S, K) \ {l.item}
  <2>1. Removes(lines, K) \subseteq Removes(lines, DOMAIN lines)
    BY DEF Removes
  <2>2. l.item \notin Removes(lines, K)
    BY <2>1 DEF Fits
  <2> QED  BY <1>5, <2>2 DEF Carried
<1> QED  BY <1>1, <1>4, <1>7, <1>11, <1>12, <1>13 DEF r, n

------------------------------------------------------------------------------
(* The state.                                                                *)

\* The board when the operation under way began; the DRC tool takes the markers
\* off it at once.
Start == IF mode = "skip" THEN base.board \ Marker ELSE base.board

\* The lists that a command is taken from and goes to, and what of it has been
\* put back.
Near == IF mode = "redo" THEN redoList ELSE undoList
Far == IF mode = "redo" THEN undoList ELSE redoList
Todo(cmd, k) == SubSeq(cmd, 1, k)
Done(cmd, k) == Reverse(SubSeq(cmd, k + 1, Len(cmd)))

\* The lines whose change the view, or the board, has seen.
Seen(lines, p, k) ==
    IF p \in {"staging", "committing", "revert"} THEN {} ELSE {j \in DOMAIN lines : j < k}
Carrying(lines, p, k) ==
    IF p = "revert" THEN {j \in DoneLines(lines) : j <= k}
                    ELSE DoneLines(lines) \cup Seen(lines, p, k)

CommitOK(c, S, E, P, b, v, known, mem) ==
    /\ LinesOK(c.lines, S, known, mem)
    /\ c.items = ItemsIn(c.lines)
    /\ b = Carried(c.lines, S, E)
    /\ v = Carried(c.lines, S, P) \cap Leaf

Known == ItemsOf(PickersOfBoth(undoList, redoList))

\* The lines there can be at each place.
LineAllowed(l, p, m) ==
    /\ p \in {"staging", "revert"} => ~(l.type = "REMOVE" /\ l.done)
    /\ p = "committing" => l.type # "ADD"
    /\ p \in {"staging", "committing", "stale"} /\ "teardrops" \in Tools /\ l.item \in Teardrop
          => l.type = "REMOVE" /\ l.done
    /\ m # "skip" /\ "drc" \in Tools => l.item \notin Marker
    /\ m = "skip" => l.type # "REMOVE" /\ (p = "stale" => l.item \in Marker)

\* What Push() has still to look at is what was staged after the lines ended.
LateLines(lines, k) ==
    \A j \in DOMAIN lines : j >= k => lines[j].type = "MODIFY" \/ (lines[j].type = "ADD" /\ lines[j].done)

\* One picker for each line that Push() has carried out.
Listed(cmd, lines, k) ==
    /\ Len(cmd) = k - 1
    /\ \A j \in DOMAIN cmd : cmd[j].item = lines[j].item /\ cmd[j].status = StatusOfType(lines[j].type)

Pushing == {"lines", "propagate", "update", "late"}

CommitPlace ==
    /\ pc \in {"staging", "committing", "revert"} => mode = "none"
    /\ pc \in {"staging", "committing", "revert", "stale"} \/ mode = "skip" => list = << >>
    /\ pc = "stale" => idx = 1
    /\ pc \in Pushing =>
         /\ idx \in 1 .. (Len(commit.lines) + 1)
         /\ mode # "skip" => Listed(list, commit.lines, idx)
    /\ pc \in Pushing \ {"lines"} => LateLines(commit.lines, idx)
    /\ pc = "revert" => idx \in 0 .. Len(commit.lines)

CommitSafe ==
    /\ Safe(undoList, redoList, Start, allocated)
    /\ CommitOK(commit, Start, Carrying(commit.lines, pc, idx), Seen(commit.lines, pc, idx),
                board, view, Known, allocated)
    /\ \A l \in ToSet(commit.lines) : LineAllowed(l, pc, mode)
    /\ CommitPlace

BoardSafe ==
    /\ connectivity = board \cap Connectable
    /\ pc \in {"idle", "put"} => view = board \cap Leaf /\ commit = EmptyCommit
    /\ pc = "idle" =>
         /\ mode = "none" /\ list = << >>
         /\ Safe(undoList, redoList, board, allocated)
    /\ pc = "put" =>
         /\ idx \in 0 .. Len(list)
         /\ mode = "rollback" => redoList = << >>
         /\ Safe(Append(Near, Todo(list, idx)), Append(Far, Done(list, idx)), board, allocated)
    /\ pc \notin {"idle", "put"} => CommitSafe

------------------------------------------------------------------------------
(* Staging.                                                                  *)

\* A commit that is open: nothing is seen, and what the tools have announced as
\* done is.
OpenOK(c, S, b, v, known, mem) == CommitOK(c, S, DoneLines(c.lines), {}, b, v, known, mem)

\* What an open commit refers to exists, and the view is as it was before it.
LEMMA OpenFacts ==
    ASSUME NEW c \in CommitType, NEW S, NEW b, NEW v, NEW known, NEW mem, S \subseteq mem,
           OpenOK(c, S, b, v, known, mem)
    PROVE  /\ b \subseteq S \cup Adds(c.lines, DOMAIN c.lines)
           /\ Adds(c.lines, DOMAIN c.lines) \subseteq c.items
           /\ Removes(c.lines, DOMAIN c.lines) \subseteq c.items
           /\ c.items \subseteq mem /\ b \subseteq mem /\ v = S \cap Leaf
           /\ c.items = ItemsIn(c.lines)
<1>1. /\ c.items = ItemsIn(c.lines) /\ LinesOK(c.lines, S, known, mem)
      /\ b = Carried(c.lines, S, DoneLines(c.lines)) /\ v = Carried(c.lines, S, {}) \cap Leaf
  BY DEF OpenOK, CommitOK
<1>2. /\ Adds(c.lines, DOMAIN c.lines) \subseteq c.items
      /\ Removes(c.lines, DOMAIN c.lines) \subseteq c.items
  BY <1>1 DEF Adds, Removes, ItemsIn
<1>3. Adds(c.lines, DoneLines(c.lines)) \subseteq Adds(c.lines, DOMAIN c.lines)
  BY DEF Adds, DoneLines
<1>4. c.items \subseteq mem
  BY <1>1 DEF LinesOK, LineOK, ItemsIn
<1>5. Adds(c.lines, {}) = {} /\ Removes(c.lines, {}) = {}
  BY DEF Adds, Removes
<1> QED  BY <1>1, <1>2, <1>3, <1>4, <1>5 DEF Carried

\* The board after a tool has announced, or staged, a change.
BoardStaged(type, done, o, b) ==
    CASE done /\ type = "ADD" -> b \cup {o} [] done /\ type = "REMOVE" -> b \ {o} [] OTHER -> b

\* One more line in an open commit.
LEMMA EntryStaged ==
    ASSUME TypeOK, NEW c \in CommitType, NEW S, NEW b, NEW v, NEW known, NEW mem,
           OpenOK(c, S, b, v, known, mem),
           NEW o \in Object, NEW type \in {"ADD", "REMOVE", "MODIFY"}, NEW done \in BOOLEAN,
           Fits(Line(o, type, done), c.lines, S, known, mem)
    PROVE  /\ MakeEntry(c, o, type, done) \in CommitType
           /\ OpenOK(MakeEntry(c, o, type, done), S, BoardStaged(type, done, o, b), v, known, mem)
           /\ ToSet(MakeEntry(c, o, type, done).lines) = ToSet(c.lines) \cup {Line(o, type, done)}
           /\ Removes(MakeEntry(c, o, type, done).lines, DOMAIN MakeEntry(c, o, type, done).lines)
                = Removes(c.lines, DOMAIN c.lines) \cup (IF type = "REMOVE" THEN {o} ELSE {})
           /\ MakeEntry(c, o, type, done).items = c.items \cup {o}
<1>1. PICK l \in CommitLine : l = Line(o, type, done)
  BY LineType
<1>2. l.item = o /\ l.type = type /\ l.done = done
  BY <1>1 DEF Line
<1>3. PICK lines \in Seq(CommitLine) : lines = c.lines
  BY DEF CommitType
<1>4. LinesOK(lines, S, known, mem) /\ Fits(l, lines, S, known, mem)
  BY <1>1, <1>3 DEF OpenOK, CommitOK
<1> DEFINE r == Append(lines, l)
           n == Len(lines) + 1
<1>5. /\ r \in Seq(CommitLine) /\ LinesOK(r, S, known, mem)
      /\ ItemsIn(r) = ItemsIn(lines) \cup {l.item}
      /\ Removes(r, DOMAIN r) = Removes(lines, DOMAIN lines) \cup (IF l.type = "REMOVE" THEN {l.item} ELSE {})
      /\ DoneLines(r) = DoneLines(lines) \cup (IF l.done THEN {n} ELSE {})
  BY <1>4, LineAppended
<1>6. \A K \in SUBSET DOMAIN lines :
         /\ Carried(r, S, K) = Carried(lines, S, K)
         /\ l.type = "ADD" => Carried(r, S, K \cup {n}) = Carried(lines, S, K) \cup {l.item}
         /\ l.type = "REMOVE" => Carried(r, S, K \cup {n}) = Carried(lines, S, K) \ {l.item}
  BY <1>4, LineAppended
<1>7. ToSet(r) = ToSet(lines) \cup {l}
  BY AppendAt
<1>8. MakeEntry(c, o, type, done) = [lines |-> r, items |-> c.items \cup {o}]
  BY <1>1, <1>3 DEF MakeEntry
<1>9. MakeEntry(c, o, type, done) \in CommitType
  BY MakeEntryType
<1> HIDE DEF r, n
<1>10. DoneLines(lines) \in SUBSET DOMAIN lines /\ {} \in SUBSET DOMAIN lines
  BY DEF DoneLines
<1>11. type = "MODIFY" => ~done
  BY <1>2, <1>4 DEF Fits, LineOK
<1>12. Carried(r, S, DoneLines(r)) = BoardStaged(type, done, o, Carried(lines, S, DoneLines(lines)))
  <2>1. CASE done /\ type = "ADD"
    <3>1. Carried(r, S, DoneLines(lines) \cup {n}) = Carried(lines, S, DoneLines(lines)) \cup {o}
      BY <1>2, <1>6, <1>10, <2>1
    <3> QED  BY <1>2, <1>5, <2>1, <3>1 DEF BoardStaged
  <2>2. CASE done /\ type = "REMOVE"
    <3>1. Carried(r, S, DoneLines(lines) \cup {n}) = Carried(lines, S, DoneLines(lines)) \ {o}
      BY <1>2, <1>6, <1>10, <2>2
    <3> QED  BY <1>2, <1>5, <2>2, <3>1 DEF BoardStaged
  <2>3. CASE ~done
    <3>1. DoneLines(r) = DoneLines(lines)
      BY <1>2, <1>5, <2>3
    <3> QED  BY <1>6, <1>10, <2>3, <3>1 DEF BoardStaged
  <2> QED  BY <1>11, <2>1, <2>2, <2>3
<1>13. Carried(r, S, {}) = Carried(lines, S, {})
  BY <1>6, <1>10
<1>14. /\ b = Carried(lines, S, DoneLines(lines)) /\ v = Carried(lines, S, {}) \cap Leaf
       /\ c.items = ItemsIn(lines)
  BY <1>3 DEF OpenOK, CommitOK
<1>15. PICK e : e = MakeEntry(c, o, type, done)
  OBVIOUS
<1>16. e.lines = r /\ e.items = c.items \cup {o}
  BY <1>8, <1>15
<1>17. OpenOK(e, S, BoardStaged(type, done, o, b), v, known, mem)
  BY <1>2, <1>5, <1>12, <1>13, <1>14, <1>16 DEF OpenOK, CommitOK
<1> QED  BY <1>1, <1>2, <1>3, <1>5, <1>7, <1>9, <1>15, <1>16, <1>17

\* A line that only announces a modification.
Modifies(l, T) == l.type = "MODIFY" /\ ~l.done /\ l.item \in T

\* Staging a modification adds one line, or none.
LEMMA ModifyStaged ==
    ASSUME TypeOK, NEW c \in CommitType, NEW S, NEW b, NEW v, NEW known, NEW mem, S \subseteq mem,
           OpenOK(c, S, b, v, known, mem), NEW o \in Object, o \in b
    PROVE  /\ StageModify(c, o) \in CommitType
           /\ OpenOK(StageModify(c, o), S, b, v, known, mem)
           /\ \A l \in ToSet(StageModify(c, o).lines) : l \in ToSet(c.lines) \/ Modifies(l, {o})
           /\ Removes(StageModify(c, o).lines, DOMAIN StageModify(c, o).lines)
                = Removes(c.lines, DOMAIN c.lines)
           /\ StageModify(c, o).items = c.items \cup {o}
<1>1. CASE o \in c.items
  <2>1. StageModify(c, o) = c /\ c.items = c.items \cup {o}
    BY <1>1 DEF StageModify
  <2> QED  BY <2>1
<1>2. CASE o \notin c.items
  <2>1. StageModify(c, o) = MakeEntry(c, o, "MODIFY", FALSE)
    BY <1>2 DEF StageModify
  <2>2. Fits(Line(o, "MODIFY", FALSE), c.lines, S, known, mem)
    <3>1. o \in S /\ o \in mem /\ o \notin Removes(c.lines, DOMAIN c.lines)
      BY <1>2, OpenFacts
    <3>2. /\ Line(o, "MODIFY", FALSE).item = o /\ Line(o, "MODIFY", FALSE).type = "MODIFY"
          /\ Line(o, "MODIFY", FALSE).done = FALSE
      BY DEF Line
    <3> QED  BY <3>1, <3>2 DEF Fits, LineOK
  <2> DEFINE e == MakeEntry(c, o, "MODIFY", FALSE)
  <2>3. /\ e \in CommitType /\ OpenOK(e, S, BoardStaged("MODIFY", FALSE, o, b), v, known, mem)
        /\ ToSet(e.lines) = ToSet(c.lines) \cup {Line(o, "MODIFY", FALSE)}
        /\ Removes(e.lines, DOMAIN e.lines)
             = Removes(c.lines, DOMAIN c.lines) \cup (IF "MODIFY" = "REMOVE" THEN {o} ELSE {})
        /\ e.items = c.items \cup {o}
    <3>1. PICK t \in {"ADD", "REMOVE", "MODIFY"} : t = "MODIFY"
      OBVIOUS
    <3>2. PICK d \in BOOLEAN : d = FALSE
      OBVIOUS
    <3>3. Fits(Line(o, t, d), c.lines, S, known, mem)
      BY <2>2, <3>1, <3>2
    <3> DEFINE f == MakeEntry(c, o, t, d)
    <3>4. f \in CommitType /\ OpenOK(f, S, BoardStaged(t, d, o, b), v, known, mem)
      BY <3>3, EntryStaged
    <3>5. /\ ToSet(f.lines) = ToSet(c.lines) \cup {Line(o, t, d)}
          /\ f.items = c.items \cup {o}
      BY <3>3, EntryStaged
    <3>6. Removes(f.lines, DOMAIN f.lines)
            = Removes(c.lines, DOMAIN c.lines) \cup (IF t = "REMOVE" THEN {o} ELSE {})
      BY <3>3, EntryStaged
    <3> QED  BY <3>1, <3>2, <3>4, <3>5, <3>6
  <2>4. BoardStaged("MODIFY", FALSE, o, b) = b
    BY DEF BoardStaged
  <2>5. Modifies(Line(o, "MODIFY", FALSE), {o})
    BY DEF Modifies, Line
  <2> HIDE DEF e
  <2>6. \A l \in ToSet(e.lines) : l \in ToSet(c.lines) \/ Modifies(l, {o})
    BY <2>3, <2>5
  <2>7. Removes(e.lines, DOMAIN e.lines) = Removes(c.lines, DOMAIN c.lines)
    BY <2>3
  <2> QED  BY <2>1, <2>3, <2>4, <2>6, <2>7 DEF e
<1> QED  BY <1>1, <1>2

\* Several lines at once, about different objects.
FitTogether(more, lines, S, known, mem) ==
    /\ \A k \in DOMAIN more : Fits(more[k], lines, S, known, mem) /\ ~more[k].done
    /\ \A j, k \in DOMAIN more : more[j].item = more[k].item => j = k

WithLines(c, more) == [lines |-> c.lines \o more, items |-> c.items \cup ItemsIn(more)]

\* Several lines at once in an open commit.
LEMMA LinesStaged ==
    ASSUME NEW c \in CommitType, NEW S, NEW b, NEW v, NEW known, NEW mem,
           OpenOK(c, S, b, v, known, mem), NEW more \in Seq(CommitLine),
           FitTogether(more, c.lines, S, known, mem),
           ItemsIn(more) \subseteq Object
    PROVE  /\ WithLines(c, more) \in CommitType
           /\ OpenOK(WithLines(c, more), S, b, v, known, mem)
           /\ ToSet(WithLines(c, more).lines) = ToSet(c.lines) \cup ToSet(more)
           /\ Removes(WithLines(c, more).lines, DOMAIN WithLines(c, more).lines)
                = Removes(c.lines, DOMAIN c.lines) \cup Removes(more, DOMAIN more)
<1>1. PICK lines \in Seq(CommitLine) : lines = c.lines
  BY DEF CommitType
<1>2. /\ LinesOK(lines, S, known, mem) /\ c.items = ItemsIn(lines)
      /\ b = Carried(lines, S, DoneLines(lines)) /\ v = Carried(lines, S, {}) \cap Leaf
  BY <1>1 DEF OpenOK, CommitOK
<1>3. /\ \A k \in DOMAIN more : Fits(more[k], lines, S, known, mem)
      /\ \A j, k \in DOMAIN more : more[j].item = more[k].item => j = k
  BY <1>1 DEF FitTogether
<1>4. DoneLines(more) = {}
  BY DEF DoneLines, FitTogether
<1> DEFINE r == lines \o more
<1>5. /\ r \in Seq(CommitLine) /\ LinesOK(r, S, known, mem)
      /\ ItemsIn(r) = ItemsIn(lines) \cup ItemsIn(more)
      /\ Removes(r, DOMAIN r) = Removes(lines, DOMAIN lines) \cup Removes(more, DOMAIN more)
      /\ DoneLines(r) = DoneLines(lines)
      /\ \A K \in SUBSET DOMAIN lines : Carried(r, S, K) = Carried(lines, S, K)
      /\ ToSet(r) = ToSet(lines) \cup ToSet(more)
  BY <1>2, <1>3, <1>4, LinesJoined
<1>6. PICK d : d = WithLines(c, more)
  OBVIOUS
<1>7. d.lines = r /\ d.items = c.items \cup ItemsIn(more)
  BY <1>1, <1>6 DEF WithLines
<1>8. d \in CommitType
  BY <1>1, <1>5, <1>6 DEF CommitType, WithLines
<1> HIDE DEF r
<1>9. DoneLines(lines) \in SUBSET DOMAIN lines /\ {} \in SUBSET DOMAIN lines
  BY DEF DoneLines
<1>10. Carried(r, S, DoneLines(r)) = Carried(lines, S, DoneLines(lines))
       /\ Carried(r, S, {}) = Carried(lines, S, {})
  BY <1>5, <1>9
<1>11. OpenOK(d, S, b, v, known, mem)
  BY <1>2, <1>5, <1>7, <1>10 DEF OpenOK, CommitOK
<1> QED  BY <1>1, <1>5, <1>7, <1>8, <1>11, <1>6

\* A modified group: the children that are not staged yet, then the group.
LEMMA GroupStaged ==
    ASSUME TypeOK, NEW c \in CommitType, NEW S, NEW b, NEW v, NEW known, NEW mem, S \subseteq mem,
           OpenOK(c, S, b, v, known, mem), NEW g \in Group, g \in b, members[g] \subseteq b,
           NEW s \in ChildOrders(c, g)
    PROVE  /\ StageModifyGroup(c, g, s) \in CommitType
           /\ OpenOK(StageModifyGroup(c, g, s), S, b, v, known, mem)
           /\ \A l \in ToSet(StageModifyGroup(c, g, s).lines) :
                 l \in ToSet(c.lines) \/ Modifies(l, members[g] \cup {g})
           /\ Removes(StageModifyGroup(c, g, s).lines, DOMAIN StageModifyGroup(c, g, s).lines)
                = Removes(c.lines, DOMAIN c.lines)
<1> DEFINE T == members[g] \ c.items
           more == [k \in 1 .. Len(s) |-> Line(s[k], "MODIFY", FALSE)]
<1>1. T \subseteq Leaf /\ T \subseteq Object /\ T \subseteq members[g] /\ g \in Object
  BY DEF TypeOK, Object
<1>2. IsFiniteSet(T)
  <2>1. IsFiniteSet(Object)
    BY KindsAssumption
  <2> QED  BY <1>1, <2>1, FS_Subset
<1>3. /\ s \in Seq(T) /\ Len(s) \in Nat /\ ToSet(s) = T /\ DOMAIN s = 1 .. Len(s)
      /\ \A j, k \in 1 .. Len(s) : s[j] = s[k] => j = k
  BY <1>2, OrderFacts DEF ChildOrders
<1>4. s \in Seq(Object)
  BY MembersOrder DEF ChildOrders
<1>5. more \in Seq(CommitLine) /\ DOMAIN more = 1 .. Len(s)
  BY <1>4, LinesType
<1>6. \A k \in 1 .. Len(s) : /\ more[k].item = s[k] /\ more[k].type = "MODIFY" /\ ~more[k].done
                             /\ s[k] \in T
  BY <1>3 DEF Line
<1>7. ItemsIn(more) = T
  <2> HIDE DEF more, T
  <2>1. ItemsIn(more) = {s[k] : k \in 1 .. Len(s)}
    BY <1>5, <1>6 DEF ItemsIn
  <2>2. T = {s[k] : k \in 1 .. Len(s)}
    BY <1>3 DEF ToSet
  <2> QED  BY <2>1, <2>2
<1> HIDE DEF more, T
<1>8. \A k \in DOMAIN more : Fits(more[k], c.lines, S, known, mem) /\ ~more[k].done
  <2> SUFFICES ASSUME NEW k \in 1 .. Len(s)  PROVE Fits(more[k], c.lines, S, known, mem)
    BY <1>5, <1>6
  <2>1. s[k] \in b /\ s[k] \notin c.items
    BY <1>6 DEF T
  <2>2. s[k] \in S /\ s[k] \in mem /\ s[k] \notin Removes(c.lines, DOMAIN c.lines)
    BY <2>1, OpenFacts
  <2> QED  BY <1>6, <2>2 DEF Fits, LineOK
<1>9. \A j, k \in DOMAIN more : more[j].item = more[k].item => j = k
  BY <1>3, <1>5, <1>6
<1>10. Removes(more, DOMAIN more) = {}
  BY <1>5, <1>6 DEF Removes
<1>11. \A l \in ToSet(more) : Modifies(l, members[g])
  BY <1>1, <1>5, <1>6 DEF ToSet, Modifies
<1>12. PICK d : d = WithLines(c, more)
  OBVIOUS
<1>13. /\ d \in CommitType /\ OpenOK(d, S, b, v, known, mem)
       /\ ToSet(d.lines) = ToSet(c.lines) \cup ToSet(more)
       /\ Removes(d.lines, DOMAIN d.lines) = Removes(c.lines, DOMAIN c.lines) \cup Removes(more, DOMAIN more)
  <2>1. ItemsIn(more) \subseteq Object
    BY <1>1, <1>7
  <2>2. FitTogether(more, c.lines, S, known, mem)
    BY <1>8, <1>9 DEF FitTogether
  <2> QED  BY <1>5, <1>12, <2>1, <2>2, LinesStaged
<1>14. StageModifyGroup(c, g, s) = StageModify(d, g)
  BY <1>3, <1>7, <1>12 DEF StageModifyGroup, WithLines, more
<1>15. /\ StageModify(d, g) \in CommitType
       /\ OpenOK(StageModify(d, g), S, b, v, known, mem)
       /\ \A l \in ToSet(StageModify(d, g).lines) : l \in ToSet(d.lines) \/ Modifies(l, {g})
       /\ Removes(StageModify(d, g).lines, DOMAIN StageModify(d, g).lines) = Removes(d.lines, DOMAIN d.lines)
  BY <1>1, <1>13, ModifyStaged
<1>16. ASSUME NEW l \in ToSet(StageModify(d, g).lines)
       PROVE  l \in ToSet(c.lines) \/ Modifies(l, members[g] \cup {g})
  BY <1>11, <1>13, <1>15 DEF Modifies
<1> QED  BY <1>10, <1>13, <1>14, <1>15, <1>16

\* A group that is deleted: the group, then its members.
Removing(l, T) == l.type = "REMOVE" /\ ~l.done /\ l.item \in T
GroupLines(c, g, s) ==
    [lines |-> c.lines \o RemoveLines(<<g>> \o s), items |-> c.items \cup {g} \cup members[g]]

\* Removing a group stages it and those of its members that are not staged yet.
LEMMA GroupRemoved ==
    ASSUME TypeOK, NEW c \in CommitType, NEW S, NEW b, NEW v, NEW known, NEW mem, S \subseteq mem,
           OpenOK(c, S, b, v, known, mem), NEW g \in Group, g \in b, members[g] \subseteq b,
           g \notin Removes(c.lines, DOMAIN c.lines),
           members[g] \cap Removes(c.lines, DOMAIN c.lines) = {},
           NEW s \in SetToSeqs(members[g])
    PROVE  /\ OpenOK(GroupLines(c, g, s), S, b, v, known, mem)
           /\ \A l \in ToSet(GroupLines(c, g, s).lines) :
                 l \in ToSet(c.lines) \/ Removing(l, members[g] \cup {g})
<1> DEFINE T == members[g]
           objects == <<g>> \o s
           more == RemoveLines(objects)
<1>1. T \subseteq Leaf /\ T \subseteq Object /\ g \in Object /\ g \notin T
  BY KindsAssumption DEF TypeOK, Object, Leaf
<1>2. IsFiniteSet(T)
  <2>1. IsFiniteSet(Object)
    BY KindsAssumption
  <2> QED  BY <1>1, <2>1, FS_Subset
<1>3. /\ s \in Seq(T) /\ Len(s) \in Nat /\ ToSet(s) = T /\ DOMAIN s = 1 .. Len(s)
      /\ \A j, k \in 1 .. Len(s) : s[j] = s[k] => j = k
  BY <1>2, OrderFacts
<1>4. s \in Seq(Object)
  BY MembersOrder
<1>5. /\ objects \in Seq(Object) /\ Len(objects) = Len(s) + 1
      /\ objects[1] = g /\ DOMAIN objects = 1 .. Len(objects)
      /\ \A k \in 2 .. (Len(s) + 1) : objects[k] = s[k - 1]
  BY <1>1, <1>3, <1>4, ConcatProperties
<1>6. \A j, k \in 1 .. Len(objects) : objects[j] = objects[k] => j = k
  <2>1. \A k \in 1 .. Len(objects) : k = 1 \/ (k \in 2 .. (Len(s) + 1) /\ k - 1 \in 1 .. Len(s))
    BY <1>3, <1>5
  <2>2. \A k \in 1 .. Len(s) : s[k] \in T
    BY <1>3
  <2>3. \A k \in 2 .. (Len(s) + 1) : objects[k] # g
    BY <1>1, <1>3, <1>5, <2>2
  <2>4. \A j, k \in 2 .. (Len(s) + 1) : objects[j] = objects[k] => j = k
    <3> SUFFICES ASSUME NEW j \in 2 .. (Len(s) + 1), NEW k \in 2 .. (Len(s) + 1), objects[j] = objects[k]
                 PROVE  j = k
      OBVIOUS
    <3>1. j - 1 \in 1 .. Len(s) /\ k - 1 \in 1 .. Len(s)
      BY <1>3
    <3>2. j - 1 = k - 1
      BY <1>3, <1>5, <3>1
    <3> QED  BY <3>2
  <2> HIDE DEF objects
  <2> QED  BY <1>5, <2>1, <2>3, <2>4
<1>7. ToSet(objects) = T \cup {g}
  <2>1. ToSet(objects) \subseteq T \cup {g}
    <3> SUFFICES ASSUME NEW k \in 1 .. Len(objects)  PROVE objects[k] \in T \cup {g}
      BY <1>5 DEF ToSet
    <3>1. CASE k = 1
      BY <1>5, <3>1
    <3>2. CASE k # 1
      <4>1. k \in 2 .. (Len(s) + 1) /\ k - 1 \in 1 .. Len(s)
        BY <1>3, <1>5, <3>2
      <4>2. objects[k] = s[k - 1]
        BY <1>5, <4>1
      <4> QED  BY <1>3, <4>1, <4>2
    <3> QED  BY <3>1, <3>2
  <2>2. g \in ToSet(objects)
    <3>1. 1 \in DOMAIN objects
      BY <1>3, <1>5
    <3> QED  BY <1>5, <3>1 DEF ToSet
  <2>3. T \subseteq ToSet(objects)
    <3> SUFFICES ASSUME NEW k \in 1 .. Len(s)  PROVE s[k] \in ToSet(objects)
      BY <1>3 DEF ToSet
    <3>1. k + 1 \in 2 .. (Len(s) + 1) /\ k + 1 \in 1 .. Len(objects) /\ (k + 1) - 1 = k
      BY <1>3, <1>5
    <3>2. objects[k + 1] = s[k]
      BY <1>5, <3>1
    <3>3. k + 1 \in DOMAIN objects
      BY <1>5, <3>1
    <3> QED  BY <3>2, <3>3 DEF ToSet
  <2> QED  BY <2>1, <2>2, <2>3
<1> HIDE DEF objects
<1>8. /\ more \in Seq(CommitLine) /\ DOMAIN more = 1 .. Len(objects)
      /\ \A k \in 1 .. Len(objects) :
            more[k].item = objects[k] /\ more[k].type = "REMOVE" /\ ~more[k].done
  BY <1>5, LinesType DEF RemoveLines, Line
<1> HIDE DEF more
<1>9. \A k \in 1 .. Len(objects) : objects[k] \in T \cup {g}
  BY <1>5, <1>7 DEF ToSet
<1>10. ItemsIn(more) = T \cup {g}
  <2>1. ItemsIn(more) = {objects[k] : k \in 1 .. Len(objects)}
    BY <1>8 DEF ItemsIn
  <2>2. ToSet(objects) = {objects[k] : k \in 1 .. Len(objects)}
    BY <1>5 DEF ToSet
  <2> QED  BY <1>7, <2>1, <2>2
<1>11. \A k \in DOMAIN more : Fits(more[k], c.lines, S, known, mem) /\ ~more[k].done
  <2> SUFFICES ASSUME NEW k \in 1 .. Len(objects)  PROVE Fits(more[k], c.lines, S, known, mem)
    BY <1>8
  <2>1. objects[k] \in b /\ objects[k] \notin Removes(c.lines, DOMAIN c.lines)
    BY <1>9
  <2>2. objects[k] \in S \cup Adds(c.lines, DOMAIN c.lines) /\ objects[k] \in mem
    BY <2>1, OpenFacts
  <2> QED  BY <1>8, <2>1, <2>2 DEF Fits, LineOK
<1>12. \A j, k \in DOMAIN more : more[j].item = more[k].item => j = k
  BY <1>6, <1>8
<1>13. \A l \in ToSet(more) : Removing(l, T \cup {g})
  BY <1>8, <1>9 DEF ToSet, Removing
<1>14. PICK d : d = WithLines(c, more)
  OBVIOUS
<1>15. /\ d \in CommitType /\ OpenOK(d, S, b, v, known, mem)
       /\ ToSet(d.lines) = ToSet(c.lines) \cup ToSet(more)
  <2>1. ItemsIn(more) \subseteq Object
    BY <1>1, <1>10
  <2>2. more \in Seq(CommitLine)
    BY <1>8
  <2>3. FitTogether(more, c.lines, S, known, mem)
    BY <1>11, <1>12 DEF FitTogether
  <2> QED  BY <1>14, <2>1, <2>2, <2>3, LinesStaged
<1>16. d = GroupLines(c, g, s)
  <2>1. c.items \cup {g} \cup T = c.items \cup (T \cup {g})
    OBVIOUS
  <2> QED  BY <1>10, <1>14, <2>1 DEF WithLines, GroupLines, more, objects
<1>17. \A l \in ToSet(d.lines) : l \in ToSet(c.lines) \/ Removing(l, members[g] \cup {g})
  BY <1>13, <1>15
<1> HIDE DEF T
<1> QED  BY <1>15, <1>16, <1>17

\* The tools that leave the lists in disorder: markers of the user's commands that
\* the DRC deletes, teardrops that two tools remove in one commit, and a cleaner that
\* takes off an item which its commit has staged as modified.
PlainTools ==
    /\ "drc" \in Tools => "remove_markers" \notin Tools
    /\ "teardrops" \in Tools => "remove_teardrops" \notin Tools
    /\ "cleanup_modified" \notin Tools

\* A commit that has just been made.
LEMMA NoLines ==
    ASSUME NEW S, NEW known, NEW mem
    PROVE  /\ OpenOK(EmptyCommit, S, S, S \cap Leaf, known, mem)
           /\ ToSet(EmptyCommit.lines) = {}
<1>1. EmptyCommit.lines = << >> /\ EmptyCommit.items = {} /\ DOMAIN << >> = {}
  BY DEF EmptyCommit
<1>2. LinesOK(<< >>, S, known, mem) /\ ItemsIn(<< >>) = {} /\ DoneLines(<< >>) = {}
      /\ Carried(<< >>, S, {}) = S
  BY <1>1 DEF LinesOK, ItemsIn, DoneLines, Carried, Adds, Removes
<1> QED  BY <1>1, <1>2, NoPickers DEF OpenOK, CommitOK

\* A tool goes on with a commit, or begins one.
LEMMA Opened ==
    ASSUME TypeOK, BoardSafe, NEW next \in {"staging", "committing"}, pc \in {"idle", next}
    PROVE  /\ mode = "none" /\ list = << >>
           /\ Safe(undoList, redoList, present.board, allocated)
           /\ OpenOK(commit, present.board, board, view, Known, allocated)
           /\ \A l \in ToSet(commit.lines) : LineAllowed(l, next, "none")
           /\ commit \in CommitType
           /\ present.board \subseteq allocated /\ Known \subseteq allocated
<1>1. commit \in CommitType
  BY DEF TypeOK, CommitType
<1>2. CASE pc = "idle"
  <2>1. present.board = board
    BY <1>2 DEF present, Document
  <2>2. /\ mode = "none" /\ list = << >> /\ commit = EmptyCommit /\ view = board \cap Leaf
        /\ Safe(undoList, redoList, board, allocated)
    BY <1>2 DEF BoardSafe
  <2>3. OpenOK(commit, present.board, board, view, Known, allocated) /\ ToSet(commit.lines) = {}
    BY <2>1, <2>2, NoLines
  <2> QED  BY <1>1, <2>1, <2>2, <2>3 DEF Safe, Known
<1>3. CASE pc = next
  <2>1. CommitSafe
    BY <1>3 DEF BoardSafe
  <2>2. mode = "none" /\ list = << >>
    BY <1>3, <2>1 DEF CommitSafe, CommitPlace
  <2>3. present.board = Start
    BY <1>3, <2>2 DEF present, Start
  <2>4. Seen(commit.lines, pc, idx) = {} /\ Carrying(commit.lines, pc, idx) = DoneLines(commit.lines)
    BY <1>3 DEF Seen, Carrying
  <2>5. OpenOK(commit, Start, board, view, Known, allocated)
    BY <2>1, <2>4 DEF CommitSafe, OpenOK
  <2>6. \A l \in ToSet(commit.lines) : LineAllowed(l, next, "none")
    BY <1>3, <2>1, <2>2 DEF CommitSafe
  <2> QED  BY <1>1, <2>1, <2>2, <2>3, <2>5, <2>6 DEF CommitSafe, Safe, Known
<1> QED  BY <1>2, <1>3

\* The state after a tool has staged something.
LEMMA StagedSafe ==
    ASSUME pc' \in {"staging", "committing"}, mode' = "none", list' = << >>,
           NEW S, base'.board = S,
           Safe(undoList', redoList', S, allocated'),
           OpenOK(commit', S, board', view', Known', allocated'),
           \A l \in ToSet(commit'.lines) : LineAllowed(l, pc', "none"),
           connectivity' = board' \cap Connectable
    PROVE  BoardSafe'
<1>1. Start' = S
  BY DEF Start
<1>2. Seen(commit.lines, pc, idx)' = {} /\ Carrying(commit.lines, pc, idx)' = DoneLines(commit'.lines)
  BY DEF Seen, Carrying, DoneLines
<1>3. CommitOK(commit', Start', Carrying(commit.lines, pc, idx)', Seen(commit.lines, pc, idx)',
               board', view', Known', allocated')
  BY <1>1, <1>2 DEF OpenOK
<1>4. CommitPlace'
  BY DEF CommitPlace, Pushing
<1>5. (\A l \in ToSet(commit.lines) : LineAllowed(l, pc, mode))'
  BY DEF ToSet, LineAllowed
<1>6. Safe(undoList, redoList, Start, allocated)'
  BY <1>1 DEF Safe, PickersOf, PickersOfBoth, AllOrdered, Ordered, ItemsOf, ToSet
<1>7. CommitSafe'
  BY <1>3, <1>4, <1>5, <1>6 DEF CommitSafe, CommitOK, LinesOK, LineOK, ItemsIn, Carried, Adds, Removes
<1> QED  BY <1>7 DEF BoardSafe

\* An object is created: what refers to other objects is not affected.
LEMMA MoreMemory ==
    ASSUME NEW c \in CommitType, NEW S, NEW b, NEW v, NEW known, NEW mem, NEW more, mem \subseteq more,
           OpenOK(c, S, b, v, known, mem)
    PROVE  OpenOK(c, S, b, v, known, more)
<1>1. LinesOK(c.lines, S, known, mem)
  BY DEF OpenOK, CommitOK
<1>2. LinesOK(c.lines, S, known, more)
  BY <1>1 DEF LinesOK, LineOK
<1> QED  BY <1>2 DEF OpenOK, CommitOK

\* An object that does not exist yet is nowhere.
LEMMA NewObject ==
    ASSUME NEW c \in CommitType, NEW S, NEW b, NEW v, NEW known, NEW mem,
           S \subseteq mem, known \subseteq mem, OpenOK(c, S, b, v, known, mem),
           NEW o, o \notin mem, NEW more, more = mem \cup {o}, NEW l,
           l.item = o, l.type = "ADD"
    PROVE  Fits(l, c.lines, S, known, more)
<1>1. c.items \subseteq mem /\ c.items = ItemsIn(c.lines)
      /\ Removes(c.lines, DOMAIN c.lines) \subseteq c.items
  BY OpenFacts
<1> QED  BY <1>1 DEF Fits, LineOK

\* What an operator stages is allowed where it is staged.
LEMMA AllowedLines ==
    ASSUME NEW l, NEW p \in {"staging", "committing"},
           p = "staging" => ~(l.type = "REMOVE" /\ l.done),
           p = "committing" => l.type # "ADD",
           "teardrops" \in Tools => l.item \notin Teardrop,
           "drc" \in Tools => l.item \notin Marker
    PROVE  LineAllowed(l, p, "none")
  BY DEF LineAllowed

\* The objects of the lists, while the lists stay.
LEMMA KnownKept == ASSUME UNCHANGED <<undoList, redoList>>  PROVE Known' = Known
  BY DEF Known, PickersOfBoth, PickersOf, ItemsOf, ToSet

\* What can be edited is not staged for removal.
LEMMA NotRemoved ==
    ASSUME TypeOK, NEW o
    PROVE  IsStaged(o, "REMOVE") <=> o \in Removes(commit.lines, DOMAIN commit.lines)
<1>1. DOMAIN commit.lines = 1 .. Len(commit.lines)
  BY DEF TypeOK
<1> QED  BY <1>1 DEF IsStaged, Removes

\* The new state, when the memory and the lists stay.
LEMMA Staged ==
    ASSUME TypeOK, BoardSafe, NEW next \in {"staging", "committing"}, Stages(next),
           NEW S, S = present.board, NEW known, known = Known, NEW mem, mem = allocated,
           OpenOK(commit', S, board', view', known, mem),
           \A l \in ToSet(commit'.lines) : l \in ToSet(commit.lines) \/ LineAllowed(l, next, "none"),
           connectivity' = board' \cap Connectable
    PROVE  BoardSafe'
<1>1. /\ pc \in {"idle", next} /\ pc' = next /\ base' = present
      /\ UNCHANGED <<allocated, undoList, redoList, list, mode>>
  BY DEF Stages
<1>2. /\ mode = "none" /\ list = << >>
      /\ Safe(undoList, redoList, present.board, allocated)
      /\ \A l \in ToSet(commit.lines) : LineAllowed(l, next, "none")
  BY <1>1, Opened
<1>3. \A l \in ToSet(commit'.lines) : LineAllowed(l, pc', "none")
  BY <1>1, <1>2
<1>4. Known' = known
  BY <1>1, KnownKept
<1>5. Safe(undoList', redoList', S, allocated')
  BY <1>1, <1>2
<1>6. base'.board = S /\ mode' = "none" /\ list' = << >> /\ pc' \in {"staging", "committing"}
  BY <1>1, <1>2
<1>7. OpenOK(commit', S, board', view', Known', allocated')
  BY <1>1, <1>4
<1> QED  BY <1>3, <1>5, <1>6, <1>7, StagedSafe

\* An object of the board of which the removal is staged, or announced.
Removal(l, o, done) == l.type = "REMOVE" /\ l.done = done /\ l.item = o

\* Remove(): the line is staged, the board is not touched.
LEMMA RemovalStaged ==
    ASSUME TypeOK, NEW c \in CommitType, NEW S, NEW b, NEW v, NEW known, NEW mem, S \subseteq mem,
           OpenOK(c, S, b, v, known, mem), NEW o \in Object, o \in b,
           o \notin Removes(c.lines, DOMAIN c.lines)
    PROVE  /\ OpenOK(MakeEntry(c, o, "REMOVE", FALSE), S, b, v, known, mem)
           /\ \A l \in ToSet(MakeEntry(c, o, "REMOVE", FALSE).lines) :
                 l \in ToSet(c.lines) \/ Removal(l, o, FALSE)
<1>1. PICK t \in {"ADD", "REMOVE", "MODIFY"} : t = "REMOVE"
  OBVIOUS
<1>2. PICK done \in BOOLEAN : done = FALSE
  OBVIOUS
<1>3. Removal(Line(o, t, done), o, FALSE)
  BY <1>1, <1>2 DEF Line, Removal
<1>4. /\ o \in S \cup Adds(c.lines, DOMAIN c.lines) /\ o \in mem
      /\ c.items = ItemsIn(c.lines)
  BY OpenFacts
<1>5. Fits(Line(o, t, done), c.lines, S, known, mem)
  BY <1>2, <1>3, <1>4 DEF Fits, LineOK, Removal
<1>6. /\ OpenOK(MakeEntry(c, o, t, done), S, BoardStaged(t, done, o, b), v, known, mem)
      /\ ToSet(MakeEntry(c, o, t, done).lines) = ToSet(c.lines) \cup {Line(o, t, done)}
  BY <1>5, EntryStaged
<1>7. BoardStaged(t, done, o, b) = b
  BY <1>2 DEF BoardStaged
<1>8. \A l \in ToSet(MakeEntry(c, o, t, done).lines) : l \in ToSet(c.lines) \/ Removal(l, o, FALSE)
  BY <1>3, <1>6
<1> QED  BY <1>1, <1>2, <1>6, <1>7, <1>8

\* Removed(): the tool has taken the item off the board already.
LEMMA RemovalAnnounced ==
    ASSUME TypeOK, NEW c \in CommitType, NEW S, NEW b, NEW v, NEW known, NEW mem, S \subseteq mem,
           OpenOK(c, S, b, v, known, mem), NEW o \in Object, o \in b, o \notin c.items,
           o \notin Removes(c.lines, DOMAIN c.lines)
    PROVE  /\ OpenOK(MakeEntry(c, o, "REMOVE", TRUE), S, b \ {o}, v, known, mem)
           /\ \A l \in ToSet(MakeEntry(c, o, "REMOVE", TRUE).lines) :
                 l \in ToSet(c.lines) \/ Removal(l, o, TRUE)
<1>1. PICK t \in {"ADD", "REMOVE", "MODIFY"} : t = "REMOVE"
  OBVIOUS
<1>2. PICK done \in BOOLEAN : done = TRUE
  OBVIOUS
<1>3. Removal(Line(o, t, done), o, TRUE)
  BY <1>1, <1>2 DEF Line, Removal
<1>4. /\ o \in S \cup Adds(c.lines, DOMAIN c.lines) /\ o \in mem
      /\ c.items = ItemsIn(c.lines)
  BY OpenFacts
<1>5. Fits(Line(o, t, done), c.lines, S, known, mem)
  BY <1>2, <1>3, <1>4 DEF Fits, LineOK, Removal
<1>6. /\ OpenOK(MakeEntry(c, o, t, done), S, BoardStaged(t, done, o, b), v, known, mem)
      /\ ToSet(MakeEntry(c, o, t, done).lines) = ToSet(c.lines) \cup {Line(o, t, done)}
  BY <1>5, EntryStaged
<1>7. BoardStaged(t, done, o, b) = b \ {o}
  BY <1>1, <1>2 DEF BoardStaged
<1>8. \A l \in ToSet(MakeEntry(c, o, t, done).lines) : l \in ToSet(c.lines) \/ Removal(l, o, TRUE)
  BY <1>3, <1>6
<1> QED  BY <1>1, <1>2, <1>6, <1>7, <1>8

\* What a group of the board holds, where groups can be edited.
LEMMA GroupsPlain ==
    ASSUME TypeOK, GroupsEditable, pc \in {"idle", "staging", "committing"}, NEW g \in Group, g \in board
    PROVE  /\ members[g] \subseteq board
           /\ \A o \in members[g] \cup {g} : o \notin Marker /\ ("teardrops" \in Tools => o \notin Teardrop)
<1>1. \A i \in members[g] : i \in board \cap Connectable /\ ("teardrops" \in Tools => i \notin Teardrop)
  BY DEF GroupsEditable
<1>2. Connectable \cap Marker = {} /\ g \notin Marker /\ g \notin Teardrop
  BY KindsAssumption DEF Connectable
<1> QED  BY <1>1, <1>2

\* Each tool that stages something.
LEMMA StagingSafe ==
    ASSUME TypeOK, BoardSafe, GroupsEditable, EnteredGroupKept, PlainTools,
           \/ \E i \in Item, v \in Value :
                 ModifyItem(i, v) \/ AddItem(i, v) \/ AddPlacedItem(i, v)
           \/ \E g \in Group, v \in Value : ModifyGroup(g, v)
           \/ \E i \in Leaf : RemoveItem(i) \/ DeleteItem(i) \/ RemoveFromGroup(i)
           \/ \E g \in Group : DeleteGroup(g)
           \/ \E i \in Item :
                 \/ CleanerRemove(i)
                 \/ \E j \in Item, v \in Value : CleanerMerge(i, j, v)
    PROVE  BoardSafe'
<1>1. /\ \A i \in Item : i \in Object /\ i \in Leaf /\ i \in Connectable /\ i \notin Teardrop /\ i \notin Marker
      /\ \A g \in Group : g \in Object /\ g \notin Leaf /\ g \notin Connectable
                          /\ g \notin Teardrop /\ g \notin Marker
      /\ \A i \in Leaf : i \in Object
  BY KindsAssumption DEF Object, Leaf, Connectable
<1>2. connectivity = board \cap Connectable
  BY DEF BoardSafe
<1>3. PICK S : S = present.board
  OBVIOUS
<1>4. PICK known : known = Known
  OBVIOUS
<1>5. PICK mem : mem = allocated
  OBVIOUS
<1>6. commit \in CommitType
  BY DEF TypeOK, CommitType
<1>7. ASSUME NEW next \in {"staging", "committing"}, pc \in {"idle", next}
      PROVE  /\ mode = "none" /\ list = << >>
             /\ Safe(undoList, redoList, S, mem)
             /\ OpenOK(commit, S, board, view, known, mem)
             /\ S \subseteq mem /\ known \subseteq mem
             /\ \A l \in ToSet(commit.lines) : LineAllowed(l, next, "none")
  BY <1>3, <1>4, <1>5, <1>7, Opened
<1>8. ASSUME NEW i \in Item, NEW v \in Value, ModifyItem(i, v)  PROVE BoardSafe'
  <2>1. Stages("staging") /\ i \in board /\ commit' = StageModify(commit, i)
        /\ UNCHANGED <<board, view, connectivity>>
    BY <1>8 DEF ModifyItem, Editable
  <2>2. pc \in {"idle", "staging"}
    BY <2>1 DEF Stages
  <2>3. OpenOK(commit, S, board, view, known, mem) /\ S \subseteq mem
    BY <1>7, <2>2
  <2>4. /\ OpenOK(commit', S, board, view, known, mem)
        /\ \A l \in ToSet(commit'.lines) : l \in ToSet(commit.lines) \/ Modifies(l, {i})
    BY <1>1, <1>6, <2>1, <2>3, ModifyStaged
  <2>5. \A l \in ToSet(commit'.lines) : l \in ToSet(commit.lines) \/ LineAllowed(l, "staging", "none")
    BY <1>1, <2>4, AllowedLines DEF Modifies
  <2> QED  BY <1>2, <1>3, <1>4, <1>5, <2>1, <2>4, <2>5, Staged
<1>9. ASSUME NEW i \in Item, NEW v \in Value, NEW done \in BOOLEAN,
             (done = FALSE /\ AddItem(i, v)) \/ (done = TRUE /\ AddPlacedItem(i, v))
      PROVE  BoardSafe'
  <2>1. /\ i \notin allocated /\ pc \in {"idle", "staging"} /\ pc' = "staging" /\ base' = present
        /\ allocated' = allocated \cup {i} /\ commit' = MakeEntry(commit, i, "ADD", done)
        /\ UNCHANGED <<view, undoList, redoList, list, mode>>
    BY <1>9 DEF AddItem, AddPlacedItem, Added
  <2>2. /\ board' = IF done THEN board \cup {i} ELSE board
        /\ connectivity' = IF done THEN connectivity \cup ({i} \cap Connectable) ELSE connectivity
    BY <1>9 DEF AddItem, AddPlacedItem, BoardAdd
  <2>3. /\ mode = "none" /\ list = << >>
        /\ Safe(undoList, redoList, S, mem)
        /\ OpenOK(commit, S, board, view, known, mem)
        /\ S \subseteq mem /\ known \subseteq mem
        /\ \A l \in ToSet(commit.lines) : LineAllowed(l, "staging", "none")
    BY <1>7, <2>1
  <2>4. PICK more : more = mem \cup {i}
    OBVIOUS
  <2>5. PICK t \in {"ADD", "REMOVE", "MODIFY"} : t = "ADD"
    OBVIOUS
  <2>6. Line(i, t, done).item = i /\ Line(i, t, done).type = "ADD"
    BY <2>5 DEF Line
  <2>7. Fits(Line(i, t, done), commit.lines, S, known, more)
    <3>1. i \notin mem
      BY <1>5, <2>1
    <3> QED  BY <1>6, <2>3, <2>4, <2>6, <3>1, NewObject
  <2>8. OpenOK(commit, S, board, view, known, more)
    BY <1>6, <2>3, <2>4, MoreMemory
  <2>9. i \in Object
    BY <1>1
  <2>10. /\ OpenOK(MakeEntry(commit, i, t, done), S, BoardStaged(t, done, i, board), view, known, more)
         /\ ToSet(MakeEntry(commit, i, t, done).lines) = ToSet(commit.lines) \cup {Line(i, t, done)}
    BY <1>6, <2>7, <2>8, <2>9, EntryStaged
  <2>11. board' = BoardStaged(t, done, i, board)
    BY <2>2, <2>5 DEF BoardStaged
  <2>12. Safe(undoList, redoList, S, more)
    <3>1. \A o \in ItemsOf(PickersOfBoth(undoList, redoList)) : o \in more
      BY <1>4, <2>3, <2>4 DEF Known
    <3> QED  BY <2>3, <2>4, <3>1, SafeKept
  <2>13. LineAllowed(Line(i, t, done), "staging", "none")
    BY <1>1, <2>6, AllowedLines
  <2>14. \A l \in ToSet(commit'.lines) : LineAllowed(l, pc', "none")
    BY <2>1, <2>3, <2>5, <2>10, <2>13
  <2>15. Known' = known
    BY <1>4, <2>1, KnownKept
  <2>16. OpenOK(commit', S, board', view', Known', allocated') /\ Safe(undoList', redoList', S, allocated')
    BY <1>5, <2>1, <2>4, <2>5, <2>10, <2>11, <2>12, <2>15
  <2>17. connectivity' = board' \cap Connectable
    BY <1>2, <2>2
  <2>18. pc' \in {"staging", "committing"} /\ mode' = "none" /\ list' = << >> /\ base'.board = S
    BY <1>3, <2>1, <2>3
  <2> QED  BY <2>14, <2>16, <2>17, <2>18, StagedSafe
<1>10. ASSUME NEW g \in Group, NEW v \in Value, ModifyGroup(g, v)  PROVE BoardSafe'
  <2>1. Stages("staging") /\ g \in board /\ UNCHANGED <<board, view, connectivity>>
    BY <1>10 DEF ModifyGroup
  <2>2. PICK s \in ChildOrders(commit, g) : commit' = StageModifyGroup(commit, g, s)
    BY <1>10 DEF ModifyGroup
  <2>3. pc \in {"idle", "staging"}
    BY <2>1 DEF Stages
  <2>4. OpenOK(commit, S, board, view, known, mem) /\ S \subseteq mem
    BY <1>7, <2>3
  <2>5. /\ members[g] \subseteq board
        /\ \A o \in members[g] \cup {g} : o \notin Marker /\ ("teardrops" \in Tools => o \notin Teardrop)
    BY <2>1, <2>3, GroupsPlain
  <2>6. /\ OpenOK(commit', S, board, view, known, mem)
        /\ \A l \in ToSet(commit'.lines) : l \in ToSet(commit.lines) \/ Modifies(l, members[g] \cup {g})
    BY <1>6, <2>1, <2>2, <2>4, <2>5, GroupStaged
  <2>7. \A l \in ToSet(commit'.lines) : l \in ToSet(commit.lines) \/ LineAllowed(l, "staging", "none")
    BY <2>5, <2>6, AllowedLines DEF Modifies
  <2> QED  BY <1>2, <1>3, <1>4, <1>5, <2>1, <2>6, <2>7, Staged
<1>11. ASSUME NEW i \in Leaf, RemoveItem(i)  PROVE BoardSafe'
  <2>1. /\ Stages("staging") /\ i \in board /\ ~IsStaged(i, "REMOVE")
        /\ commit' = MakeEntry(commit, i, "REMOVE", FALSE)
        /\ UNCHANGED <<board, view, connectivity>>
        /\ i \in Item \cup UserMarkers \cup UserTeardrops
    BY <1>11 DEF RemoveItem, Editable
  <2>2. pc \in {"idle", "staging"}
    BY <2>1 DEF Stages
  <2>3. OpenOK(commit, S, board, view, known, mem) /\ S \subseteq mem
    BY <1>7, <2>2
  <2>4. i \in Object /\ i \notin Removes(commit.lines, DOMAIN commit.lines)
    BY <1>1, <2>1, NotRemoved
  <2>5. /\ OpenOK(MakeEntry(commit, i, "REMOVE", FALSE), S, board, view, known, mem)
        /\ \A l \in ToSet(MakeEntry(commit, i, "REMOVE", FALSE).lines) :
              l \in ToSet(commit.lines) \/ Removal(l, i, FALSE)
    BY <1>6, <2>1, <2>3, <2>4, RemovalStaged
  <2>6. ("teardrops" \in Tools => i \notin Teardrop) /\ ("drc" \in Tools => i \notin Marker)
    BY <1>1, <2>1, KindsAssumption DEF PlainTools, UserMarkers, UserTeardrops
  <2>7. \A l \in ToSet(commit'.lines) : l \in ToSet(commit.lines) \/ LineAllowed(l, "staging", "none")
    BY <2>1, <2>5, <2>6, AllowedLines DEF Removal
  <2>8. OpenOK(commit', S, board', view', known, mem) /\ connectivity' = board' \cap Connectable
    BY <1>2, <2>1, <2>5
  <2> QED  BY <1>3, <1>4, <1>5, <2>1, <2>7, <2>8, Staged
<1>12. ASSUME NEW i \in Leaf, DeleteItem(i)  PROVE BoardSafe'
  <2>1. /\ Stages("committing") /\ i \in board /\ ~IsStaged(i, "REMOVE") /\ Selectable(i)
        /\ UNCHANGED <<board, view, connectivity>>
    BY <1>12 DEF DeleteItem, Editable
  <2>2. pc \in {"idle", "committing"}
    BY <2>1 DEF Stages
  <2>3. OpenOK(commit, S, board, view, known, mem) /\ S \subseteq mem
    BY <1>7, <2>2
  <2>4. i \in Object /\ i \notin Removes(commit.lines, DOMAIN commit.lines)
    BY <1>1, <2>1, NotRemoved
  <2>5. ("teardrops" \in Tools => i \notin Teardrop) /\ ("drc" \in Tools => i \notin Marker)
    BY <1>1, <2>1, KindsAssumption DEF PlainTools, UserMarkers, Selectable
  <2>6. \E c \in CommitType :
           /\ commit' = MakeEntry(c, i, "REMOVE", FALSE)
           /\ OpenOK(c, S, board, view, known, mem) /\ i \notin Removes(c.lines, DOMAIN c.lines)
           /\ \A l \in ToSet(c.lines) : l \in ToSet(commit.lines) \/ LineAllowed(l, "committing", "none")
    <3>1. CASE parent[i] = None
      <4>1. commit' = MakeEntry(commit, i, "REMOVE", FALSE)
        BY <1>12, <3>1 DEF DeleteItem
      <4> QED  BY <1>6, <2>3, <2>4, <4>1
    <3>2. CASE parent[i] # None
      <4>1. PICK g \in Group : g = parent[i]
        BY <3>2 DEF TypeOK
      <4>2. PICK s \in ChildOrders(commit, g) :
               commit' = MakeEntry(StageModifyGroup(commit, g, s), i, "REMOVE", FALSE)
        BY <1>12, <3>2, <4>1 DEF DeleteItem
      <4>3. g \in board
        BY <2>1, <2>2, <3>2, <4>1 DEF Selectable, EnteredGroupKept
      <4>4. /\ members[g] \subseteq board
            /\ \A o \in members[g] \cup {g} : o \notin Marker /\ ("teardrops" \in Tools => o \notin Teardrop)
        BY <2>2, <4>3, GroupsPlain
      <4> DEFINE c == StageModifyGroup(commit, g, s)
      <4>5. /\ c \in CommitType /\ OpenOK(c, S, board, view, known, mem)
            /\ \A l \in ToSet(c.lines) : l \in ToSet(commit.lines) \/ Modifies(l, members[g] \cup {g})
            /\ Removes(c.lines, DOMAIN c.lines) = Removes(commit.lines, DOMAIN commit.lines)
        BY <1>6, <2>3, <4>3, <4>4, GroupStaged
      <4> HIDE DEF c
      <4>6. \A l \in ToSet(c.lines) : l \in ToSet(commit.lines) \/ LineAllowed(l, "committing", "none")
        BY <4>4, <4>5, AllowedLines DEF Modifies
      <4>7. commit' = MakeEntry(c, i, "REMOVE", FALSE)
        BY <4>2 DEF c
      <4> QED  BY <2>4, <4>5, <4>6, <4>7
    <3> QED  BY <3>1, <3>2
  <2>7. PICK c \in CommitType :
           /\ commit' = MakeEntry(c, i, "REMOVE", FALSE)
           /\ OpenOK(c, S, board, view, known, mem) /\ i \notin Removes(c.lines, DOMAIN c.lines)
           /\ \A l \in ToSet(c.lines) : l \in ToSet(commit.lines) \/ LineAllowed(l, "committing", "none")
    BY <2>6
  <2>8. /\ OpenOK(MakeEntry(c, i, "REMOVE", FALSE), S, board, view, known, mem)
        /\ \A l \in ToSet(MakeEntry(c, i, "REMOVE", FALSE).lines) :
              l \in ToSet(c.lines) \/ Removal(l, i, FALSE)
    BY <2>1, <2>3, <2>4, <2>7, RemovalStaged
  <2>9. \A l \in ToSet(commit'.lines) : l \in ToSet(commit.lines) \/ LineAllowed(l, "committing", "none")
    BY <2>5, <2>7, <2>8, AllowedLines DEF Removal
  <2>10. OpenOK(commit', S, board', view', known, mem) /\ connectivity' = board' \cap Connectable
    BY <1>2, <2>1, <2>7, <2>8
  <2> QED  BY <1>3, <1>4, <1>5, <2>1, <2>9, <2>10, Staged
<1>13. ASSUME NEW i \in Leaf, RemoveFromGroup(i)  PROVE BoardSafe'
  <2>1. /\ Stages("committing") /\ Selectable(i) /\ parent[i] # None
        /\ UNCHANGED <<board, view, connectivity>>
    BY <1>13 DEF RemoveFromGroup
  <2>2. pc \in {"idle", "committing"}
    BY <2>1 DEF Stages
  <2>3. OpenOK(commit, S, board, view, known, mem) /\ S \subseteq mem
    BY <1>7, <2>2
  <2>4. PICK g \in Group : g = parent[i]
    BY <2>1 DEF TypeOK
  <2>5. PICK s \in ChildOrders(commit, g) : commit' = StageModifyGroup(commit, g, s)
    BY <1>13, <2>4 DEF RemoveFromGroup
  <2>6. g \in board
    BY <2>1, <2>2, <2>4 DEF Selectable, EnteredGroupKept
  <2>7. /\ members[g] \subseteq board
        /\ \A o \in members[g] \cup {g} : o \notin Marker /\ ("teardrops" \in Tools => o \notin Teardrop)
    BY <2>2, <2>6, GroupsPlain
  <2>8. /\ OpenOK(commit', S, board, view, known, mem)
        /\ \A l \in ToSet(commit'.lines) : l \in ToSet(commit.lines) \/ Modifies(l, members[g] \cup {g})
    BY <1>6, <2>3, <2>5, <2>6, <2>7, GroupStaged
  <2>9. \A l \in ToSet(commit'.lines) : l \in ToSet(commit.lines) \/ LineAllowed(l, "committing", "none")
    BY <2>7, <2>8, AllowedLines DEF Modifies
  <2> QED  BY <1>2, <1>3, <1>4, <1>5, <2>1, <2>8, <2>9, Staged
<1>14. ASSUME NEW g \in Group, DeleteGroup(g)  PROVE BoardSafe'
  <2>1. /\ Stages("committing") /\ g \in board /\ ~IsStaged(g, "REMOVE")
        /\ UNCHANGED <<board, view, connectivity>>
    BY <1>14 DEF DeleteGroup
  <2>2. PICK s \in SetToSeqs(members[g]) :
          commit' = [lines |-> commit.lines \o RemoveLines(<<g>> \o s),
                     items |-> commit.items \cup {g} \cup members[g]]
    BY <1>14 DEF DeleteGroup
  <2>3. pc \in {"idle", "committing"}
    BY <2>1 DEF Stages
  <2>4. OpenOK(commit, S, board, view, known, mem) /\ S \subseteq mem
    BY <1>7, <2>3
  <2>5. /\ members[g] \subseteq board
        /\ \A o \in members[g] \cup {g} : o \notin Marker /\ ("teardrops" \in Tools => o \notin Teardrop)
    BY <2>1, <2>3, GroupsPlain
  <2>6. g \notin Removes(commit.lines, DOMAIN commit.lines)
    BY <2>1, NotRemoved
  <2>7. members[g] \cap Removes(commit.lines, DOMAIN commit.lines) = {}
    <3>1. CASE pc = "idle"
      <4>1. commit = EmptyCommit
        BY <3>1 DEF BoardSafe
      <4> QED  BY <4>1 DEF EmptyCommit, Removes
    <3>2. CASE pc = "committing"
      <4>1. \A i \in members[g] : ~IsStaged(i, "REMOVE")
        BY <2>1, <3>2 DEF GroupsEditable
      <4> QED  BY <4>1, NotRemoved
    <3> QED  BY <2>3, <3>1, <3>2
  <2>8. /\ OpenOK(GroupLines(commit, g, s), S, board, view, known, mem)
        /\ \A l \in ToSet(GroupLines(commit, g, s).lines) :
              l \in ToSet(commit.lines) \/ Removing(l, members[g] \cup {g})
    BY <1>6, <2>1, <2>4, <2>5, <2>6, <2>7, GroupRemoved
  <2>9. commit' = GroupLines(commit, g, s)
    BY <2>2 DEF GroupLines
  <2>10. \A l \in ToSet(commit'.lines) : l \in ToSet(commit.lines) \/ LineAllowed(l, "committing", "none")
    BY <2>5, <2>8, <2>9, AllowedLines DEF Removing
  <2>11. OpenOK(commit', S, board', view', known, mem) /\ connectivity' = board' \cap Connectable
    BY <1>2, <2>1, <2>8, <2>9
  <2> QED  BY <1>3, <1>4, <1>5, <2>1, <2>10, <2>11, Staged
<1>15. ASSUME NEW c \in CommitType, NEW i \in Item, i \in board, ~IsStaged(i, "REMOVE"),
              pc \in {"idle", "committing"}, ~IsStaged(i, "MODIFY"),
              \A l \in ToSet(c.lines) : l \in ToSet(commit.lines) \/ Modifies(l, Item \ {i}),
              OpenOK(c, S, board, view, known, mem)
       PROVE  /\ OpenOK(MakeEntry(c, i, "REMOVE", TRUE), S, board \ {i}, view, known, mem)
              /\ \A l \in ToSet(MakeEntry(c, i, "REMOVE", TRUE).lines) :
                    l \in ToSet(commit.lines) \/ LineAllowed(l, "committing", "none")
  <2>1. \A l \in ToSet(commit.lines) : l.item # i
    <3> SUFFICES ASSUME NEW k \in DOMAIN commit.lines, commit.lines[k].item = i  PROVE FALSE
      BY DEF ToSet
    <3>1. k \in 1 .. Len(commit.lines)
      BY DEF TypeOK
    <3>2. commit.lines[k].type \notin {"REMOVE", "MODIFY"}
      BY <1>15, <3>1 DEF IsStaged
    <3>3. commit.lines[k].type \in {"ADD", "REMOVE", "MODIFY"}
      BY <3>1, CommitLineType DEF CommitLine
    <3>4. commit.lines[k] \in ToSet(commit.lines)
      BY DEF ToSet
    <3>5. LineAllowed(commit.lines[k], "committing", "none")
      BY <1>7, <1>15, <3>4
    <3> QED  BY <3>2, <3>3, <3>5 DEF LineAllowed
  <2>2. S \subseteq mem
    BY <1>7, <1>15
  <2>3. \A l \in ToSet(c.lines) : l.item # i
    BY <1>15, <2>1 DEF Modifies
  <2>4. i \notin c.items /\ i \notin Removes(c.lines, DOMAIN c.lines)
    <3>1. c.items = ItemsIn(c.lines) /\ Removes(c.lines, DOMAIN c.lines) \subseteq c.items
      BY <1>15, <2>2, OpenFacts
    <3> QED  BY <2>3, <3>1, LineSets
  <2>5. i \in Object
    BY <1>1
  <2>6. /\ OpenOK(MakeEntry(c, i, "REMOVE", TRUE), S, board \ {i}, view, known, mem)
        /\ \A l \in ToSet(MakeEntry(c, i, "REMOVE", TRUE).lines) :
              l \in ToSet(c.lines) \/ Removal(l, i, TRUE)
    BY <1>15, <2>2, <2>4, <2>5, RemovalAnnounced
  <2>7. \A l : Modifies(l, Item \ {i}) \/ Removal(l, i, TRUE) => LineAllowed(l, "committing", "none")
    BY <1>1, AllowedLines DEF Modifies, Removal
  <2>8. \A l \in ToSet(MakeEntry(c, i, "REMOVE", TRUE).lines) :
              l \in ToSet(commit.lines) \/ LineAllowed(l, "committing", "none")
    BY <1>15, <2>6, <2>7
  <2> QED  BY <2>6, <2>8
<1>16. ASSUME NEW i \in Item, CleanerRemove(i)  PROVE BoardSafe'
  <2>1. /\ Stages("committing") /\ i \in board /\ ~IsStaged(i, "REMOVE") /\ ~IsStaged(i, "MODIFY")
        /\ commit' = MakeEntry(commit, i, "REMOVE", TRUE)
        /\ board' = board \ {i} /\ connectivity' = connectivity \ {i} /\ UNCHANGED view
    BY <1>16 DEF CleanerRemove, Editable, Removed, BoardRemove, PlainTools
  <2>2. pc \in {"idle", "committing"}
    BY <2>1 DEF Stages
  <2>3. OpenOK(commit, S, board, view, known, mem)
    BY <1>7, <2>2
  <2>4. /\ OpenOK(commit', S, board', view', known, mem)
        /\ \A l \in ToSet(commit'.lines) : l \in ToSet(commit.lines) \/ LineAllowed(l, "committing", "none")
    BY <1>6, <1>15, <2>1, <2>2, <2>3
  <2>5. connectivity' = board' \cap Connectable
    BY <1>2, <2>1
  <2> QED  BY <1>3, <1>4, <1>5, <2>1, <2>4, <2>5, Staged
<1>17. ASSUME NEW i \in Item, NEW j \in Item, NEW v \in Value, CleanerMerge(i, j, v)  PROVE BoardSafe'
  <2>1. /\ Stages("committing") /\ i \in board /\ j \in board /\ j # i
        /\ ~IsStaged(j, "REMOVE") /\ ~IsStaged(j, "MODIFY")
        /\ commit' = MakeEntry(StageModify(commit, i), j, "REMOVE", TRUE)
        /\ board' = board \ {j} /\ connectivity' = (connectivity \cup {i}) \ {j} /\ UNCHANGED view
    BY <1>17 DEF CleanerMerge, Editable, Removed, PlainTools
  <2>2. pc \in {"idle", "committing"}
    BY <2>1 DEF Stages
  <2>3. OpenOK(commit, S, board, view, known, mem) /\ S \subseteq mem
    BY <1>7, <2>2
  <2> DEFINE c == StageModify(commit, i)
  <2>4. /\ c \in CommitType /\ OpenOK(c, S, board, view, known, mem)
        /\ \A l \in ToSet(c.lines) : l \in ToSet(commit.lines) \/ Modifies(l, {i})
    BY <1>1, <1>6, <2>1, <2>3, ModifyStaged
  <2> HIDE DEF c
  <2>5. \A l \in ToSet(c.lines) : l \in ToSet(commit.lines) \/ Modifies(l, Item \ {j})
    BY <2>1, <2>4 DEF Modifies
  <2>6. /\ OpenOK(MakeEntry(c, j, "REMOVE", TRUE), S, board \ {j}, view, known, mem)
        /\ \A l \in ToSet(MakeEntry(c, j, "REMOVE", TRUE).lines) :
              l \in ToSet(commit.lines) \/ LineAllowed(l, "committing", "none")
    BY <1>15, <2>1, <2>2, <2>4, <2>5
  <2>7. /\ OpenOK(commit', S, board', view', known, mem)
        /\ \A l \in ToSet(commit'.lines) : l \in ToSet(commit.lines) \/ LineAllowed(l, "committing", "none")
    BY <2>1, <2>6 DEF c
  <2>8. connectivity' = board' \cap Connectable
    BY <1>1, <1>2, <2>1
  <2> QED  BY <1>3, <1>4, <1>5, <2>1, <2>7, <2>8, Staged
<1>18. ASSUME NEW i \in Item, NEW v \in Value, AddItem(i, v) \/ AddPlacedItem(i, v)  PROVE BoardSafe'
  BY <1>9, <1>18
<1> QED  BY <1>8, <1>10, <1>11, <1>12, <1>13, <1>14, <1>16, <1>17, <1>18

------------------------------------------------------------------------------
(* Push().                                                                   *)

\* What a line does to the board when those before it, and those that the tools
\* have carried out, have been carried out.
LEMMA LineCarried ==
    ASSUME NEW lines \in Seq(CommitLine), NEW S, NEW known, NEW mem, LinesOK(lines, S, known, mem),
           NEW k \in DOMAIN lines, NEW K \in SUBSET DOMAIN lines,
           \A j \in K : j < k \/ lines[j].done
    PROVE  /\ lines[k].type = "ADD" => Carried(lines, S, K \cup {k}) = Carried(lines, S, K) \cup {lines[k].item}
           /\ lines[k].type = "REMOVE" => Carried(lines, S, K \cup {k}) = Carried(lines, S, K) \ {lines[k].item}
           /\ lines[k].type = "MODIFY" => /\ Carried(lines, S, K \cup {k}) = Carried(lines, S, K)
                                          /\ lines[k].item \in Carried(lines, S, K)
<1>1. lines[k].type # "REMOVE" => lines[k].item \notin Removes(lines, K)
  <2> SUFFICES ASSUME NEW j \in K, lines[j].type = "REMOVE", lines[j].item = lines[k].item,
                      lines[k].type # "REMOVE"
               PROVE  FALSE
    BY DEF Removes
  <2>1. j \in DOMAIN lines
    OBVIOUS
  <2>2. CASE j < k
    BY <2>1, <2>2 DEF LinesOK
  <2>3. CASE lines[j].done
    BY <2>1, <2>3 DEF LinesOK
  <2> QED  BY <2>2, <2>3
<1>2. lines[k].type = "ADD" => /\ Adds(lines, K \cup {k}) = Adds(lines, K) \cup {lines[k].item}
                               /\ Removes(lines, K \cup {k}) = Removes(lines, K)
  BY DEF Adds, Removes
<1>3. lines[k].type = "REMOVE" => /\ Adds(lines, K \cup {k}) = Adds(lines, K)
                                  /\ Removes(lines, K \cup {k}) = Removes(lines, K) \cup {lines[k].item}
  BY DEF Adds, Removes
<1>4. lines[k].type = "MODIFY" => /\ Adds(lines, K \cup {k}) = Adds(lines, K)
                                  /\ Removes(lines, K \cup {k}) = Removes(lines, K)
  BY DEF Adds, Removes
<1>5. lines[k].type = "MODIFY" => lines[k].item \in S
  BY DEF LinesOK, LineOK
<1> QED  BY <1>1, <1>2, <1>3, <1>4, <1>5 DEF Carried

\* The state in the middle of Push() or Revert().
LEMMA CommittedSafe ==
    ASSUME pc' \notin {"idle", "put"}, connectivity' = board' \cap Connectable,
           NEW S, S = Start', Safe(undoList', redoList', S, allocated'),
           NEW K, K = Carrying(commit'.lines, pc', idx'), NEW P, P = Seen(commit'.lines, pc', idx'),
           CommitOK(commit', S, K, P, board', view', Known', allocated'),
           \A l \in ToSet(commit'.lines) : LineAllowed(l, pc', mode'),
           CommitPlace'
    PROVE  BoardSafe'
<1>1. CommitOK(commit, Start, Carrying(commit.lines, pc, idx), Seen(commit.lines, pc, idx),
               board, view, Known, allocated)'
  BY DEF CommitOK, LinesOK, LineOK, ItemsIn, Carried, Adds, Removes, Carrying, Seen, DoneLines
<1>2. (\A l \in ToSet(commit.lines) : LineAllowed(l, pc, mode))'
  BY DEF ToSet, LineAllowed
<1>3. Safe(undoList, redoList, Start, allocated)'
  BY DEF Safe, PickersOf, PickersOfBoth, AllOrdered, Ordered, ItemsOf, ToSet
<1>4. CommitSafe'
  BY <1>1, <1>2, <1>3 DEF CommitSafe
<1> QED  BY <1>4 DEF BoardSafe

\* The same before the step.
LEMMA Committing ==
    ASSUME TypeOK, BoardSafe, pc \in {"stale"} \cup Pushing
    PROVE  /\ commit \in CommitType /\ commit.lines \in Seq(CommitLine)
           /\ DOMAIN commit.lines = 1 .. Len(commit.lines) /\ Len(commit.lines) \in Nat
           /\ CommitSafe
           /\ connectivity = board \cap Connectable
           /\ Safe(undoList, redoList, Start, allocated)
           /\ Start \subseteq allocated /\ Known \subseteq allocated
           /\ CommitOK(commit, Start, DoneLines(commit.lines) \cup {j \in DOMAIN commit.lines : j < idx},
                       {j \in DOMAIN commit.lines : j < idx}, board, view, Known, allocated)
           /\ idx \in 1 .. (Len(commit.lines) + 1)
<1>1. pc \notin {"idle", "put", "staging", "committing", "revert"}
  BY DEF Pushing
<1>2. CommitSafe /\ connectivity = board \cap Connectable
  BY <1>1 DEF BoardSafe
<1>3. /\ commit \in CommitType /\ commit.lines \in Seq(CommitLine)
      /\ DOMAIN commit.lines = 1 .. Len(commit.lines) /\ Len(commit.lines) \in Nat
  BY DEF TypeOK, CommitType
<1>4. Safe(undoList, redoList, Start, allocated)
  BY <1>2 DEF CommitSafe
<1>5. Start \subseteq allocated /\ Known \subseteq allocated
  BY <1>4 DEF Safe, Known
<1>6. /\ Seen(commit.lines, pc, idx) = {j \in DOMAIN commit.lines : j < idx}
      /\ Carrying(commit.lines, pc, idx) = DoneLines(commit.lines) \cup {j \in DOMAIN commit.lines : j < idx}
  BY <1>1 DEF Seen, Carrying
<1>7. idx \in 1 .. (Len(commit.lines) + 1)
  BY <1>2, <1>3 DEF CommitSafe, CommitPlace
<1> QED  BY <1>2, <1>3, <1>4, <1>5, <1>6, <1>7 DEF CommitSafe

\* A line has been carried out: it has its picker, and the loop goes on.
LEMMA LineListed ==
    ASSUME TypeOK, BoardSafe, pc \in Pushing, idx \in 1 .. Len(commit.lines),
           NEW status, NEW link, NextLine(status, link), status = StatusOfType(commit.lines[idx].type),
           UNCHANGED <<commit, pc, mode>>
    PROVE  /\ idx' \in 1 .. (Len(commit.lines) + 1)
           /\ mode # "skip" => Listed(list', commit.lines, idx')
           /\ mode = "skip" => list' = << >>
           /\ pc \in Pushing \ {"lines"} => LateLines(commit.lines, idx')
<1>1. CommitSafe /\ Len(commit.lines) \in Nat
  BY Committing
<1>2. idx' = idx + 1 /\ idx \in Nat
  BY DEF NextLine, TypeOK
<1>3. ASSUME mode # "skip"  PROVE Listed(list', commit.lines, idx')
  <2>1. PICK p : p = NewPicker(commit.lines[idx].item, status, link)
    OBVIOUS
  <2>2. p.item = commit.lines[idx].item /\ p.status = status
    BY <2>1 DEF NewPicker
  <2>3. list' = Append(list, p)
    BY <1>3, <2>1 DEF NextLine
  <2>4. Listed(list, commit.lines, idx)
    BY <1>1, <1>3 DEF CommitSafe, CommitPlace
  <2>5. list \in Seq(Picker)
    BY DEF TypeOK, Command
  <2>6. /\ Len(Append(list, p)) = Len(list) + 1
        /\ DOMAIN Append(list, p) = 1 .. (Len(list) + 1)
        /\ \A j \in 1 .. (Len(list) + 1) : Append(list, p)[j] = IF j = Len(list) + 1 THEN p ELSE list[j]
        /\ DOMAIN list = 1 .. Len(list) /\ Len(list) \in Nat
    BY <2>5
  <2> QED  BY <1>2, <2>2, <2>3, <2>4, <2>6 DEF Listed
<1>4. mode = "skip" => list' = << >>
  BY <1>1 DEF CommitSafe, CommitPlace, NextLine
<1>5. ASSUME pc \in Pushing \ {"lines"}  PROVE LateLines(commit.lines, idx')
  <2>1. LateLines(commit.lines, idx)
    BY <1>1, <1>5 DEF CommitSafe, CommitPlace
  <2>2. DOMAIN commit.lines = 1 .. Len(commit.lines)
    BY Committing, <1>5
  <2> QED  BY <1>1, <1>2, <2>1, <2>2 DEF LateLines
<1> QED  BY <1>1, <1>2, <1>3, <1>4, <1>5

\* The lines before the one that the loop is at.
Before(lines, k) == {j \in DOMAIN lines : j < k}

\* Push() has carried out a line.
LEMMA PushedSafe ==
    ASSUME TypeOK, BoardSafe, pc \in Pushing, idx \in 1 .. Len(commit.lines),
           NEW status, NEW link, NextLine(status, link), status = StatusOfType(commit.lines[idx].type),
           UNCHANGED <<commit, pc, mode, base, undoList, redoList, allocated>>,
           NEW lines, lines = commit.lines, NEW k, k = idx,
           NEW P, P = Before(lines, k), NEW K, K = DoneLines(lines) \cup P,
           board' = Carried(lines, Start, K \cup {k}),
           view' = Carried(lines, Start, P \cup {k}) \cap Leaf,
           connectivity' = board' \cap Connectable
    PROVE  BoardSafe'
<1>1. /\ CommitSafe /\ lines \in Seq(CommitLine) /\ DOMAIN lines = 1 .. Len(lines) /\ Len(lines) \in Nat
      /\ commit.items = ItemsIn(lines) /\ LinesOK(lines, Start, Known, allocated)
      /\ Safe(undoList, redoList, Start, allocated)
  BY Committing DEF CommitOK
<1>2. PICK S : S = Start
  OBVIOUS
<1>3. Start' = S /\ Known' = Known
  BY <1>2, KnownKept DEF Start
<1>4. k \in 1 .. Len(lines) /\ idx' = k + 1
  BY DEF NextLine
<1>5. {j \in DOMAIN lines : j < idx'} = P \cup {k}
  BY <1>1, <1>4 DEF Before
<1>6. /\ Seen(lines, pc', idx') = P \cup {k}
      /\ Carrying(lines, pc', idx') = K \cup {k}
  BY <1>5 DEF Seen, Carrying, Pushing
<1>7. PICK Q : Q = Seen(lines, pc', idx')
  OBVIOUS
<1>8. PICK M : M = Carrying(lines, pc', idx')
  OBVIOUS
<1>9. CommitOK(commit', S, M, Q, board', view', Known', allocated')
  BY <1>1, <1>2, <1>3, <1>6, <1>7, <1>8 DEF CommitOK
<1>10. CommitPlace'
  <2>1. /\ idx' \in 1 .. (Len(commit.lines) + 1)
        /\ mode # "skip" => Listed(list', commit.lines, idx')
        /\ mode = "skip" => list' = << >>
        /\ pc \in Pushing \ {"lines"} => LateLines(commit.lines, idx')
    BY LineListed
  <2>2. pc \notin {"staging", "committing", "revert", "stale"}
    BY DEF Pushing
  <2>3. (mode # "skip" => Listed(list, commit.lines, idx))'
    BY <2>1 DEF Listed
  <2>4. (pc \in Pushing \ {"lines"} => LateLines(commit.lines, idx))'
    BY <2>1 DEF LateLines, Pushing
  <2>5. (pc \notin {"staging", "committing", "revert", "stale"})'
    BY <2>2
  <2> QED  BY <2>1, <2>3, <2>4, <2>5 DEF CommitPlace, Pushing
<1>11. \A l \in ToSet(commit'.lines) : LineAllowed(l, pc', mode')
  BY <1>1 DEF CommitSafe
<1>12. Safe(undoList', redoList', S, allocated')
  BY <1>1, <1>2
<1>13. pc' \notin {"idle", "put"}
  BY DEF Pushing
<1>14. S = Start' /\ M = Carrying(commit'.lines, pc', idx') /\ Q = Seen(commit'.lines, pc', idx')
  BY <1>3, <1>7, <1>8
<1> QED  BY <1>9, <1>10, <1>11, <1>12, <1>13, <1>14, CommittedSafe

\* Each line that Push() carries out.
LEMMA LinesSafe ==
    ASSUME TypeOK, BoardSafe, PushAdd \/ PushRemove \/ PushModify \/ PushLate
    PROVE  BoardSafe'
<1>1. pc \in Pushing /\ idx \in 1 .. Len(commit.lines)
  BY DEF PushAdd, PushRemove, PushModify, PushLate, AtLine, Pushing
<1>2. PICK lines \in Seq(CommitLine) : lines = commit.lines
  BY <1>1, Committing
<1>3. PICK k \in DOMAIN lines : k = idx
  BY <1>1, <1>2, Committing
<1>4. PICK S : S = Start
  OBVIOUS
<1>5. PICK P : P = {j \in DOMAIN lines : j < k}
  OBVIOUS
<1>6. PICK K : K = DoneLines(lines) \cup P
  OBVIOUS
<1>7. PICK known : known = Known
  OBVIOUS
<1>8. /\ LinesOK(lines, S, known, allocated) /\ connectivity = board \cap Connectable
      /\ board = Carried(lines, S, K) /\ view = Carried(lines, S, P) \cap Leaf
      /\ CommitSafe
  BY <1>1, <1>2, <1>3, <1>4, <1>5, <1>6, <1>7, Committing DEF CommitOK
<1>9. PICK l \in CommitLine : l = lines[k]
  BY CommitLineType
<1>10. l.type \in {"ADD", "REMOVE", "MODIFY"} /\ l.done \in BOOLEAN /\ l.item \in Object
  BY DEF CommitLine
<1>11. K \in SUBSET DOMAIN lines /\ P \in SUBSET DOMAIN lines
  BY <1>5, <1>6 DEF DoneLines
<1>12. /\ \A j \in K : j < k \/ lines[j].done
       /\ \A j \in P : j < k \/ lines[j].done
  BY <1>5, <1>6 DEF DoneLines
<1>13. /\ l.type = "ADD" => Carried(lines, S, K \cup {k}) = board \cup {l.item}
       /\ l.type = "REMOVE" => Carried(lines, S, K \cup {k}) = board \ {l.item}
       /\ l.type = "MODIFY" => Carried(lines, S, K \cup {k}) = board /\ l.item \in board
  BY <1>8, <1>9, <1>11, <1>12, LineCarried
<1>14. PICK V : V = Carried(lines, S, P)
  OBVIOUS
<1>15. /\ l.type = "ADD" => Carried(lines, S, P \cup {k}) = V \cup {l.item}
       /\ l.type = "REMOVE" => Carried(lines, S, P \cup {k}) = V \ {l.item}
       /\ l.type = "MODIFY" => Carried(lines, S, P \cup {k}) = V
  BY <1>8, <1>9, <1>11, <1>12, <1>14, LineCarried
<1>16. l.done => Carried(lines, S, K \cup {k}) = board
  <2>1. l.done => K \cup {k} = K
    BY <1>6, <1>9 DEF DoneLines
  <2> QED  BY <1>8, <2>1
<1>17. commit.lines[idx] = l
  BY <1>2, <1>3, <1>9
<1>18. ASSUME NEW status, NEW link, NextLine(status, link), status = StatusOfType(l.type),
              UNCHANGED <<commit, pc, mode, base, undoList, redoList, allocated>>,
              board' = Carried(lines, S, K \cup {k}), view' = Carried(lines, S, P \cup {k}) \cap Leaf,
              connectivity' = board' \cap Connectable
       PROVE  BoardSafe'
  <2>1. P = Before(lines, k)
    BY <1>5 DEF Before
  <2>2. board' = Carried(lines, Start, K \cup {k}) /\ view' = Carried(lines, Start, P \cup {k}) \cap Leaf
    BY <1>4, <1>18
  <2>3. status = StatusOfType(commit.lines[idx].type)
    BY <1>17, <1>18
  <2> QED  BY <1>1, <1>2, <1>3, <1>6, <1>18, <2>1, <2>2, <2>3, PushedSafe
<1>19. CASE PushAdd
  <2>1. /\ l.type = "ADD" /\ board' = board \cup {l.item} /\ view' = view \cup ({l.item} \cap Leaf)
        /\ connectivity' = IF l.done THEN connectivity ELSE connectivity \cup ({l.item} \cap Connectable)
        /\ NextLine("NEWITEM", NoImage)
        /\ UNCHANGED <<commit, pc, mode, base, undoList, redoList, allocated>>
    BY <1>17, <1>19 DEF PushAdd, AtLine, historyVars
  <2>2. PICK status, link : status = "NEWITEM" /\ link = NoImage
    OBVIOUS
  <2>3. status = StatusOfType(l.type)
    BY <2>1, <2>2 DEF StatusOfType
  <2>4. board' = Carried(lines, S, K \cup {k}) /\ view' = Carried(lines, S, P \cup {k}) \cap Leaf
    BY <1>8, <1>13, <1>14, <1>15, <2>1
  <2>5. connectivity' = board' \cap Connectable
    BY <1>8, <1>10, <1>16, <2>1, <2>4
  <2> QED  BY <1>18, <2>1, <2>2, <2>3, <2>4, <2>5
<1>20. CASE PushRemove
  <2>1. /\ l.type = "REMOVE" /\ view' = view \ {l.item}
        /\ board' = IF l.done THEN board ELSE board \ {l.item}
        /\ connectivity' = IF l.done THEN connectivity ELSE connectivity \ {l.item}
        /\ NextLine("DELETED", NoImage)
        /\ UNCHANGED <<commit, pc, mode, base, undoList, redoList, allocated>>
    BY <1>17, <1>20 DEF PushRemove, AtLine, historyVars
  <2>2. PICK status, link : status = "DELETED" /\ link = NoImage
    OBVIOUS
  <2>3. status = StatusOfType(l.type)
    BY <2>1, <2>2 DEF StatusOfType
  <2>4. board' = Carried(lines, S, K \cup {k}) /\ view' = Carried(lines, S, P \cup {k}) \cap Leaf
    BY <1>8, <1>10, <1>13, <1>14, <1>15, <1>16, <2>1
  <2>5. connectivity' = board' \cap Connectable
    BY <1>8, <1>10, <2>1
  <2> QED  BY <1>18, <2>1, <2>2, <2>3, <2>4, <2>5
<1>21. CASE PushModify
  <2>1. /\ l.type = "MODIFY" /\ UNCHANGED <<board, view>>
        /\ connectivity' = connectivity \cup ({l.item} \cap Connectable)
        /\ NextLine("CHANGED", l.copy)
        /\ UNCHANGED <<commit, pc, mode, base, undoList, redoList, allocated>>
    BY <1>17, <1>21 DEF PushModify, AtLine, historyVars
  <2>2. PICK status, link : status = "CHANGED" /\ link = l.copy
    OBVIOUS
  <2>3. status = StatusOfType(l.type)
    BY <2>1, <2>2 DEF StatusOfType
  <2>4. board' = Carried(lines, S, K \cup {k}) /\ view' = Carried(lines, S, P \cup {k}) \cap Leaf
    BY <1>8, <1>13, <1>14, <1>15, <2>1
  <2>5. connectivity' = board' \cap Connectable
    BY <1>8, <1>13, <2>1
  <2> QED  BY <1>18, <2>1, <2>2, <2>3, <2>4, <2>5
<1>22. CASE PushLate
  <2>1. /\ pc = "late" /\ UNCHANGED <<board, connectivity>> /\ view' = ViewOfLate(l)
        /\ NextLine(StatusOfType(l.type), l.copy)
        /\ UNCHANGED <<commit, pc, mode, base, undoList, redoList, allocated>>
    BY <1>17, <1>22 DEF PushLate, historyVars
  <2>2. l.type = "MODIFY" \/ (l.type = "ADD" /\ l.done)
    <3>1. LateLines(commit.lines, idx)
      BY <1>8, <2>1 DEF CommitSafe, CommitPlace, Pushing
    <3> QED  BY <1>1, <1>2, <1>3, <1>9, <3>1 DEF LateLines, TypeOK
  <2>3. PICK status, link : status = StatusOfType(l.type) /\ link = l.copy
    OBVIOUS
  <2>4. board' = Carried(lines, S, K \cup {k})
    BY <1>13, <1>16, <2>1, <2>2
  <2>5. view' = Carried(lines, S, P \cup {k}) \cap Leaf
    BY <1>8, <1>14, <1>15, <2>1, <2>2 DEF ViewOfLate
  <2>6. connectivity' = board' \cap Connectable
    BY <1>8, <2>1
  <2> QED  BY <1>18, <2>1, <2>3, <2>4, <2>5, <2>6
<1> QED  BY <1>19, <1>20, <1>21, <1>22

\* Push() begins, or goes from one of its parts to the next.
LEMMA PartsSafe ==
    ASSUME TypeOK, BoardSafe,
           \/ \E flag \in {"push", "append"} : Push(flag)
           \/ StaleTeardropsDone \/ LinesDone \/ PropagateNothing \/ TeardropsDone
    PROVE  BoardSafe'
<1>1. /\ pc \notin {"idle", "put", "revert"} /\ pc' \in {"stale"} \cup Pushing
      /\ UNCHANGED <<board, view, connectivity, allocated, commit, undoList, redoList, base>>
  BY DEF Push, StaleTeardropsDone, LinesDone, PropagateNothing, TeardropsDone, modelVars,
         historyVars, Pushing
<1>2. CommitSafe /\ connectivity = board \cap Connectable
  BY <1>1 DEF BoardSafe
<1>3. /\ commit.lines \in Seq(CommitLine) /\ DOMAIN commit.lines = 1 .. Len(commit.lines)
      /\ Len(commit.lines) \in Nat /\ idx \in Nat
  BY DEF TypeOK, CommitType
<1>4. PICK S, P, K : S = Start /\ P = Seen(commit.lines, pc, idx) /\ K = Carrying(commit.lines, pc, idx)
  OBVIOUS
<1>5. /\ Safe(undoList, redoList, S, allocated) /\ CommitOK(commit, S, K, P, board, view, Known, allocated)
      /\ \A l \in ToSet(commit.lines) : LineAllowed(l, pc, mode)
  BY <1>2, <1>4 DEF CommitSafe
<1>6. Known' = Known
  BY <1>1, KnownKept
<1>7. /\ Start' = S /\ Seen(commit'.lines, pc', idx') = P /\ Carrying(commit'.lines, pc', idx') = K
      /\ \A l \in ToSet(commit'.lines) : LineAllowed(l, pc', mode')
      /\ CommitPlace'
  <2>1. CASE \E flag \in {"push", "append"} : Push(flag)
    <3>1. /\ pc \in {"staging", "committing"} /\ pc' = "stale" /\ mode' \in {"push", "append"}
          /\ idx' = 1 /\ list' = << >>
      BY <2>1 DEF Push
    <3>2. mode = "none"
      BY <1>2, <3>1 DEF CommitSafe, CommitPlace
    <3>3. Start' = S
      BY <1>1, <1>4, <3>1, <3>2 DEF Start
    <3>4. Seen(commit.lines, pc, idx) = {} /\ Carrying(commit.lines, pc, idx) = DoneLines(commit.lines)
      BY <3>1 DEF Seen, Carrying
    <3>5. {j \in DOMAIN commit.lines : j < 1} = {}
      BY <1>3
    <3>6. /\ Seen(commit'.lines, pc', idx') = {}
          /\ Carrying(commit'.lines, pc', idx') = DoneLines(commit.lines)
      BY <1>1, <3>1, <3>5 DEF Seen, Carrying
    <3>7. \A l \in ToSet(commit'.lines) : LineAllowed(l, pc', mode')
      BY <1>1, <1>5, <3>1, <3>2 DEF LineAllowed
    <3>8. CommitPlace'
      BY <3>1 DEF CommitPlace, Pushing
    <3> QED  BY <1>4, <3>3, <3>4, <3>6, <3>7, <3>8
  <2>2. CASE StaleTeardropsDone \/ LinesDone \/ PropagateNothing \/ TeardropsDone
    <3>1. /\ pc \in {"stale"} \cup Pushing /\ pc' \in Pushing /\ UNCHANGED <<idx, list, mode>>
          /\ pc = "stale" \/ pc' # "lines"
          /\ pc \in {"stale", "lines"} \/ pc' # "propagate"
          /\ pc = "stale" => pc' = "lines"
          /\ pc = "lines" => idx > Len(commit.lines)
      BY <2>2 DEF StaleTeardropsDone, LinesDone, PropagateNothing, TeardropsDone, Pushing
    <3>2. Start' = S
      BY <1>1, <1>4, <3>1 DEF Start
    <3>3. /\ Seen(commit'.lines, pc', idx') = P
          /\ Carrying(commit'.lines, pc', idx') = K
      BY <1>1, <1>4, <3>1 DEF Seen, Carrying, Pushing
    <3>4. \A l \in ToSet(commit'.lines) : LineAllowed(l, pc', mode')
      BY <1>1, <1>5, <3>1 DEF LineAllowed, Pushing
    <3>5. CommitPlace
      BY <1>2 DEF CommitSafe
    <3>6. idx \in 1 .. (Len(commit.lines) + 1)
      BY <1>3, <3>1, <3>5 DEF CommitPlace
    <3>7. mode # "skip" => Listed(list, commit.lines, idx)
      <4>1. CASE pc = "stale"
        <5>1. idx = 1 /\ list = << >>
          BY <3>5, <4>1 DEF CommitPlace
        <5>2. Len(<< >>) = 0 /\ DOMAIN << >> = {}
          OBVIOUS
        <5> QED  BY <5>1, <5>2 DEF Listed
      <4>2. CASE pc \in Pushing
        BY <3>5, <4>2 DEF CommitPlace
      <4> QED  BY <3>1, <4>1, <4>2
    <3>8. pc' # "lines" => LateLines(commit.lines, idx)
      <4>1. CASE pc = "lines"
        BY <1>3, <3>1, <4>1 DEF LateLines
      <4>2. CASE pc \in Pushing \ {"lines"}
        BY <3>5, <4>2 DEF CommitPlace
      <4> QED  BY <3>1, <4>1, <4>2
    <3>9. mode = "skip" => list = << >>
      BY <3>5 DEF CommitPlace
    <3>10. /\ (mode # "skip" => Listed(list, commit.lines, idx))'
           /\ (pc # "lines" => LateLines(commit.lines, idx))'
      BY <1>1, <3>1, <3>7, <3>8 DEF Listed, LateLines
    <3>11. CommitPlace'
      BY <1>1, <3>1, <3>6, <3>9, <3>10 DEF CommitPlace, Pushing
    <3> QED  BY <3>2, <3>3, <3>4, <3>11
  <2> QED  BY <2>1, <2>2
<1>8. Safe(undoList', redoList', S, allocated')
  BY <1>1, <1>5
<1>9. CommitOK(commit', S, K, P, board', view', Known', allocated')
  BY <1>1, <1>5, <1>6
<1>10. pc' \notin {"idle", "put"} /\ connectivity' = board' \cap Connectable
  BY <1>1, <1>2 DEF Pushing
<1> QED  BY <1>7, <1>8, <1>9, <1>10, CommittedSafe

\* LineAppended for one set of lines.
AppendCarries(lines, l, S, K) ==
    /\ Carried(Append(lines, l), S, K) = Carried(lines, S, K)
    /\ l.type = "ADD" => Carried(Append(lines, l), S, K \cup {Len(lines) + 1})
                         = Carried(lines, S, K) \cup {l.item}
    /\ l.type = "REMOVE" => Carried(Append(lines, l), S, K \cup {Len(lines) + 1})
                            = Carried(lines, S, K) \ {l.item}

\* What an added line carries.
LEMMA AppendedCarried ==
    ASSUME NEW lines \in Seq(CommitLine), NEW l \in CommitLine, NEW S, NEW known, NEW mem,
           LinesOK(lines, S, known, mem), Fits(l, lines, S, known, mem),
           NEW K \in SUBSET DOMAIN lines
    PROVE  AppendCarries(lines, l, S, K)
  BY LineAppended DEF AppendCarries

\* While Push() is under way a line is added to the commit.
LEMMA LineAddedSafe ==
    ASSUME TypeOK, BoardSafe, pc \in {"stale", "propagate", "update"},
           pc' = IF pc = "stale" THEN "stale" ELSE "update",
           NEW o \in Object, NEW type \in {"ADD", "REMOVE", "MODIFY"}, NEW done \in BOOLEAN,
           commit' = MakeEntry(commit, o, type, done),
           NEW mem, mem = allocated', allocated \subseteq mem,
           Fits(Line(o, type, done), commit.lines, Start, Known, mem),
           LineAllowed(Line(o, type, done), pc', mode),
           pc # "stale" => type = "MODIFY" \/ (type = "ADD" /\ done),
           board' = BoardStaged(type, done, o, board), connectivity' = board' \cap Connectable,
           UNCHANGED <<view, undoList, redoList, idx, list, mode, base>>
    PROVE  BoardSafe'
<1>1. pc \in {"stale"} \cup Pushing /\ pc \notin {"idle", "put", "staging", "committing", "revert", "lines"}
  BY DEF Pushing
<1>2. PICK lines \in Seq(CommitLine) : lines = commit.lines
  BY <1>1, Committing
<1>3. PICK l \in CommitLine : l = Line(o, type, done)
  BY LineType
<1>4. l.item = o /\ l.type = type /\ l.done = done
  BY <1>3 DEF Line
<1>5. PICK S, known : S = Start /\ known = Known
  OBVIOUS
<1>6. /\ LinesOK(lines, S, known, allocated) /\ connectivity = board \cap Connectable
      /\ commit.items = ItemsIn(lines)
      /\ board = Carried(lines, S, DoneLines(lines) \cup {j \in DOMAIN lines : j < idx})
      /\ view = Carried(lines, S, {j \in DOMAIN lines : j < idx}) \cap Leaf
      /\ CommitSafe /\ Safe(undoList, redoList, S, allocated)
      /\ idx \in 1 .. (Len(lines) + 1) /\ S \subseteq allocated
  BY <1>1, <1>2, <1>5, Committing DEF CommitOK
<1>7. LinesOK(lines, S, known, mem)
  BY <1>6 DEF LinesOK, LineOK
<1>8. Fits(l, lines, S, known, mem)
  BY <1>2, <1>3, <1>5
<1> DEFINE r == Append(lines, l)
           n == Len(lines) + 1
<1>9. /\ r \in Seq(CommitLine) /\ LinesOK(r, S, known, mem) /\ ItemsIn(r) = ItemsIn(lines) \cup {l.item}
      /\ DoneLines(r) = DoneLines(lines) \cup (IF l.done THEN {n} ELSE {})
  BY <1>7, <1>8, LineAppended
<1>10. PICK P, E : P = {j \in DOMAIN lines : j < idx} /\ E = DoneLines(lines) \cup P
  OBVIOUS
<1>11. /\ n \in Nat /\ DOMAIN r = 1 .. n /\ DOMAIN lines = 1 .. (n - 1) /\ Len(r) = n
       /\ \A k \in 1 .. (n - 1) : r[k] = lines[k]
       /\ r[n] = l /\ ToSet(r) = ToSet(lines) \cup {l}
  BY AppendAt
<1>12. commit' = [lines |-> r, items |-> commit.items \cup {o}]
  BY <1>2, <1>3 DEF MakeEntry
<1>13. idx \in 1 .. n
  BY <1>6
<1>14. E \in SUBSET DOMAIN lines /\ P \in SUBSET DOMAIN lines
  BY <1>10 DEF DoneLines
<1>15. /\ Carried(r, S, E) = Carried(lines, S, E) /\ Carried(r, S, P) = Carried(lines, S, P)
       /\ l.type = "ADD" => Carried(r, S, E \cup {n}) = Carried(lines, S, E) \cup {l.item}
       /\ l.type = "REMOVE" => Carried(r, S, E \cup {n}) = Carried(lines, S, E) \ {l.item}
  <2>1. AppendCarries(lines, l, S, E) /\ AppendCarries(lines, l, S, P)
    BY <1>7, <1>8, <1>14, AppendedCarried
  <2> QED  BY <2>1 DEF AppendCarries
<1> HIDE DEF r, n
<1>16. {j \in DOMAIN r : j < idx} = P
  BY <1>10, <1>11, <1>13
<1>17. Seen(r, pc', idx') = P /\ Carrying(r, pc', idx') = DoneLines(r) \cup P
  BY <1>1, <1>16 DEF Seen, Carrying
<1>18. Carried(r, S, P) \cap Leaf = view
  BY <1>6, <1>10, <1>15
<1>19. Carried(r, S, DoneLines(r) \cup P) = board'
  <2>1. board = Carried(lines, S, E)
    BY <1>6, <1>10
  <2>2. DoneLines(r) \cup P = IF done THEN E \cup {n} ELSE E
    BY <1>4, <1>9, <1>10
  <2>3. CASE ~done
    BY <1>15, <2>1, <2>2, <2>3 DEF BoardStaged
  <2>4. CASE done /\ type = "ADD"
    BY <1>4, <1>15, <2>1, <2>2, <2>4 DEF BoardStaged
  <2>5. CASE done /\ type = "REMOVE"
    BY <1>4, <1>15, <2>1, <2>2, <2>5 DEF BoardStaged
  <2>6. type = "MODIFY" => ~done
    BY <1>4, <1>8 DEF Fits, LineOK
  <2> QED  BY <2>3, <2>4, <2>5, <2>6
<1>20. commit'.lines = r /\ commit'.items = ItemsIn(r)
  BY <1>4, <1>6, <1>9, <1>12
<1>21. Known' = known /\ Start' = S
  BY <1>5, KnownKept DEF Start
<1>22. PICK M, Q : M = DoneLines(r) \cup P /\ Q = P
  OBVIOUS
<1>23. CommitOK(commit', S, M, Q, board', view', Known', allocated')
  BY <1>9, <1>18, <1>19, <1>20, <1>21, <1>22 DEF CommitOK
<1>24. \A x \in ToSet(commit'.lines) : LineAllowed(x, pc', mode')
  <2>1. \A x \in ToSet(lines) : LineAllowed(x, pc, mode)
    BY <1>2, <1>6 DEF CommitSafe
  <2>2. \A x \in ToSet(lines) : LineAllowed(x, pc', mode)
    BY <2>1 DEF LineAllowed
  <2> QED  BY <1>3, <1>11, <1>20, <2>2
<1>25. CommitPlace'
  <2>1. CommitPlace
    BY <1>6 DEF CommitSafe
  <2>2. pc \in Pushing /\ mode # "skip" => Listed(list, r, idx)
    <3> SUFFICES ASSUME pc \in Pushing, mode # "skip"  PROVE Listed(list, r, idx)
      OBVIOUS
    <3>1. Listed(list, lines, idx)
      BY <1>2, <2>1 DEF CommitPlace
    <3>2. list \in Seq(Picker)
      BY DEF TypeOK, Command
    <3>3. DOMAIN list = 1 .. (idx - 1)
      BY <3>1, <3>2 DEF Listed
    <3>4. \A j \in DOMAIN list : r[j] = lines[j]
      BY <1>11, <1>13, <3>3
    <3> QED  BY <3>1, <3>4 DEF Listed
  <2>3. pc \in Pushing => LateLines(r, idx)
    <3> SUFFICES ASSUME pc \in Pushing, NEW j \in DOMAIN r, j >= idx
                 PROVE  r[j].type = "MODIFY" \/ (r[j].type = "ADD" /\ r[j].done)
      BY DEF LateLines
    <3>1. CASE j = n
      BY <1>1, <1>4, <1>11, <3>1 DEF Pushing
    <3>2. CASE j # n
      <4>1. j \in DOMAIN lines /\ r[j] = lines[j]
        BY <1>11, <3>2
      <4>2. LateLines(lines, idx)
        BY <1>1, <1>2, <2>1 DEF CommitPlace
      <4> QED  BY <4>1, <4>2 DEF LateLines
    <3> QED  BY <3>1, <3>2
  <2>4. /\ (pc \in Pushing /\ mode # "skip" => Listed(list, commit.lines, idx))'
        /\ (pc \in Pushing => LateLines(commit.lines, idx))'
    BY <1>1, <1>20, <2>2, <2>3 DEF Listed, LateLines, Pushing
  <2>5. pc' = "update" => pc \in Pushing
    BY DEF Pushing
  <2>6. idx' \in 1 .. (Len(commit'.lines) + 1)
    BY <1>11, <1>13, <1>20
  <2>7. /\ mode = "skip" => list = << >>
        /\ pc = "stale" => idx = 1 /\ list = << >>
    BY <2>1 DEF CommitPlace
  <2> QED  BY <2>4, <2>5, <2>6, <2>7 DEF CommitPlace, Pushing
<1>26. Safe(undoList', redoList', S, mem)
  <2>1. \A x \in ItemsOf(PickersOfBoth(undoList, redoList)) : x \in mem
    BY <1>6 DEF Safe
  <2> QED  BY <1>6, <2>1, SafeKept
<1>27. pc' \notin {"idle", "put"}
  OBVIOUS
<1>28. S = Start' /\ M = Carrying(commit'.lines, pc', idx') /\ Q = Seen(commit'.lines, pc', idx')
  BY <1>17, <1>20, <1>21, <1>22
<1>29. Safe(undoList', redoList', S, allocated')
  BY <1>26
<1> QED  BY <1>23, <1>24, <1>25, <1>27, <1>28, <1>29, CommittedSafe

\* What Push() has the tools add to the commit.
LEMMA AdditionsSafe ==
    ASSUME TypeOK, BoardSafe,
           \/ \E t \in Teardrop : RemoveStaleTeardrop(t)
           \/ \E i \in Item, v \in Value : PropagateNet(i, v)
           \/ \E t \in Teardrop, v \in Value : CreateTeardrop(t, v)
    PROVE  BoardSafe'
<1>1. pc \in {"stale"} \cup Pushing /\ pc \in {"stale", "propagate", "update"}
  BY DEF RemoveStaleTeardrop, PropagateNet, CreateTeardrop, Pushing
<1>2. PICK lines \in Seq(CommitLine) : lines = commit.lines
  BY <1>1, Committing
<1>3. PICK S, known : S = Start /\ known = Known
  OBVIOUS
<1>4. PICK E, P : P = {j \in DOMAIN lines : j < idx} /\ E = DoneLines(lines) \cup P
  OBVIOUS
<1>5. /\ LinesOK(lines, S, known, allocated) /\ connectivity = board \cap Connectable
      /\ commit.items = ItemsIn(lines) /\ board = Carried(lines, S, E)
      /\ CommitSafe /\ S \subseteq allocated /\ known \subseteq allocated
  BY <1>1, <1>2, <1>3, <1>4, Committing DEF CommitOK
<1>6. /\ Removes(lines, DOMAIN lines) \subseteq commit.items /\ Adds(lines, E) \subseteq commit.items
      /\ commit.items \subseteq allocated
      /\ Adds(lines, E) \subseteq Adds(lines, DOMAIN lines)
  <2>1. E \subseteq DOMAIN lines
    BY <1>4 DEF DoneLines
  <2> QED  BY <1>5, <2>1 DEF Removes, Adds, ItemsIn, LinesOK, LineOK
<1>7. \A x \in ToSet(lines) : LineAllowed(x, pc, mode)
  BY <1>2, <1>5 DEF CommitSafe
<1>8. ASSUME NEW t \in Teardrop, RemoveStaleTeardrop(t)  PROVE BoardSafe'
  <2>1. /\ pc = "stale" /\ pc' = "stale" /\ "teardrops" \in Tools /\ t \in board
        /\ commit' = MakeEntry(commit, t, "REMOVE", TRUE)
        /\ board' = board \ {t} /\ connectivity' = connectivity \ {t}
        /\ UNCHANGED <<allocated, view, undoList, redoList, idx, list, mode, base>>
    BY <1>8 DEF RemoveStaleTeardrop, Removed, BoardRemove, loopVars, historyVars
  <2>2. t \in Object /\ t \notin Marker /\ t \notin Item
    BY KindsAssumption DEF Object, Leaf
  <2>3. mode # "skip"
    <3>1. PICK k \in 1 .. Len(commit.lines) : commit.lines[k].item \in Item
      BY <1>8 DEF RemoveStaleTeardrop
    <3>2. commit.lines[k] \in ToSet(lines)
      BY <1>2, <3>1 DEF ToSet
    <3>3. mode = "skip" => commit.lines[k].item \in Marker
      BY <1>7, <2>1, <3>2 DEF LineAllowed
    <3> QED  BY <3>1, <3>3, KindsAssumption
  <2>4. t \notin commit.items
    <3> SUFFICES ASSUME NEW k \in DOMAIN lines, lines[k].item = t  PROVE FALSE
      BY <1>5 DEF ItemsIn
    <3>1. lines[k] \in ToSet(lines)
      BY DEF ToSet
    <3>2. lines[k].type = "REMOVE" /\ lines[k].done
      BY <1>7, <2>1, <3>1 DEF LineAllowed
    <3>3. k \in E
      BY <1>4, <3>2 DEF DoneLines
    <3>4. t \in Removes(lines, E)
      BY <3>2, <3>3 DEF Removes
    <3> QED  BY <1>5, <2>1, <3>4 DEF Carried
  <2>5. PICK type \in {"ADD", "REMOVE", "MODIFY"}, done \in BOOLEAN,
          l \in {Line(t, "REMOVE", TRUE)} :
             type = "REMOVE" /\ done = TRUE /\ l = Line(t, type, done)
    OBVIOUS
  <2>6. l.item = t /\ l.type = "REMOVE" /\ l.done = TRUE
    BY <2>5 DEF Line
  <2>7. Fits(l, lines, S, known, allocated)
    <3>1. t \in S \cup Adds(lines, DOMAIN lines)
      BY <1>5, <1>6, <2>1 DEF Carried
    <3>2. t \in allocated
      BY <1>5, <1>6, <2>1 DEF Carried
    <3> QED  BY <1>5, <1>6, <2>4, <2>6, <3>1, <3>2 DEF Fits, LineOK
  <2>8. LineAllowed(l, pc', mode)
    BY <2>1, <2>2, <2>3, <2>6 DEF LineAllowed
  <2>9. board' = BoardStaged(type, done, t, board) /\ connectivity' = board' \cap Connectable
    BY <1>5, <2>1, <2>5 DEF BoardStaged
  <2>10. commit' = MakeEntry(commit, t, type, done)
    BY <2>1, <2>5
  <2>11. PICK mem : mem = allocated'
    OBVIOUS
  <2>12. Fits(Line(t, type, done), commit.lines, Start, Known, mem)
    BY <1>2, <1>3, <2>1, <2>5, <2>7, <2>11
  <2>13. LineAllowed(Line(t, type, done), pc', mode)
    BY <2>5, <2>8
  <2> QED  BY <2>1, <2>2, <2>9, <2>10, <2>11, <2>12, <2>13, LineAddedSafe
<1>9. ASSUME NEW i \in Item, NEW v \in Value, PropagateNet(i, v)  PROVE BoardSafe'
  <2>1. /\ pc = "propagate" /\ pc' = "update" /\ i \in board /\ commit' = StageModify(commit, i)
        /\ UNCHANGED <<board, connectivity, allocated, view, undoList, redoList, idx, list, mode, base>>
    BY <1>5, <1>9 DEF PropagateNet, historyVars
  <2>2. i \in Object /\ i \notin Marker
    BY KindsAssumption DEF Object, Leaf
  <2>3. CASE i \in commit.items
    <3>1. UNCHANGED commit
      BY <2>1, <2>3 DEF StageModify
    <3>2. pc' \in Pushing \ {"lines"} /\ pc \in Pushing \ {"lines"}
      BY <2>1 DEF Pushing
    <3>3. CommitPlace'
      <4>1. /\ idx \in 1 .. (Len(commit.lines) + 1) /\ (mode # "skip" => Listed(list, commit.lines, idx))
            /\ LateLines(commit.lines, idx) /\ (mode = "skip" => list = << >>)
        BY <1>5, <3>2 DEF CommitSafe, CommitPlace
      <4>2. (mode # "skip" => Listed(list, commit.lines, idx))' /\ LateLines(commit.lines, idx)'
        BY <2>1, <3>1, <4>1 DEF Listed, LateLines
      <4> QED  BY <2>1, <3>1, <4>1, <4>2 DEF CommitPlace, Pushing
    <3>4. \A x \in ToSet(commit'.lines) : LineAllowed(x, pc', mode')
      BY <1>2, <1>7, <2>1, <3>1 DEF LineAllowed
    <3>5. PICK Q, M : Q = Seen(commit.lines, pc, idx) /\ M = Carrying(commit.lines, pc, idx)
      OBVIOUS
    <3>6. Q = Seen(commit'.lines, pc', idx') /\ M = Carrying(commit'.lines, pc', idx')
      BY <2>1, <3>1, <3>5 DEF Seen, Carrying
    <3>7. Known' = known /\ S = Start'
      BY <1>3, <2>1, KnownKept DEF Start
    <3>8. CommitOK(commit', S, M, Q, board', view', Known', allocated')
          /\ Safe(undoList', redoList', S, allocated')
      BY <1>3, <1>5, <2>1, <3>1, <3>5, <3>7 DEF CommitSafe
    <3>9. pc' \notin {"idle", "put"} /\ connectivity' = board' \cap Connectable
      BY <1>5, <2>1
    <3> QED  BY <3>3, <3>4, <3>6, <3>7, <3>8, <3>9, CommittedSafe
  <2>4. CASE i \notin commit.items
    <3>1. PICK type \in {"ADD", "REMOVE", "MODIFY"}, done \in BOOLEAN,
            l \in {Line(i, "MODIFY", FALSE)} :
               type = "MODIFY" /\ done = FALSE /\ l = Line(i, type, done)
      OBVIOUS
    <3>2. l.item = i /\ l.type = "MODIFY" /\ l.done = FALSE
      BY <3>1 DEF Line
    <3>3. i \in S
      BY <1>5, <1>6, <2>1, <2>4 DEF Carried
    <3>4. Fits(l, lines, S, known, allocated)
      BY <1>5, <1>6, <2>4, <3>2, <3>3 DEF Fits, LineOK
    <3>5. LineAllowed(l, pc', mode)
      BY <2>1, <2>2, <3>2 DEF LineAllowed
    <3>6. board' = BoardStaged(type, done, i, board) /\ connectivity' = board' \cap Connectable
      BY <1>5, <2>1, <3>1 DEF BoardStaged
    <3>7. commit' = MakeEntry(commit, i, type, done)
      BY <2>1, <2>4, <3>1 DEF StageModify
    <3>8. PICK mem : mem = allocated'
      OBVIOUS
    <3>9. Fits(Line(i, type, done), commit.lines, Start, Known, mem)
      BY <1>2, <1>3, <2>1, <3>1, <3>4, <3>8
    <3>10. LineAllowed(Line(i, type, done), pc', mode)
      BY <3>1, <3>5
    <3> QED  BY <2>1, <2>2, <3>1, <3>6, <3>7, <3>8, <3>9, <3>10, LineAddedSafe
  <2> QED  BY <2>3, <2>4
<1>10. ASSUME NEW t \in Teardrop, NEW v \in Value, CreateTeardrop(t, v)  PROVE BoardSafe'
  <2>1. /\ pc = "update" /\ pc' = "update" /\ t \notin allocated /\ allocated' = allocated \cup {t}
        /\ commit' = MakeEntry(commit, t, "ADD", TRUE)
        /\ board' = board \cup {t} /\ connectivity' = connectivity \cup ({t} \cap Connectable)
        /\ UNCHANGED <<view, undoList, redoList, idx, list, mode, base>>
    BY <1>10 DEF CreateTeardrop, Added, BoardAdd, loopVars, historyVars
  <2>2. t \in Object /\ t \notin Marker
    BY KindsAssumption DEF Object, Leaf
  <2>3. PICK type \in {"ADD", "REMOVE", "MODIFY"}, done \in BOOLEAN,
          l \in {Line(t, "ADD", TRUE)} :
             type = "ADD" /\ done = TRUE /\ l = Line(t, type, done)
    OBVIOUS
  <2>4. l.item = t /\ l.type = "ADD" /\ l.done = TRUE
    BY <2>3 DEF Line
  <2>5. Fits(l, lines, S, known, allocated')
    BY <1>5, <1>6, <2>1, <2>4 DEF Fits, LineOK
  <2>6. LineAllowed(l, pc', mode)
    BY <2>1, <2>2, <2>4 DEF LineAllowed
  <2>7. board' = BoardStaged(type, done, t, board) /\ connectivity' = board' \cap Connectable
    BY <1>5, <2>1, <2>3 DEF BoardStaged
  <2>8. commit' = MakeEntry(commit, t, type, done)
    BY <2>1, <2>3
  <2>9. PICK mem : mem = allocated'
    OBVIOUS
  <2>10. Fits(Line(t, type, done), commit.lines, Start, Known, mem)
    BY <1>2, <1>3, <2>3, <2>5, <2>9
  <2>11. LineAllowed(Line(t, type, done), pc', mode)
    BY <2>3, <2>6
  <2>12. allocated \subseteq mem
    BY <2>1, <2>9
  <2> QED  BY <2>1, <2>2, <2>3, <2>7, <2>8, <2>9, <2>10, <2>11, <2>12, LineAddedSafe
<1> QED  BY <1>8, <1>9, <1>10

\* The state when no operation is under way.
LEMMA IdleSafe ==
    ASSUME pc' = "idle", mode' = "none", list' = << >>, commit' = EmptyCommit,
           view' = board' \cap Leaf, connectivity' = board' \cap Connectable,
           Safe(undoList', redoList', board', allocated')
    PROVE  BoardSafe'
<1>1. Safe(undoList, redoList, board, allocated)'
  BY DEF Safe, PickersOf, PickersOfBoth, AllOrdered, Ordered, ItemsOf, ToSet
<1> QED  BY <1>1 DEF BoardSafe, EmptyCommit

\* The DRC deletes the markers of the board, and adds one with SKIP_UNDO.
LEMMA DrcSafe == ASSUME TypeOK, BoardSafe, RunDrc  PROVE BoardSafe'
<1>1. /\ pc = "idle" /\ "drc" \in Tools /\ board' = board \ Marker /\ view' = view \ (board \cap Marker)
      /\ UNCHANGED <<connectivity, undoList, redoList>>
  BY DEF RunDrc
<1>2. PICK found \in SUBSET (Marker \ allocated) :
          /\ allocated' = (allocated \ (board \cap Marker)) \cup found
          /\ IF found = {}
             THEN pc' = "idle" /\ UNCHANGED <<idx, list, mode, commit, base>>
             ELSE /\ pc' = "stale" /\ idx' = 1 /\ list' = << >> /\ mode' = "skip"
                  /\ commit' = MakeEntry(commit, CHOOSE m \in found : TRUE, "ADD", FALSE)
                  /\ base' = Document
  BY DEF RunDrc, DrcFlags
<1>3. /\ mode = "none" /\ list = << >> /\ Safe(undoList, redoList, board, allocated)
      /\ view = board \cap Leaf /\ connectivity = board \cap Connectable /\ commit = EmptyCommit
  BY <1>1 DEF BoardSafe
<1>4. Connectable \cap Marker = {} /\ Marker \subseteq Object /\ Marker \cap Teardrop = {}
  BY KindsAssumption DEF Connectable, Object, Leaf
<1>5. connectivity' = board' \cap Connectable /\ view' = board' \cap Leaf
  BY <1>1, <1>3, <1>4
<1>6. PICK S, mem : S = board' /\ mem = allocated'
  OBVIOUS
<1>7. Safe(undoList, redoList, S, mem)
  <2>1. \A o \in ItemsOf(PickersOfBoth(undoList, redoList)) : (o \in S <=> o \in board) /\ o \in mem
    BY <1>1, <1>2, <1>3, <1>6 DEF Safe
  <2>2. S \subseteq mem
    BY <1>1, <1>2, <1>3, <1>6 DEF Safe
  <2> QED  BY <1>3, <2>1, <2>2, SafeKept
<1>8. Safe(undoList', redoList', S, allocated')
  BY <1>1, <1>6, <1>7
<1>9. CASE found = {}
  <2>1. pc' = "idle" /\ mode' = "none" /\ list' = << >> /\ commit' = EmptyCommit
    BY <1>2, <1>3, <1>9
  <2>2. Safe(undoList', redoList', board', allocated')
    BY <1>6, <1>8
  <2> QED  BY <1>5, <2>1, <2>2, IdleSafe
<1>10. CASE found # {}
  <2>1. PICK m : m = CHOOSE x \in found : TRUE
    OBVIOUS
  <2>2. m \in Marker /\ m \notin allocated /\ m \in mem /\ m \in Object
    BY <1>2, <1>4, <1>6, <1>10, <2>1
  <2>3. /\ pc' = "stale" /\ idx' = 1 /\ list' = << >> /\ mode' = "skip" /\ base' = Document
        /\ commit' = MakeEntry(EmptyCommit, m, "ADD", FALSE)
    BY <1>2, <1>3, <1>10, <2>1
  <2>4. PICK type \in {"ADD", "REMOVE", "MODIFY"}, done \in BOOLEAN,
          l \in {Line(m, "ADD", FALSE)} :
             type = "ADD" /\ done = FALSE /\ l = Line(m, type, done)
    OBVIOUS
  <2>5. l.item = m /\ l.type = "ADD" /\ l.done = FALSE
    BY <2>4 DEF Line
  <2>6. PICK known : known = Known
    OBVIOUS
  <2>7. known \subseteq allocated /\ S \subseteq allocated
    BY <1>1, <1>3, <1>6, <2>6 DEF Safe, Known
  <2>8. PICK v : v = S \cap Leaf
    OBVIOUS
  <2>9. PICK e \in CommitType : e = EmptyCommit
    BY <1>3 DEF TypeOK, CommitType
  <2>10. OpenOK(e, S, S, v, known, mem) /\ ToSet(e.lines) = {} /\ DOMAIN e.lines = {}
    BY <2>8, <2>9, NoLines DEF EmptyCommit
  <2>11. Fits(l, e.lines, S, known, mem)
    BY <2>2, <2>5, <2>7, <2>10 DEF Fits, LineOK, Removes, ItemsIn
  <2>12. Fits(Line(m, type, done), e.lines, S, known, mem)
    BY <2>4, <2>11
  <2>13. /\ OpenOK(MakeEntry(e, m, type, done), S, BoardStaged(type, done, m, S), v, known, mem)
         /\ ToSet(MakeEntry(e, m, type, done).lines) = ToSet(e.lines) \cup {Line(m, type, done)}
         /\ MakeEntry(e, m, type, done) \in CommitType
    <3>1. m \in Object /\ type \in {"ADD", "REMOVE", "MODIFY"} /\ done \in BOOLEAN /\ e \in CommitType
      BY <2>2, <2>4, <2>9
    <3>2. OpenOK(e, S, S, v, known, mem) /\ Fits(Line(m, type, done), e.lines, S, known, mem)
      BY <2>10, <2>12
    <3> QED  BY <1>1, <3>1, <3>2, EntryStaged
  <2>14. BoardStaged(type, done, m, S) = S
    BY <2>4 DEF BoardStaged
  <2>15. commit' = MakeEntry(e, m, type, done)
    BY <2>3, <2>4, <2>9
  <2>16. OpenOK(commit', S, board', view', known, mem) /\ ToSet(commit'.lines) = {l}
    BY <1>5, <1>6, <2>4, <2>8, <2>10, <2>13, <2>14, <2>15
  <2>17. PICK lines \in Seq(CommitLine) : lines = commit'.lines
    BY <2>13, <2>15 DEF CommitType
  <2>18. {j \in DOMAIN lines : j < 1} = {}
    BY <2>17
  <2>19. /\ Seen(commit'.lines, pc', idx') = {}
         /\ Carrying(commit'.lines, pc', idx') = DoneLines(commit'.lines)
    BY <2>3, <2>17, <2>18 DEF Seen, Carrying
  <2>20. Start' = S
    <3>1. Start' = base'.board \ Marker
      BY <2>3 DEF Start
    <3>2. base'.board = board
      BY <2>3 DEF Document
    <3> QED  BY <1>1, <1>6, <3>1, <3>2
  <2>21. Known' = known
    BY <1>1, <2>6, KnownKept
  <2>22. PICK P, K : P = {} /\ K = DoneLines(commit'.lines)
    OBVIOUS
  <2>23. CommitOK(commit', S, K, P, board', view', Known', allocated')
    BY <1>6, <2>16, <2>21, <2>22 DEF OpenOK
  <2>24. \A x \in ToSet(commit'.lines) : LineAllowed(x, pc', mode')
    BY <1>4, <2>2, <2>3, <2>5, <2>16 DEF LineAllowed
  <2>25. CommitPlace'
    BY <2>3 DEF CommitPlace, Pushing
  <2>26. S = Start' /\ K = Carrying(commit'.lines, pc', idx') /\ P = Seen(commit'.lines, pc', idx')
    BY <2>19, <2>20, <2>22
  <2>27. pc' \notin {"idle", "put"}
    BY <2>3
  <2> QED  BY <1>5, <1>8, <2>23, <2>24, <2>25, <2>26, <2>27, CommittedSafe
<1> QED  BY <1>9, <1>10

\* A command is recorded, alone or at the end of the newest one.
LEMMA CommandRecorded ==
    ASSUME TypeOK, NEW S, NEW mem, Safe(undoList, redoList, S, mem),
           NEW cmd \in Command, Ordered(cmd), NEW b, NEW objects,
           Recordable(ToSet(cmd), Known, S, b, objects),
           NEW kept, NEW c, SaveInUndoList(kept, c, objects),
           \/ kept = undoList /\ c = cmd
           \/ undoList # << >> /\ kept = Front(undoList) /\ c = Joined(Last(undoList), cmd)
    PROVE  Safe(undoList', redoList', b, allocated')
<1>1. PICK undo \in Seq(Command), redo \in Seq(Command) : undo = undoList /\ redo = redoList
  BY DEF TypeOK
<1>2. PICK Q : Q = ToSet(cmd)
  OBVIOUS
<1>3. Safe(undo, redo, S, mem) /\ Recordable(Q, ItemsOf(PickersOfBoth(undo, redo)), S, b, objects)
  BY <1>1, <1>2 DEF Known
<1>4. FollowAll(PickersOf(undo), ToSet(cmd)) /\ AllOrdered(undo)
  BY <1>2, <1>3, RecordedFollows DEF Safe
<1>5. PICK cmds : cmds = Append(kept, c)
  OBVIOUS
<1>6. /\ Append(undo, cmd) \in Seq(Command) /\ AllOrdered(Append(undo, cmd))
      /\ PickersOf(Append(undo, cmd)) = PickersOf(undo) \cup ToSet(cmd)
      /\ undo # << >> =>
           /\ Append(Front(undo), Joined(Last(undo), cmd)) \in Seq(Command)
           /\ AllOrdered(Append(Front(undo), Joined(Last(undo), cmd)))
           /\ PickersOf(Append(Front(undo), Joined(Last(undo), cmd))) = PickersOf(undo) \cup ToSet(cmd)
  BY <1>4, RecordedInOrder
<1>7. cmds \in Seq(Command) /\ AllOrdered(cmds) /\ PickersOf(cmds) = PickersOf(undo) \cup Q
  <2>1. CASE kept = undoList /\ c = cmd
    BY <1>1, <1>2, <1>5, <1>6, <2>1
  <2>2. CASE undoList # << >> /\ kept = Front(undoList) /\ c = Joined(Last(undoList), cmd)
    BY <1>1, <1>2, <1>5, <1>6, <2>2
  <2> QED  BY <2>1, <2>2
<1>8. Safe(Newest(cmds), << >>, b, objects \ (ItemsOwnedBy(Oldest(cmds)) \cup ItemsOwnedBy(redo)))
  BY <1>3, <1>7, SafeRecorded
<1>9. /\ undoList' = Newest(cmds) /\ redoList' = << >>
      /\ allocated' = objects \ (ItemsOwnedBy(Oldest(cmds)) \cup ItemsOwnedBy(redo))
  BY <1>1, <1>5 DEF SaveInUndoList
<1> QED  BY <1>8, <1>9

\* What a commit that has been carried out says of the board.
LEMMA ListRecordable ==
    ASSUME NEW lines \in Seq(CommitLine), NEW cmd \in Command, NEW S, NEW known, NEW mem,
           LinesOK(lines, S, known, mem), Listed(cmd, lines, Len(lines) + 1),
           "drc" \in Tools => \A l \in ToSet(lines) : l.item \notin Marker,
           S \subseteq mem, known \subseteq mem
    PROVE  Ordered(cmd) /\ Recordable(ToSet(cmd), known, S, Carried(lines, S, DOMAIN lines), mem)
<1>1. /\ DOMAIN lines = 1 .. Len(lines) /\ Len(lines) \in Nat /\ DOMAIN cmd = 1 .. Len(cmd)
      /\ Len(cmd) \in Nat
  BY DEF Command
<1>2. DOMAIN cmd = DOMAIN lines
  BY <1>1 DEF Listed
<1>3. \A j \in DOMAIN lines : /\ lines[j].type \in {"ADD", "REMOVE", "MODIFY"}
                              /\ cmd[j].item = lines[j].item
                              /\ cmd[j].status = StatusOfType(lines[j].type)
  <2>1. \A j \in DOMAIN lines : lines[j] \in CommitLine
    OBVIOUS
  <2> QED  BY <1>2, <2>1 DEF Listed, CommitLine
<1>4. \A j \in DOMAIN lines : /\ cmd[j].status = "NEWITEM" <=> lines[j].type = "ADD"
                              /\ cmd[j].status = "DELETED" <=> lines[j].type = "REMOVE"
  BY <1>3 DEF StatusOfType
<1>5. Ordered(cmd)
  BY <1>2, <1>3, <1>4 DEF Ordered, Follows, LinesOK
<1>6. ToSet(cmd) = {cmd[j] : j \in DOMAIN lines}
  BY <1>2 DEF ToSet
<1> DEFINE A == Adds(lines, DOMAIN lines)
           R == Removes(lines, DOMAIN lines)
           b == (S \cup A) \ R
<1>7. /\ A \cap known = {} /\ A \subseteq mem
      /\ \A j \in DOMAIN lines :
            /\ lines[j].item \in S \cup A /\ lines[j].item \in mem
            /\ lines[j].type = "ADD" => lines[j].item \in A
            /\ lines[j].type = "REMOVE" => lines[j].item \in R
  BY <1>3 DEF LinesOK, LineOK, Adds, Removes
<1>8. \A o \in R : \E j \in DOMAIN lines : lines[j].type = "REMOVE" /\ lines[j].item = o
  BY DEF Removes
<1>9. \A o \in A \cup R : \E j \in DOMAIN lines : lines[j].item = o
  BY DEF Adds, Removes
<1> HIDE DEF A, R
<1>10. \A q \in ToSet(cmd) : q.item \in known => q.status # "NEWITEM" /\ q.item \in S
  BY <1>3, <1>4, <1>6, <1>7
<1>11. Placed(ToSet(cmd), b)
  <2>1. \A q \in ToSet(cmd) : q.status = "DELETED" => q.item \notin b
    BY <1>3, <1>4, <1>6, <1>7
  <2>2. ASSUME NEW q \in ToSet(cmd), q.item \notin b
        PROVE  \E p \in ToSet(cmd) : p.item = q.item /\ p.status = "DELETED"
    <3>1. q.item \in R
      BY <1>3, <1>6, <1>7, <2>2
    <3>2. PICK j \in DOMAIN lines : lines[j].type = "REMOVE" /\ lines[j].item = q.item
      BY <1>8, <3>1
    <3> QED  BY <1>3, <1>4, <1>6, <3>2
  <2> QED  BY <2>1, <2>2 DEF Placed
<1>12. \A o \in known \ ItemsOf(ToSet(cmd)) : o \in b <=> o \in S
  <2>1. \A o \in A \cup R : o \in ItemsOf(ToSet(cmd))
    BY <1>3, <1>6, <1>9 DEF ItemsOf
  <2> QED  BY <2>1
<1>13. b \cup known \cup ItemsOf(ToSet(cmd)) \subseteq mem
  <2>1. ItemsOf(ToSet(cmd)) \subseteq mem
    BY <1>3, <1>6, <1>7 DEF ItemsOf
  <2> QED  BY <1>7, <2>1
<1>14. "drc" \in Tools => ItemsOf(ToSet(cmd)) \cap Marker = {}
  <2>1. \A j \in DOMAIN lines : lines[j] \in ToSet(lines)
    BY DEF ToSet
  <2> QED  BY <1>3, <1>6, <2>1 DEF ItemsOf
<1>15. Carried(lines, S, DOMAIN lines) = b
  BY DEF Carried, A, R
<1> QED  BY <1>5, <1>10, <1>11, <1>12, <1>13, <1>14, <1>15 DEF Recordable

\* The end of Push().
LEMMA PushDoneSafe == ASSUME TypeOK, BoardSafe, PushDone  PROVE BoardSafe'
<1>1. /\ pc = "late" /\ idx > Len(commit.lines) /\ pc' = "idle" /\ commit' = EmptyCommit
      /\ list' = << >> /\ mode' = "none" /\ UNCHANGED <<board, view, connectivity>>
  BY DEF PushDone, modelVars
<1>2. pc \in Pushing
  BY <1>1 DEF Pushing
<1>3. PICK lines \in Seq(CommitLine) : lines = commit.lines
  BY <1>2, Committing
<1>4. PICK S, known : S = Start /\ known = Known
  OBVIOUS
<1>5. PICK mem : mem = allocated
  OBVIOUS
<1>6. /\ LinesOK(lines, S, known, mem) /\ connectivity = board \cap Connectable
      /\ board = Carried(lines, S, DoneLines(lines) \cup {j \in DOMAIN lines : j < idx})
      /\ view = Carried(lines, S, {j \in DOMAIN lines : j < idx}) \cap Leaf
      /\ CommitSafe /\ S \subseteq mem /\ known \subseteq mem
      /\ Safe(undoList, redoList, S, mem)
      /\ idx \in 1 .. (Len(lines) + 1) /\ DOMAIN lines = 1 .. Len(lines) /\ Len(lines) \in Nat
  BY <1>2, <1>3, <1>4, <1>5, Committing DEF CommitOK
<1>7. idx = Len(lines) + 1
  BY <1>1, <1>3, <1>6
<1>8. {j \in DOMAIN lines : j < idx} = DOMAIN lines
  BY <1>6, <1>7
<1>9. DoneLines(lines) \cup DOMAIN lines = DOMAIN lines
  BY DEF DoneLines
<1>10. board = Carried(lines, S, DOMAIN lines) /\ view = board \cap Leaf
  BY <1>6, <1>8, <1>9
<1>11. \A l \in ToSet(lines) : LineAllowed(l, pc, mode)
  BY <1>3, <1>6 DEF CommitSafe
<1>12. CommitPlace
  BY <1>6 DEF CommitSafe
<1>13. Safe(undoList', redoList', board, allocated')
  <2>1. CASE mode = "skip"
    <3>1. UNCHANGED <<undoList, redoList, allocated>>
      BY <2>1 DEF PushDone
    <3>2. Removes(lines, DOMAIN lines) = {}
      <4>1. \A j \in DOMAIN lines : lines[j] \in ToSet(lines)
        BY DEF ToSet
      <4> QED  BY <1>11, <2>1, <4>1 DEF Removes, LineAllowed
    <3>3. /\ Adds(lines, DOMAIN lines) \cap known = {}
          /\ Adds(lines, DOMAIN lines) \subseteq mem
      BY <1>6 DEF Adds, LinesOK, LineOK
    <3>4. board = S \cup Adds(lines, DOMAIN lines)
      BY <1>10, <3>2 DEF Carried
    <3>5. \A o \in ItemsOf(PickersOfBoth(undoList, redoList)) : (o \in board <=> o \in S) /\ o \in mem
      BY <1>4, <1>6, <3>3, <3>4 DEF Known
    <3>6. PICK b : b = board
      OBVIOUS
    <3>7. /\ b \subseteq mem
          /\ \A o \in ItemsOf(PickersOfBoth(undoList, redoList)) : (o \in b <=> o \in S) /\ o \in mem
      BY <1>6, <3>3, <3>4, <3>5, <3>6
    <3>8. Safe(undoList, redoList, b, mem)
      BY <1>6, <3>7, SafeKept
    <3> QED  BY <1>5, <3>1, <3>6, <3>8
  <2>2. CASE mode # "skip"
    <3>1. Listed(list, lines, Len(lines) + 1)
      BY <1>2, <1>3, <1>7, <1>12, <2>2 DEF CommitPlace
    <3>2. "drc" \in Tools => \A l \in ToSet(lines) : l.item \notin Marker
      BY <1>11, <2>2 DEF LineAllowed
    <3>3. PICK cmd \in Command : cmd = list
      BY DEF TypeOK
    <3>4. Ordered(cmd) /\ Recordable(ToSet(cmd), known, S, Carried(lines, S, DOMAIN lines), mem)
      BY <1>6, <3>1, <3>2, <3>3, ListRecordable
    <3>5. PICK b : b = board
      OBVIOUS
    <3>6. Recordable(ToSet(cmd), Known, S, b, mem)
      BY <1>4, <1>10, <3>4, <3>5
    <3>7. PICK kept, c :
             /\ SaveInUndoList(kept, c, mem)
             /\ \/ kept = undoList /\ c = cmd
                \/ undoList # << >> /\ kept = Front(undoList) /\ c = Joined(Last(undoList), cmd)
      <4>1. CASE mode = "append" /\ undoList # << >>
        <5>1. SaveInUndoList(Front(undoList), Joined(Last(undoList), list), allocated)
          BY <2>2, <4>1 DEF PushDone
        <5> QED  BY <1>5, <3>3, <4>1, <5>1
      <4>2. CASE ~(mode = "append" /\ undoList # << >>)
        <5>1. SaveInUndoList(undoList, list, allocated)
          BY <2>2, <4>2 DEF PushDone
        <5> QED  BY <1>5, <3>3, <5>1
      <4> QED  BY <4>1, <4>2
    <3>8. Safe(undoList', redoList', b, allocated')
      BY <1>6, <3>4, <3>6, <3>7, CommandRecorded
    <3> QED  BY <3>5, <3>8
  <2> QED  BY <2>1, <2>2
<1>14. Safe(undoList', redoList', board', allocated')
  BY <1>1, <1>13
<1>15. view' = board' \cap Leaf /\ connectivity' = board' \cap Connectable
  BY <1>1, <1>6, <1>10
<1> QED  BY <1>1, <1>14, <1>15, IdleSafe

------------------------------------------------------------------------------
(* Revert().                                                                 *)

\* What is left of the lines that the tools have carried out.
Left(lines, k) == {j \in DoneLines(lines) : j <= k}

\* Before a step of Revert().
LEMMA Reverting ==
    ASSUME TypeOK, BoardSafe, pc = "revert",
           NEW lines, lines = commit.lines, NEW k, k = idx, NEW S, S = Start
    PROVE  /\ lines \in Seq(CommitLine) /\ DOMAIN lines = 1 .. Len(lines) /\ Len(lines) \in Nat
           /\ k \in 0 .. Len(lines)
           /\ CommitSafe /\ LinesOK(lines, S, Known, allocated) /\ commit.items = ItemsIn(lines)
           /\ mode = "none" /\ list = << >> /\ Safe(undoList, redoList, S, allocated)
           /\ \A j \in DOMAIN lines : ~(lines[j].type = "REMOVE" /\ lines[j].done)
           /\ board = S \cup Adds(lines, Left(lines, k)) /\ view = S \cap Leaf
           /\ connectivity = board \cap Connectable
<1>1. CommitSafe /\ connectivity = board \cap Connectable
  BY DEF BoardSafe
<1>2. lines \in Seq(CommitLine) /\ DOMAIN lines = 1 .. Len(lines) /\ Len(lines) \in Nat
  BY DEF TypeOK
<1>3. mode = "none" /\ list = << >> /\ k \in 0 .. Len(lines)
  BY <1>1 DEF CommitSafe, CommitPlace
<1>4. /\ LinesOK(lines, S, Known, allocated) /\ commit.items = ItemsIn(lines)
      /\ board = Carried(lines, S, Left(lines, k)) /\ view = Carried(lines, S, {}) \cap Leaf
      /\ Safe(undoList, redoList, S, allocated)
  BY <1>1 DEF CommitSafe, CommitOK, Seen, Carrying, Left
<1>5. \A j \in DOMAIN lines : ~(lines[j].type = "REMOVE" /\ lines[j].done)
  <2>1. \A l \in ToSet(lines) : LineAllowed(l, "revert", "none")
    BY <1>1, <1>3 DEF CommitSafe
  <2> QED  BY <2>1 DEF ToSet, LineAllowed
<1>6. Removes(lines, Left(lines, k)) = {} /\ Removes(lines, {}) = {} /\ Adds(lines, {}) = {}
  BY <1>5 DEF Removes, Adds, Left, DoneLines
<1> QED  BY <1>1, <1>2, <1>3, <1>4, <1>5, <1>6 DEF Carried

\* After it.
LEMMA RevertedSafe ==
    ASSUME TypeOK, BoardSafe, pc' = "revert", mode' = "none", list' = << >>,
           UNCHANGED <<commit, undoList, redoList, allocated, base>>,
           NEW lines \in Seq(CommitLine), lines = commit.lines, NEW k, k = idx', NEW S, S = base.board,
           k \in 0 .. Len(lines),
           LinesOK(lines, S, Known, allocated), commit.items = ItemsIn(lines),
           Safe(undoList, redoList, S, allocated),
           \A l \in ToSet(lines) : LineAllowed(l, "revert", "none"),
           \A j \in DOMAIN lines : ~(lines[j].type = "REMOVE" /\ lines[j].done),
           board' = S \cup Adds(lines, Left(lines, k)), view' = S \cap Leaf,
           connectivity' = board' \cap Connectable
    PROVE  BoardSafe'
<1>1. Removes(lines, Left(lines, k)) = {} /\ Removes(lines, {}) = {} /\ Adds(lines, {}) = {}
  BY DEF Removes, Adds, Left, DoneLines
<1>2. PICK P, K : P = {} /\ K = Left(lines, k)
  OBVIOUS
<1>3. S = Start' /\ K = Carrying(commit'.lines, pc', idx') /\ P = Seen(commit'.lines, pc', idx')
  BY <1>2 DEF Start, Carrying, Seen, Left
<1>4. Known' = Known
  BY KnownKept
<1>5. CommitOK(commit', S, K, P, board', view', Known', allocated')
  BY <1>1, <1>2, <1>4 DEF CommitOK, Carried
<1>6. Safe(undoList', redoList', S, allocated')
  OBVIOUS
<1>7. CommitPlace'
  BY DEF CommitPlace, Pushing
<1>8. \A l \in ToSet(commit'.lines) : LineAllowed(l, pc', mode')
  OBVIOUS
<1>9. pc' \notin {"idle", "put"}
  OBVIOUS
<1> QED  BY <1>3, <1>5, <1>6, <1>7, <1>8, <1>9, CommittedSafe

\* Revert() goes back over the lines, from the last to the first.
LEMMA RevertSafe ==
    ASSUME TypeOK, BoardSafe, Revert \/ RevertAdd \/ RevertRemove \/ RevertModify \/ RevertDone
    PROVE  BoardSafe'
<1>1. PICK lines, k, S : lines = commit.lines /\ k = idx /\ S = Start
  OBVIOUS
<1>2. CASE Revert
  <2>1. /\ pc = "staging" /\ pc' = "revert" /\ idx' = Len(commit.lines)
        /\ UNCHANGED <<board, view, connectivity, commit, undoList, redoList, allocated, base, list, mode>>
    BY <1>2 DEF Revert, modelVars, historyVars
  <2>2. CommitSafe /\ connectivity = board \cap Connectable
    BY <2>1 DEF BoardSafe
  <2>3. mode = "none" /\ list = << >>
    BY <2>1, <2>2 DEF CommitSafe, CommitPlace
  <2>4. lines \in Seq(CommitLine) /\ DOMAIN lines = 1 .. Len(lines) /\ Len(lines) \in Nat
    BY <1>1 DEF TypeOK
  <2>5. S = base.board
    BY <1>1, <2>3 DEF Start
  <2>6. /\ LinesOK(lines, S, Known, allocated) /\ commit.items = ItemsIn(lines)
        /\ board = Carried(lines, S, DoneLines(lines)) /\ view = Carried(lines, S, {}) \cap Leaf
        /\ Safe(undoList, redoList, S, allocated)
    BY <1>1, <2>1, <2>2 DEF CommitSafe, CommitOK, Seen, Carrying
  <2>7. \A l \in ToSet(lines) : LineAllowed(l, "staging", "none")
    BY <1>1, <2>1, <2>2, <2>3 DEF CommitSafe
  <2>8. /\ \A l \in ToSet(lines) : LineAllowed(l, "revert", "none")
        /\ \A j \in DOMAIN lines : ~(lines[j].type = "REMOVE" /\ lines[j].done)
    BY <2>7 DEF LineAllowed, ToSet
  <2>9. /\ Removes(lines, DoneLines(lines)) = {} /\ Removes(lines, {}) = {} /\ Adds(lines, {}) = {}
        /\ Left(lines, Len(lines)) = DoneLines(lines)
    BY <2>4, <2>8 DEF Removes, Adds, Left, DoneLines
  <2>10. PICK n : n = idx'
    OBVIOUS
  <2>11. board' = S \cup Adds(lines, Left(lines, n)) /\ view' = S \cap Leaf
    BY <1>1, <2>1, <2>6, <2>9, <2>10 DEF Carried
  <2>12. n \in 0 .. Len(lines)
    BY <1>1, <2>1, <2>4, <2>10
  <2>13. mode' = "none" /\ list' = << >> /\ connectivity' = board' \cap Connectable
    BY <2>1, <2>2, <2>3
  <2> QED  BY <1>1, <2>1, <2>4, <2>5, <2>6, <2>8, <2>10, <2>11, <2>12, <2>13, RevertedSafe
<1>3. ASSUME pc = "revert"
      PROVE  /\ lines \in Seq(CommitLine) /\ DOMAIN lines = 1 .. Len(lines) /\ Len(lines) \in Nat
             /\ k \in 0 .. Len(lines)
             /\ CommitSafe /\ LinesOK(lines, S, Known, allocated) /\ commit.items = ItemsIn(lines)
             /\ mode = "none" /\ list = << >> /\ Safe(undoList, redoList, S, allocated)
             /\ \A j \in DOMAIN lines : ~(lines[j].type = "REMOVE" /\ lines[j].done)
             /\ board = S \cup Adds(lines, Left(lines, k)) /\ view = S \cap Leaf
             /\ connectivity = board \cap Connectable
             /\ S = base.board /\ \A l \in ToSet(lines) : LineAllowed(l, "revert", "none")
  <2>1. /\ lines \in Seq(CommitLine) /\ DOMAIN lines = 1 .. Len(lines) /\ Len(lines) \in Nat
        /\ k \in 0 .. Len(lines)
        /\ CommitSafe /\ LinesOK(lines, S, Known, allocated) /\ commit.items = ItemsIn(lines)
        /\ mode = "none" /\ list = << >> /\ Safe(undoList, redoList, S, allocated)
        /\ \A j \in DOMAIN lines : ~(lines[j].type = "REMOVE" /\ lines[j].done)
        /\ board = S \cup Adds(lines, Left(lines, k)) /\ view = S \cap Leaf
        /\ connectivity = board \cap Connectable
    BY <1>1, <1>3, Reverting
  <2> QED  BY <1>1, <1>3, <2>1 DEF Start, CommitSafe
<1>4. ASSUME RevertAdd \/ RevertRemove \/ RevertModify  PROVE BoardSafe'
  <2>1. /\ pc = "revert" /\ pc' = "revert" /\ k \in 1 .. Len(lines) /\ idx' = k - 1
        /\ UNCHANGED <<commit, undoList, redoList, allocated, base, mode, list>>
    BY <1>1, <1>4 DEF RevertAdd, RevertRemove, RevertModify, AtRevert, historyVars
  <2>2. /\ lines \in Seq(CommitLine) /\ DOMAIN lines = 1 .. Len(lines) /\ Len(lines) \in Nat
        /\ LinesOK(lines, S, Known, allocated)
        /\ \A j \in DOMAIN lines : ~(lines[j].type = "REMOVE" /\ lines[j].done)
        /\ board = S \cup Adds(lines, Left(lines, k)) /\ view = S \cap Leaf
        /\ connectivity = board \cap Connectable
    BY <1>3, <2>1
  <2>3. PICK l \in CommitLine : l = lines[k]
    BY <1>1, <2>1, CommitLineType
  <2>4. k \in DOMAIN lines /\ commit.lines[idx] = l
    BY <1>1, <2>1, <2>2, <2>3
  <2>5. /\ l.type = "ADD" => l.item \notin S
        /\ l.type = "MODIFY" => l.item \in S /\ ~l.done
        /\ ~(l.type = "REMOVE" /\ l.done)
    BY <2>2, <2>3, <2>4 DEF LinesOK, LineOK
  <2>6. PICK n : n = idx'
    OBVIOUS
  <2>7. l.done => Left(lines, n) = Left(lines, k) \ {k}
    BY <2>1, <2>2, <2>3, <2>6 DEF Left, DoneLines
  <2>8. ~l.done => Left(lines, n) = Left(lines, k)
    <3>1. ~l.done => k \notin DoneLines(lines)
      BY <2>3 DEF DoneLines
    <3> QED  BY <2>1, <2>2, <2>6, <3>1 DEF Left, DoneLines
  <2>9. l.done /\ l.type = "ADD" => Adds(lines, Left(lines, n)) = Adds(lines, Left(lines, k)) \ {l.item}
    <3> SUFFICES ASSUME l.done, l.type = "ADD"
                 PROVE  Adds(lines, Left(lines, n)) = Adds(lines, Left(lines, k)) \ {l.item}
      OBVIOUS
    <3>1. \A j \in DOMAIN lines : lines[j].type = "ADD" /\ lines[j].item = l.item => j = k
      <4> SUFFICES ASSUME NEW j \in DOMAIN lines, lines[j].type = "ADD", lines[j].item = l.item, j # k
                   PROVE  FALSE
        OBVIOUS
      <4>1. j < k \/ k < j
        BY <2>1, <2>2
      <4> QED  BY <2>2, <2>3, <2>4, <4>1 DEF LinesOK
    <3>2. Left(lines, k) \subseteq DOMAIN lines /\ k \in Left(lines, k)
      BY <2>1, <2>3, <2>4 DEF Left, DoneLines
    <3> QED  BY <2>3, <2>7, <3>1, <3>2 DEF Adds
  <2>10. /\ board' = IF l.done /\ l.type = "ADD" THEN board \ {l.item} ELSE board
         /\ view' = view /\ connectivity' = board' \cap Connectable
    <3>1. CASE RevertAdd
      <4>1. /\ l.type = "ADD"
            /\ IF l.done
               THEN board' = board \ {l.item} /\ view' = view \ {l.item} /\ connectivity' = connectivity \ {l.item}
               ELSE UNCHANGED <<board, view, connectivity>>
        BY <2>4, <3>1 DEF RevertAdd, AtRevert
      <4> QED  BY <2>2, <2>5, <4>1
    <3>2. CASE RevertRemove
      <4>1. l.type = "REMOVE" /\ (~l.done => UNCHANGED <<board, view, connectivity>>)
        BY <2>4, <3>2 DEF RevertRemove, AtRevert
      <4> QED  BY <2>2, <2>5, <4>1
    <3>3. CASE RevertModify
      <4>1. /\ l.type = "MODIFY" /\ UNCHANGED board
            /\ view' = view \cup ({l.item} \cap Leaf)
            /\ connectivity' = connectivity \cup ({l.item} \cap Connectable)
        BY <2>4, <3>3 DEF RevertModify, AtRevert, Swap
      <4> QED  BY <2>2, <2>5, <4>1
    <3> QED  BY <1>4, <3>1, <3>2, <3>3
  <2>11. board' = S \cup Adds(lines, Left(lines, n))
    <3>1. CASE l.done /\ l.type = "ADD"
      BY <2>2, <2>5, <2>9, <2>10, <3>1
    <3>2. CASE ~l.done
      BY <2>2, <2>8, <2>10, <3>2
    <3>3. l.type \in {"ADD", "REMOVE", "MODIFY"}
      BY DEF CommitLine
    <3> QED  BY <2>5, <3>1, <3>2, <3>3
  <2>12. n \in 0 .. Len(lines)
    BY <2>1, <2>2, <2>6
  <2>13. /\ mode' = "none" /\ list' = << >> /\ view' = S \cap Leaf /\ commit.items = ItemsIn(lines)
         /\ S = base.board /\ Safe(undoList, redoList, S, allocated)
         /\ \A x \in ToSet(lines) : LineAllowed(x, "revert", "none")
    BY <1>3, <2>1, <2>2, <2>10
  <2> QED  BY <1>1, <2>1, <2>2, <2>6, <2>10, <2>11, <2>12, <2>13, RevertedSafe
<1>5. CASE RevertDone
  <2>1. /\ pc = "revert" /\ k = 0 /\ pc' = "idle" /\ commit' = EmptyCommit
        /\ allocated' = allocated \ {line.item : line \in {l \in ToSet(lines) : l.type = "ADD"}}
        /\ UNCHANGED <<board, view, connectivity, undoList, redoList, list, mode>>
    BY <1>1, <1>5 DEF RevertDone, modelVars
  <2>2. /\ lines \in Seq(CommitLine) /\ DOMAIN lines = 1 .. Len(lines)
        /\ LinesOK(lines, S, Known, allocated) /\ mode = "none" /\ list = << >>
        /\ board = S \cup Adds(lines, Left(lines, k)) /\ view = S \cap Leaf
        /\ connectivity = board \cap Connectable /\ Safe(undoList, redoList, S, allocated)
    BY <1>3, <2>1
  <2>3. Left(lines, 0) = {}
    BY <2>2 DEF Left, DoneLines
  <2>4. board = S
    BY <2>1, <2>2, <2>3 DEF Adds
  <2>5. PICK A : A = {line.item : line \in {l \in ToSet(lines) : l.type = "ADD"}}
    OBVIOUS
  <2>6. A \cap (S \cup Known) = {}
    BY <2>2, <2>5 DEF ToSet, LinesOK, LineOK
  <2>7. PICK mem, new : mem = allocated /\ new = allocated'
    OBVIOUS
  <2>8. /\ new = mem \ A /\ S \subseteq mem /\ Known \subseteq mem
    BY <2>1, <2>2, <2>5, <2>7 DEF Safe, Known
  <2>9. /\ S \subseteq new
        /\ \A o \in ItemsOf(PickersOfBoth(undoList, redoList)) : (o \in S <=> o \in S) /\ o \in new
    BY <2>6, <2>8 DEF Known
  <2>10. Safe(undoList, redoList, S, new)
    BY <2>2, <2>7, <2>9, SafeKept
  <2>11. Safe(undoList', redoList', board', allocated')
    BY <2>1, <2>4, <2>7, <2>10
  <2>12. /\ view' = board' \cap Leaf /\ connectivity' = board' \cap Connectable
         /\ mode' = "none" /\ list' = << >>
    BY <2>1, <2>2, <2>4
  <2> QED  BY <2>1, <2>11, <2>12, IdleSafe
<1> QED  BY <1>2, <1>4, <1>5

------------------------------------------------------------------------------
(* Groups.                                                                   *)

\* The pickers of the members of a group.
LEMMA MemberPickers ==
    ASSUME NEW T \in SUBSET Leaf, NEW order \in SetToSeqs(T), NEW status \in {"REGROUP", "UNGROUP"},
           NEW cmd, cmd = [k \in 1 .. Len(order) |-> NewPicker(order[k], status, NoImage)]
    PROVE  /\ cmd \in Command /\ Ordered(cmd)
           /\ \A q \in ToSet(cmd) : q.status = status /\ q.item \in T
<1>1. IsFiniteSet(T)
  <2>1. T \subseteq Object /\ IsFiniteSet(Object)
    BY KindsAssumption DEF Object
  <2> QED  BY <2>1, FS_Subset
<1>2. order \in Seq(T) /\ DOMAIN order = 1 .. Len(order) /\ Len(order) \in Nat
  BY <1>1, OrderFacts
<1>3. order \in Seq(Leaf)
  BY <1>2
<1>4. cmd \in Command
  BY <1>3, PickersType
<1>5. DOMAIN cmd = 1 .. Len(order)
  OBVIOUS
<1>6. ASSUME NEW k \in DOMAIN cmd  PROVE cmd[k].status = status /\ cmd[k].item \in T
  <2>1. cmd[k] = NewPicker(order[k], status, NoImage)
    BY <1>5
  <2>2. order[k] \in T
    BY <1>2, <1>5
  <2> QED  BY <2>1, <2>2 DEF NewPicker
<1>7. Ordered(cmd)
  BY <1>6 DEF Ordered, Follows
<1>8. \A q \in ToSet(cmd) : q.status = status /\ q.item \in T
  BY <1>6 DEF ToSet
<1> QED  BY <1>4, <1>7, <1>8

\* The picker of a group.
LEMMA GroupPicker ==
    ASSUME NEW g \in Group, NEW status \in {"NEWITEM", "DELETED"},
           NEW p, p = NewPicker(g, status, NoImage)
    PROVE  /\ p \in Picker /\ p.item = g /\ p.status = status
           /\ <<p>> \in Command /\ Ordered(<<p>>) /\ ToSet(<<p>>) = {p}
<1>1. p.item = g /\ p.status = status
  BY DEF NewPicker
<1>2. p \in Picker
  <2>1. g \in Object /\ NoImage \in Image
    BY DEF Object, NoImage, Image
  <2> QED  BY <2>1, NewPickerType DEF Status
<1>3. <<p>> \in Seq(Picker) /\ DOMAIN <<p>> = 1 .. 1 /\ <<p>>[1] = p
  BY <1>2
<1> QED  BY <1>1, <1>2, <1>3 DEF Command, Ordered, ToSet

\* A command that is carried out and recorded at once.
LEMMA AtOnceSafe ==
    ASSUME TypeOK, BoardSafe, pc = "idle", NEW cmd \in Command, Ordered(cmd), NEW objects,
           RecordAtOnce(cmd, objects), NEW b, b = board',
           Recordable(ToSet(cmd), Known, board, b, objects),
           view' = board' \cap Leaf, connectivity' = board' \cap Connectable
    PROVE  BoardSafe'
<1>1. /\ mode = "none" /\ list = << >> /\ commit = EmptyCommit
      /\ Safe(undoList, redoList, board, allocated)
  BY DEF BoardSafe
<1>2. SaveInUndoList(undoList, cmd, objects) /\ UNCHANGED <<pc, list, mode, commit>>
  BY DEF RecordAtOnce, loopVars
<1>3. PICK S, mem, kept : S = board /\ mem = allocated /\ kept = undoList
  OBVIOUS
<1>4. Safe(undoList', redoList', b, allocated')
  <2>1. /\ Safe(undoList, redoList, S, mem) /\ Recordable(ToSet(cmd), Known, S, b, objects)
        /\ SaveInUndoList(kept, cmd, objects)
    BY <1>1, <1>2, <1>3
  <2> QED  BY <1>3, <2>1, CommandRecorded
<1>5. Safe(undoList', redoList', board', allocated')
  BY <1>4
<1> QED  BY <1>1, <1>2, <1>5, IdleSafe

\* The group tools record their commands at once; what they do to the board is in them.
LEMMA GroupsSafe ==
    ASSUME TypeOK, BoardSafe, GroupsEditable,
           \/ \E g \in Group : \/ EnterGroup(g) \/ UngroupItems(g)
                               \/ \E items \in SUBSET Item : GroupItems(g, items)
           \/ ExitGroup
    PROVE  BoardSafe'
<1>1. pc = "idle"
  BY DEF EnterGroup, UngroupItems, GroupItems, ExitGroup
<1>2. /\ mode = "none" /\ list = << >> /\ commit = EmptyCommit
      /\ Safe(undoList, redoList, board, allocated)
      /\ view = board \cap Leaf /\ connectivity = board \cap Connectable
  BY <1>1 DEF BoardSafe
<1>3. Known \subseteq allocated /\ board \subseteq allocated
  BY <1>2 DEF Safe, Known
<1>4. /\ \A g \in Group : g \notin Leaf /\ g \notin Connectable /\ g \notin Marker /\ g \notin Item
      /\ \A i \in Item : i \in Leaf /\ i \notin Marker
      /\ Connectable \cap Marker = {}
  BY KindsAssumption DEF Leaf, Connectable
<1>5. CASE ExitGroup \/ \E g \in Group : EnterGroup(g)
  <2>1. UNCHANGED <<pc, mode, list, commit, board, view, connectivity, undoList, redoList, allocated>>
    BY <1>5 DEF EnterGroup, ExitGroup, modelVars, loopVars
  <2>2. Safe(undoList', redoList', board', allocated')
    BY <1>2, <2>1
  <2> QED  BY <1>1, <1>2, <2>1, <2>2, IdleSafe
<1>6. ASSUME NEW g \in Group, NEW items \in SUBSET Item, GroupItems(g, items)  PROVE BoardSafe'
  <2>1. /\ g \notin allocated /\ items \subseteq board /\ board' = board \cup {g}
        /\ connectivity' = connectivity \cup ({g} \cap Connectable) /\ UNCHANGED view
    BY <1>6 DEF GroupItems, BoardAdd
  <2>2. PICK order \in SetToSeqs(items) :
          RecordAtOnce(<<NewPicker(g, "NEWITEM", NoImage)>>
                       \o [k \in 1 .. Len(order) |-> NewPicker(order[k], "REGROUP", NoImage)],
                       allocated \cup {g})
    BY <1>6 DEF GroupItems
  <2>3. PICK status \in {"REGROUP", "UNGROUP"} : status = "REGROUP"
    OBVIOUS
  <2>4. PICK more : more = [k \in 1 .. Len(order) |-> NewPicker(order[k], status, NoImage)]
    OBVIOUS
  <2>5. items \in SUBSET Leaf
    BY <1>4
  <2>6. more \in Command /\ Ordered(more) /\ \A q \in ToSet(more) : q.status = status /\ q.item \in items
    BY <2>4, <2>5, MemberPickers
  <2>7. PICK kind \in {"NEWITEM", "DELETED"} : kind = "NEWITEM"
    OBVIOUS
  <2>8. PICK p : p = NewPicker(g, kind, NoImage)
    OBVIOUS
  <2>9. /\ p \in Picker /\ p.item = g /\ p.status = kind
        /\ <<p>> \in Command /\ Ordered(<<p>>) /\ ToSet(<<p>>) = {p}
    BY <2>8, GroupPicker
  <2>10. PICK one \in Command : one = <<p>>
    BY <2>9
  <2>11. FollowAll(ToSet(one), ToSet(more))
    BY <1>4, <2>6, <2>9, <2>10 DEF FollowAll, Follows
  <2>12. one \o more \in Command /\ Ordered(one \o more) /\ ToSet(one \o more) = ToSet(one) \cup ToSet(more)
    BY <2>6, <2>9, <2>10, <2>11, CommandsJoined
  <2>13. PICK cmd \in Command : cmd = one \o more
    BY <2>12
  <2>14. PICK objects, b : objects = allocated \cup {g} /\ b = board'
    OBVIOUS
  <2>15. RecordAtOnce(cmd, objects)
    BY <2>2, <2>3, <2>4, <2>7, <2>8, <2>10, <2>13, <2>14
  <2>16. Ordered(cmd) /\ \A q \in ToSet(cmd) : (q.status = "NEWITEM" /\ q.item = g)
                                               \/ (q.status = "REGROUP" /\ q.item \in items)
    BY <2>3, <2>6, <2>7, <2>9, <2>10, <2>12, <2>13
  <2>17. p \in ToSet(cmd)
    BY <2>9, <2>10, <2>12, <2>13
  <2>18. Recordable(ToSet(cmd), Known, board, b, objects)
    <3>1. \A q \in ToSet(cmd) : q.item \in Known => q.status # "NEWITEM" /\ q.item \in board
      BY <1>3, <2>1, <2>16
    <3>2. Placed(ToSet(cmd), b)
      BY <2>1, <2>14, <2>16 DEF Placed
    <3>3. \A o \in Known \ ItemsOf(ToSet(cmd)) : o \in b <=> o \in board
      BY <1>3, <2>1, <2>14
    <3>4. b \cup Known \cup ItemsOf(ToSet(cmd)) \subseteq objects
      BY <1>3, <2>1, <2>14, <2>16 DEF ItemsOf
    <3>5. ItemsOf(ToSet(cmd)) \cap Marker = {}
      BY <1>4, <2>16 DEF ItemsOf
    <3> QED  BY <3>1, <3>2, <3>3, <3>4, <3>5 DEF Recordable
  <2>19. view' = board' \cap Leaf /\ connectivity' = board' \cap Connectable
    BY <1>2, <1>4, <2>1
  <2> QED  BY <1>1, <2>14, <2>15, <2>16, <2>18, <2>19, AtOnceSafe
<1>7. ASSUME NEW g \in Group, UngroupItems(g)  PROVE BoardSafe'
  <2>1. g \in board /\ board' = board \ {g} /\ UNCHANGED <<connectivity, view>>
    BY <1>7 DEF UngroupItems
  <2>2. PICK order \in SetToSeqs(members[g]) :
          RecordAtOnce([k \in 1 .. Len(order) |-> NewPicker(order[k], "UNGROUP", NoImage)]
                       \o <<NewPicker(g, "DELETED", NoImage)>>,
                       allocated)
    BY <1>7 DEF UngroupItems
  <2>3. PICK status \in {"REGROUP", "UNGROUP"} : status = "UNGROUP"
    OBVIOUS
  <2>4. PICK more : more = [k \in 1 .. Len(order) |-> NewPicker(order[k], status, NoImage)]
    OBVIOUS
  <2>5. PICK T \in SUBSET Leaf : T = members[g]
    BY DEF TypeOK
  <2>6. T \subseteq board \cap Connectable
    BY <1>1, <2>1, <2>5 DEF GroupsEditable
  <2>7. order \in SetToSeqs(T)
    BY <2>5
  <2>8. more \in Command /\ Ordered(more) /\ \A q \in ToSet(more) : q.status = status /\ q.item \in T
    BY <2>4, <2>7, MemberPickers
  <2>9. PICK kind \in {"NEWITEM", "DELETED"} : kind = "DELETED"
    OBVIOUS
  <2>10. PICK p : p = NewPicker(g, kind, NoImage)
    OBVIOUS
  <2>11. /\ p \in Picker /\ p.item = g /\ p.status = kind
        /\ <<p>> \in Command /\ Ordered(<<p>>) /\ ToSet(<<p>>) = {p}
    BY <2>10, GroupPicker
  <2>12. PICK one \in Command : one = <<p>>
    BY <2>11
  <2>13. FollowAll(ToSet(more), ToSet(one))
    BY <1>4, <2>3, <2>8, <2>9, <2>11, <2>12 DEF FollowAll, Follows
  <2>14. more \o one \in Command /\ Ordered(more \o one) /\ ToSet(more \o one) = ToSet(more) \cup ToSet(one)
    BY <2>8, <2>11, <2>12, <2>13, CommandsJoined
  <2>15. PICK cmd \in Command : cmd = more \o one
    BY <2>14
  <2>16. PICK objects, b : objects = allocated /\ b = board'
    OBVIOUS
  <2>17. RecordAtOnce(cmd, objects)
    BY <2>2, <2>3, <2>4, <2>9, <2>10, <2>12, <2>15, <2>16
  <2>18. Ordered(cmd) /\ \A q \in ToSet(cmd) : (q.status = "DELETED" /\ q.item = g)
                                               \/ (q.status = "UNGROUP" /\ q.item \in T)
    BY <2>3, <2>8, <2>9, <2>11, <2>12, <2>14, <2>15
  <2>19. p \in ToSet(cmd) /\ p.item = g /\ p.status = "DELETED" /\ g \notin T
    BY <1>4, <2>9, <2>11, <2>12, <2>14, <2>15
  <2>20. Recordable(ToSet(cmd), Known, board, b, objects)
    <3>1. \A q \in ToSet(cmd) : q.item \in Known => q.status # "NEWITEM" /\ q.item \in board
      BY <2>1, <2>18, <2>6
    <3>2. Placed(ToSet(cmd), b)
      <4>1. \A q \in ToSet(cmd) : q.status = "DELETED" => q.item \notin b
        BY <2>1, <2>16, <2>18
      <4>2. \A q \in ToSet(cmd) : q.item \notin b => q.item = g
        BY <2>1, <2>16, <2>18, <2>6
      <4> QED  BY <2>19, <4>1, <4>2 DEF Placed
    <3>3. \A o \in Known \ ItemsOf(ToSet(cmd)) : o \in b <=> o \in board
      BY <2>1, <2>16, <2>19 DEF ItemsOf
    <3>4. b \cup Known \cup ItemsOf(ToSet(cmd)) \subseteq objects
      BY <1>3, <2>1, <2>16, <2>18, <2>6 DEF ItemsOf
    <3>5. ItemsOf(ToSet(cmd)) \cap Marker = {}
      BY <1>4, <2>18, <2>6 DEF ItemsOf
    <3> QED  BY <3>1, <3>2, <3>3, <3>4, <3>5 DEF Recordable
  <2>21. view' = board' \cap Leaf /\ connectivity' = board' \cap Connectable
    BY <1>2, <1>4, <2>1
  <2> QED  BY <1>1, <2>16, <2>17, <2>18, <2>20, <2>21, AtOnceSafe
<1> QED  BY <1>5, <1>6, <1>7

------------------------------------------------------------------------------
(* PutDataInPreviousState().                                                 *)

\* All the pickers, and none of them.
LEMMA TodoEnds ==
    ASSUME NEW D, NEW s \in Seq(D)
    PROVE  /\ Todo(s, Len(s)) = s /\ Done(s, Len(s)) = << >>
           /\ Todo(s, 0) = << >> /\ Done(s, 0) = Reverse(s)
<1>1. PICK n \in Nat : n = Len(s)
  OBVIOUS
<1>2. << >> \in Seq(D) /\ Len(<< >>) = 0
  OBVIOUS
<1>3. 1 \in 1 .. (Len(s) + 1) /\ n \in 0 .. Len(s) /\ 0 \in 0 .. Len(s) /\ n + 1 \in 1 .. (Len(s) + 1)
      /\ 1 <= n + 1 /\ n + 1 <= n + 1 /\ 1 <= 0 + 1
  BY <1>1
<1>4. PICK t : t = SubSeq(s, 1, n)
  OBVIOUS
<1>5. t \in Seq(D) /\ Len(t) = n /\ \A k \in 1 .. n : t[k] = s[k]
  <2>1. /\ SubSeq(s, 1, n) \in Seq(D) /\ Len(SubSeq(s, 1, n)) = n - 1 + 1
        /\ \A k \in 1 .. (n - 1 + 1) : SubSeq(s, 1, n)[k] = s[1 + k - 1]
    BY <1>3, PartAt
  <2>2. n - 1 + 1 = n /\ \A k \in 1 .. n : 1 + k - 1 = k
    BY <1>1
  <2> QED  BY <1>4, <2>1, <2>2
<1>6. t = s
  BY <1>1, <1>5, SameEntries
<1>7. SubSeq(s, 1, 0) = << >>
  <2>1. SubSeq(s, 1, 0) \in Seq(D) /\ Len(SubSeq(s, 1, 0)) = 0 - 1 + 1
    BY <1>3, PartAt
  <2>2. Len(SubSeq(s, 1, 0)) = 0
    BY <2>1
  <2> QED  BY <2>1, <2>2
<1>8. SubSeq(s, n + 1, n) = << >>
  <2>1. SubSeq(s, n + 1, n) \in Seq(D) /\ Len(SubSeq(s, n + 1, n)) = n - (n + 1) + 1
    BY <1>3, PartAt
  <2>2. Len(SubSeq(s, n + 1, n)) = 0
    BY <1>1, <2>1
  <2> QED  BY <2>1, <2>2
<1>9. Reverse(<< >>) = << >>
  <2>1. Reverse(<< >>) \in Seq(D) /\ Len(Reverse(<< >>)) = 0
    BY <1>2, ReverseAt
  <2> QED  BY <2>1
<1>10. Todo(s, Len(s)) = s /\ Todo(s, 0) = << >> /\ Done(s, Len(s)) = << >>
  BY <1>1, <1>4, <1>6, <1>7, <1>8, <1>9 DEF Todo, Done
<1>11. SubSeq(s, 0 + 1, Len(s)) = s
  <2>1. 0 + 1 = 1
    OBVIOUS
  <2> QED  BY <1>1, <1>4, <1>6, <2>1
<1> QED  BY <1>10, <1>11 DEF Done

Replaced(s, k, y) == [s EXCEPT ![k] = y]
PutBack(s, t, k, y) ==
    /\ Todo(s, k) = Append(Todo(s, k - 1), s[k]) /\ Todo(t, k - 1) = Todo(s, k - 1)
    /\ Done(t, k - 1) = Append(Done(s, k), y)

\* One picker goes from what is to be put back to what has been.
LEMMA TodoStep ==
    ASSUME NEW D, NEW s \in Seq(D), NEW k \in 1 .. Len(s), NEW y \in D, NEW t, t = Replaced(s, k, y)
    PROVE  /\ t \in Seq(D) /\ Len(t) = Len(s)
           /\ Todo(s, k - 1) \in Seq(D) /\ Done(s, k) \in Seq(D)
           /\ PutBack(s, t, k, y)
<1>1. PICK n \in Nat : n = Len(s)
  OBVIOUS
<1>2. k \in Nat /\ 1 <= k /\ k <= n
  BY <1>1
<1>3. /\ t \in Seq(D) /\ Len(t) = n /\ t[k] = y /\ s[k] \in D
      /\ \A j \in 1 .. n : j # k => t[j] = s[j]
  BY <1>1 DEF Replaced
<1>4. PICK a, b, c, d, e : /\ a = SubSeq(s, 1, k) /\ b = SubSeq(s, 1, k - 1) /\ c = SubSeq(t, 1, k - 1)
                           /\ d = SubSeq(s, k + 1, n) /\ e = SubSeq(t, k, n)
  OBVIOUS
<1>5. a \in Seq(D) /\ Len(a) = k /\ \A j \in 1 .. k : a[j] = s[j]
  <2>1. 1 \in 1 .. (Len(s) + 1) /\ k \in 0 .. Len(s) /\ 1 <= k + 1
    BY <1>1, <1>2
  <2>2. /\ SubSeq(s, 1, k) \in Seq(D) /\ Len(SubSeq(s, 1, k)) = k - 1 + 1
        /\ \A j \in 1 .. (k - 1 + 1) : SubSeq(s, 1, k)[j] = s[1 + j - 1]
    BY <2>1, PartAt
  <2>3. k - 1 + 1 = k /\ \A j \in 1 .. k : 1 + j - 1 = j
    BY <1>2
  <2> QED  BY <1>4, <2>2, <2>3
<1>6. /\ b \in Seq(D) /\ Len(b) = k - 1 /\ (\A j \in 1 .. (k - 1) : b[j] = s[j])
      /\ c \in Seq(D) /\ Len(c) = k - 1 /\ (\A j \in 1 .. (k - 1) : c[j] = t[j])
  <2>1. /\ 1 \in 1 .. (Len(s) + 1) /\ k - 1 \in 0 .. Len(s) /\ 1 <= (k - 1) + 1
        /\ 1 \in 1 .. (Len(t) + 1) /\ k - 1 \in 0 .. Len(t)
    BY <1>1, <1>2, <1>3
  <2>2. /\ SubSeq(s, 1, k - 1) \in Seq(D) /\ Len(SubSeq(s, 1, k - 1)) = (k - 1) - 1 + 1
        /\ \A j \in 1 .. ((k - 1) - 1 + 1) : SubSeq(s, 1, k - 1)[j] = s[1 + j - 1]
    BY <2>1, PartAt
  <2>3. /\ SubSeq(t, 1, k - 1) \in Seq(D) /\ Len(SubSeq(t, 1, k - 1)) = (k - 1) - 1 + 1
        /\ \A j \in 1 .. ((k - 1) - 1 + 1) : SubSeq(t, 1, k - 1)[j] = t[1 + j - 1]
    BY <1>3, <2>1, PartAt
  <2>4. (k - 1) - 1 + 1 = k - 1 /\ \A j \in 1 .. (k - 1) : 1 + j - 1 = j
    BY <1>2
  <2> QED  BY <1>4, <2>2, <2>3, <2>4
<1>7. d \in Seq(D) /\ Len(d) = n - k /\ \A j \in 1 .. (n - k) : d[j] = s[k + j]
  <2>1. k + 1 \in 1 .. (Len(s) + 1) /\ n \in 0 .. Len(s) /\ k + 1 <= n + 1
    BY <1>1, <1>2
  <2>2. /\ SubSeq(s, k + 1, n) \in Seq(D) /\ Len(SubSeq(s, k + 1, n)) = n - (k + 1) + 1
        /\ \A j \in 1 .. (n - (k + 1) + 1) : SubSeq(s, k + 1, n)[j] = s[(k + 1) + j - 1]
    BY <2>1, PartAt
  <2>3. n - (k + 1) + 1 = n - k /\ \A j \in 1 .. (n - k) : (k + 1) + j - 1 = k + j
    BY <1>2
  <2> QED  BY <1>4, <2>2, <2>3
<1>8. e \in Seq(D) /\ Len(e) = n - k + 1 /\ \A j \in 1 .. (n - k + 1) : e[j] = t[k + j - 1]
  <2>1. k \in 1 .. (Len(t) + 1) /\ n \in 0 .. Len(t) /\ k <= n + 1
    BY <1>2, <1>3
  <2> QED  BY <1>3, <1>4, <2>1, PartAt
<1>9. a = Append(b, s[k])
  <2>1. PICK r : r = Append(b, s[k])
    OBVIOUS
  <2>2. r \in Seq(D) /\ Len(r) = k /\ r[k] = s[k] /\ \A j \in 1 .. (k - 1) : r[j] = b[j]
    BY <1>2, <1>3, <1>6, <2>1
  <2>3. \A j \in 1 .. k : r[j] = a[j]
    BY <1>2, <1>5, <1>6, <2>2
  <2> QED  BY <1>5, <2>1, <2>2, <2>3, SameEntries
<1>10. c = b
  <2>1. \A j \in 1 .. (k - 1) : c[j] = b[j]
    BY <1>2, <1>3, <1>6
  <2> QED  BY <1>6, <2>1, SameEntries
<1>11. PICK f, g : f = Reverse(d) /\ g = Reverse(e)
  OBVIOUS
<1>12. /\ f \in Seq(D) /\ Len(f) = n - k /\ \A j \in 1 .. (n - k) : f[j] = d[n - k - j + 1]
  <2>1. f \in Seq(D) /\ Len(f) = Len(d) /\ \A j \in 1 .. Len(d) : f[j] = d[Len(d) - j + 1]
    BY <1>7, <1>11, ReverseAt
  <2> QED  BY <1>7, <2>1
<1>13. /\ g \in Seq(D) /\ Len(g) = n - k + 1 /\ \A j \in 1 .. (n - k + 1) : g[j] = e[(n - k + 1) - j + 1]
  <2>1. g \in Seq(D) /\ Len(g) = Len(e) /\ \A j \in 1 .. Len(e) : g[j] = e[Len(e) - j + 1]
    BY <1>8, <1>11, ReverseAt
  <2> QED  BY <1>8, <2>1
<1>14. g = Append(f, y)
  <2>1. PICK r : r = Append(f, y)
    OBVIOUS
  <2>2. r \in Seq(D) /\ Len(r) = n - k + 1 /\ r[n - k + 1] = y /\ \A j \in 1 .. (n - k) : r[j] = f[j]
    <3>1. f \in Seq(D) /\ y \in D
      BY <1>12
    <3>2. /\ r \in Seq(D) /\ Len(r) = Len(f) + 1 /\ r[Len(f) + 1] = y
          /\ \A j \in 1 .. Len(f) : r[j] = f[j]
      BY <2>1, <3>1, AppendAt
    <3> QED  BY <1>12, <3>2
  <2>3. ASSUME NEW j \in 1 .. (n - k)  PROVE g[j] = r[j]
    <3>1. j \in 1 .. (n - k + 1) /\ n - k - j + 1 \in 1 .. (n - k)
          /\ (n - k + 1) - j + 1 \in 1 .. (n - k + 1)
      BY <1>2
    <3>2. g[j] = t[k + ((n - k + 1) - j + 1) - 1]
      BY <1>8, <1>13, <3>1
    <3>3. r[j] = s[k + (n - k - j + 1)]
      <4>1. r[j] = d[n - k - j + 1]
        BY <1>12, <2>2
      <4>2. PICK i \in 1 .. (n - k) : i = n - k - j + 1
        BY <3>1
      <4> QED  BY <1>7, <4>1, <4>2
    <3>4. k + ((n - k + 1) - j + 1) - 1 = k + (n - k - j + 1) /\ k + (n - k - j + 1) \in 1 .. n
          /\ k + (n - k - j + 1) # k
      BY <1>2
    <3> QED  BY <1>3, <3>2, <3>4, <3>3
  <2>4. g[n - k + 1] = y
    <3>1. n - k + 1 \in 1 .. (n - k + 1) /\ (n - k + 1) - (n - k + 1) + 1 = 1 /\ 1 \in 1 .. (n - k + 1)
          /\ k + 1 - 1 = k
      BY <1>2
    <3>2. g[n - k + 1] = e[1]
      BY <1>13, <3>1
    <3>3. e[1] = t[k]
      <4>1. e[1] = t[k + 1 - 1]
        BY <1>8, <3>1
      <4> QED  BY <3>1, <4>1
    <3> QED  BY <1>3, <3>2, <3>3
  <2>5. \A j \in 1 .. (n - k + 1) : g[j] = r[j]
    BY <1>2, <2>2, <2>3, <2>4
  <2> QED  BY <1>13, <2>1, <2>2, <2>5, SameEntries
<1>15. /\ Todo(s, k) = a /\ Todo(s, k - 1) = b /\ Todo(t, k - 1) = c /\ Done(s, k) = f
  BY <1>1, <1>4, <1>11 DEF Todo, Done
<1>16. Done(t, k - 1) = g
  <2>1. k - 1 + 1 = k
    BY <1>2
  <2> QED  BY <1>3, <1>4, <1>11, <2>1 DEF Done
<1> QED  BY <1>1, <1>3, <1>6, <1>9, <1>10, <1>12, <1>14, <1>15, <1>16 DEF PutBack

\* The state in the middle of PutDataInPreviousState().
LEMMA PuttingSafe ==
    ASSUME pc' = "put", view' = board' \cap Leaf, connectivity' = board' \cap Connectable,
           commit' = EmptyCommit, idx' \in 0 .. Len(list'), mode' = "rollback" => redoList' = << >>,
           NEW near, near = Near', NEW far, far = Far',
           NEW todo, todo = Todo(list', idx'), NEW done, done = Done(list', idx'),
           Safe(Append(near, todo), Append(far, done), board', allocated')
    PROVE  BoardSafe'
<1>1. (Todo(list, idx))' = todo /\ (Done(list, idx))' = done
  BY DEF Todo, Done, Reverse
<1>2. (Append(Near, Todo(list, idx)))' = Append(near, todo)
  BY <1>1
<1>3. (Append(Far, Done(list, idx)))' = Append(far, done)
  BY <1>1
<1>4. PICK n, f : n = Append(near, todo) /\ f = Append(far, done)
  OBVIOUS
<1>5. Safe(n, f, board', allocated')
  BY <1>4
<1>6. PICK b, m : b = board' /\ m = allocated'
  OBVIOUS
<1>7. Safe(n, f, b, m)
  BY <1>6, <1>5
<1>8. (PickersOf(Append(Near, Todo(list, idx))))' = PickersOf(n)
  BY <1>2, <1>4 DEF PickersOf, ToSet
<1>9. (PickersOf(Append(Far, Done(list, idx))))' = PickersOf(f)
  BY <1>3, <1>4 DEF PickersOf, ToSet
<1>10. (AllOrdered(Append(Near, Todo(list, idx))))' = AllOrdered(n)
  BY <1>2, <1>4 DEF AllOrdered, ToSet, Ordered
<1>11. (AllOrdered(Append(Far, Done(list, idx))))' = AllOrdered(f)
  BY <1>3, <1>4 DEF AllOrdered, ToSet, Ordered
<1>12. PICK P, Q : P = PickersOf(n) /\ Q = PickersOf(f)
  OBVIOUS
<1>13. AllOrdered(n) /\ AllOrdered(f) /\ ApartAll(P, Q) /\ Placed(P \cup Q, b) /\ b \subseteq m
       /\ ItemsOf(P \cup Q) \subseteq m
    /\ ("drc" \in Tools => ItemsOf(P \cup Q) \cap Marker = {})
  BY <1>7, <1>12 DEF Safe, PickersOfBoth
<1>14. Safe(Append(Near, Todo(list, idx)), Append(Far, Done(list, idx)), board, allocated)'
  BY <1>6, <1>8, <1>9, <1>10, <1>11, <1>12, <1>13 DEF Safe, PickersOfBoth, ItemsOf
<1> QED  BY <1>14 DEF BoardSafe, EmptyCommit

\* A command leaves its list: all of it is still to be put back.
LEMMA BeginSafe ==
    ASSUME TypeOK, BoardSafe, UndoCommand \/ RedoCommand \/ RollbackCommand
    PROVE  BoardSafe'
<1>1. /\ pc = "idle" /\ pc' = "put" /\ UNCHANGED <<board, view, connectivity, commit, allocated>>
  BY DEF UndoCommand, RedoCommand, RollbackCommand, BeginPut, modelVars
<1>2. /\ commit = EmptyCommit /\ view = board \cap Leaf /\ connectivity = board \cap Connectable
      /\ Safe(undoList, redoList, board, allocated)
  BY <1>1 DEF BoardSafe
<1>3. PICK undo \in Seq(Command), redo \in Seq(Command) : undo = undoList /\ redo = redoList
  BY DEF TypeOK
<1>4. PICK b, mem : b = board /\ mem = allocated
  OBVIOUS
<1>5. Safe(undo, redo, b, mem) /\ Safe(redo, undo, b, mem)
  BY <1>2, <1>3, <1>4, SafeSwapped
<1>6. ASSUME NEW from \in Seq(Command), NEW far \in Seq(Command), from # << >>, Safe(from, far, b, mem),
             NEW near, near = Front(from), near = Near', far = Far',
             NEW cmd, cmd = Last(from), list' = cmd, idx' = Len(cmd),
             mode' = "rollback" => redoList' = << >>
      PROVE  BoardSafe'
  <2>1. Safe(Append(near, cmd), Append(far, << >>), b, mem)
    BY <1>6, SafeBegun
  <2>2. cmd \in Seq(Picker) /\ Len(cmd) \in Nat
    <3>1. cmd \in Command
      BY <1>6, FrontAndLast
    <3> QED  BY <3>1 DEF Command
  <2>3. Todo(cmd, Len(cmd)) = cmd /\ Done(cmd, Len(cmd)) = << >>
    BY <2>2, TodoEnds
  <2>4. PICK todo, done : todo = Todo(list', idx') /\ done = Done(list', idx')
    OBVIOUS
  <2>5. todo = cmd /\ done = << >>
    BY <1>6, <2>3, <2>4
  <2>6. Safe(Append(near, todo), Append(far, done), board', allocated')
    BY <1>1, <1>4, <2>1, <2>5
  <2>7. view' = board' \cap Leaf /\ connectivity' = board' \cap Connectable /\ commit' = EmptyCommit
    BY <1>1, <1>2
  <2>8. idx' \in 0 .. Len(list')
    BY <1>6, <2>2
  <2> QED  BY <1>1, <1>6, <2>4, <2>6, <2>7, <2>8, PuttingSafe
<1>7. CASE UndoCommand
  <2>1. /\ undo # << >> /\ undoList' = Front(undo) /\ redoList' = redo /\ mode' = "undo"
        /\ list' = Last(undo) /\ idx' = Len(Last(undo))
    BY <1>3, <1>7 DEF UndoCommand, BeginPut
  <2>2. PICK near, cmd : near = Front(undo) /\ cmd = Last(undo)
    OBVIOUS
  <2>3. near = Near' /\ redo = Far'
    BY <2>1, <2>2 DEF Near, Far
  <2> QED  BY <1>5, <1>6, <2>1, <2>2, <2>3
<1>8. CASE RedoCommand
  <2>1. /\ redo # << >> /\ redoList' = Front(redo) /\ undoList' = undo /\ mode' = "redo"
        /\ list' = Last(redo) /\ idx' = Len(Last(redo))
    BY <1>3, <1>8 DEF RedoCommand, BeginPut
  <2>2. PICK near, cmd : near = Front(redo) /\ cmd = Last(redo)
    OBVIOUS
  <2>3. near = Near' /\ undo = Far'
    BY <2>1, <2>2 DEF Near, Far
  <2> QED  BY <1>5, <1>6, <2>1, <2>2, <2>3
<1>9. CASE RollbackCommand
  <2>1. /\ undo # << >> /\ undoList' = Front(undo) /\ redoList' = redo /\ mode' = "rollback"
        /\ list' = Last(undo) /\ idx' = Len(Last(undo)) /\ redo = << >>
    BY <1>3, <1>9 DEF RollbackCommand, BeginPut
  <2>2. PICK near, cmd : near = Front(undo) /\ cmd = Last(undo)
    OBVIOUS
  <2>3. near = Near' /\ redo = Far' /\ redoList' = << >>
    BY <2>1, <2>2 DEF Near, Far
  <2> QED  BY <1>5, <1>6, <2>1, <2>2, <2>3
<1> QED  BY <1>7, <1>8, <1>9

\* Before a step of PutDataInPreviousState().
LEMMA Putting ==
    ASSUME TypeOK, BoardSafe, pc = "put"
    PROVE  /\ view = board \cap Leaf /\ connectivity = board \cap Connectable /\ commit = EmptyCommit
           /\ idx \in 0 .. Len(list) /\ (mode = "rollback" => redoList = << >>)
           /\ Safe(Append(Near, Todo(list, idx)), Append(Far, Done(list, idx)), board, allocated)
           /\ Near \in Seq(Command) /\ Far \in Seq(Command) /\ list \in Command
  BY DEF BoardSafe, TypeOK, Near, Far

\* A picker is where it says it is, and after it has been handled the lists
\* agree with the board again.
LEMMA PickerSafe ==
    ASSUME TypeOK, BoardSafe, pc = "put", idx \in 1 .. Len(list),
           NEW x, x = list[idx], NEW y \in Picker, y.item = x.item, y.status = Turned(x.status)
    PROVE  /\ x \in Picker /\ (IF x.status = "DELETED" THEN x.item \notin board ELSE x.item \in board)
           /\ x.item \in allocated
           /\ UNCHANGED <<pc, mode, undoList, redoList, commit, allocated>>
              /\ list' = [list EXCEPT ![idx] = y] /\ idx' = idx - 1
              /\ board' = BoardAfter(x, board)
              /\ view' = board' \cap Leaf /\ connectivity' = board' \cap Connectable
              => BoardSafe'
<1>1. /\ commit = EmptyCommit /\ (mode = "rollback" => redoList = << >>)
      /\ Safe(Append(Near, Todo(list, idx)), Append(Far, Done(list, idx)), board, allocated)
      /\ Near \in Seq(Command) /\ Far \in Seq(Command) /\ list \in Seq(Picker)
  BY Putting DEF Command
<1>2. PICK s \in Seq(Picker) : s = list
  BY <1>1
<1>3. PICK k \in 1 .. Len(s) : s = list /\ k = idx
  BY <1>2
<1>4. PICK t : t = Replaced(s, k, y)
  OBVIOUS
<1>5. /\ t \in Seq(Picker) /\ Len(t) = Len(s)
      /\ Todo(s, k - 1) \in Seq(Picker) /\ Done(s, k) \in Seq(Picker)
      /\ Todo(s, k) = Append(Todo(s, k - 1), s[k])
      /\ Todo(t, k - 1) = Todo(s, k - 1)
      /\ Done(t, k - 1) = Append(Done(s, k), y)
  <2>1. /\ t \in Seq(Picker) /\ Len(t) = Len(s)
        /\ Todo(s, k - 1) \in Seq(Picker) /\ Done(s, k) \in Seq(Picker)
        /\ PutBack(s, t, k, y)
    BY <1>3, <1>2, <1>4, TodoStep
  <2> QED  BY <2>1 DEF PutBack
<1>6. PICK todo \in Command, done \in Command : todo = Todo(s, k - 1) /\ done = Done(s, k)
  BY <1>5 DEF Command
<1>7. PICK near \in Seq(Command), far \in Seq(Command), b \in {board}, mem \in {allocated} :
        near = Near /\ far = Far /\ b = board /\ mem = allocated
  BY <1>1
<1>8. x \in Picker /\ s[k] = x
  BY <1>3
<1>9. Safe(Append(near, Append(todo, x)), Append(far, done), b, mem)
  BY <1>1, <1>3, <1>5, <1>6, <1>7, <1>8
<1>10. /\ IF x.status = "DELETED" THEN x.item \notin b ELSE x.item \in b
      /\ x.item \in mem
      /\ Safe(Append(near, todo), Append(far, Append(done, y)), BoardAfter(x, b), mem)
  BY <1>8, <1>9, SafeTurned
<1>11. ASSUME UNCHANGED <<pc, mode, undoList, redoList, commit, allocated>>,
              list' = [list EXCEPT ![idx] = y], idx' = idx - 1,
              board' = BoardAfter(x, board),
              view' = board' \cap Leaf, connectivity' = board' \cap Connectable
       PROVE  BoardSafe'
  <2>1. list' = t /\ idx' = k - 1
    BY <1>3, <1>4, <1>11 DEF Replaced
  <2>2. PICK todo2, done2 : todo2 = Todo(list', idx') /\ done2 = Done(list', idx')
    OBVIOUS
  <2>3. todo2 = todo /\ done2 = Append(done, y)
    BY <1>5, <1>6, <2>1, <2>2
  <2>4. Safe(Append(near, todo2), Append(far, done2), board', allocated')
    BY <1>7, <1>10, <1>11, <2>3
  <2>5. near = Near' /\ far = Far' /\ pc' = "put" /\ commit' = EmptyCommit
        /\ (mode' = "rollback" => redoList' = << >>)
    BY <1>1, <1>7, <1>11 DEF Near, Far
  <2>6. idx' \in 0 .. Len(list')
    BY <1>3, <1>5, <2>1
  <2> QED  BY <1>11, <2>2, <2>4, <2>5, <2>6, PuttingSafe
<1> QED  BY <1>7, <1>8, <1>10, <1>11

\* One field of a picker changes.
WithStatus(s, k, st) == [s EXCEPT ![k].status = st]
WithCopy(s, k, image) == [s EXCEPT ![k].link = image]

\* The status of one picker changes.
LEMMA StatusUpdated ==
    ASSUME NEW s \in Seq(Picker), NEW k \in 1 .. Len(s),
           NEW st \in Status, st \in {"REGROUP", "UNGROUP"} => s[k].item \in Leaf
    PROVE  \E y \in Picker : /\ y.item = s[k].item /\ y.status = st
                             /\ WithStatus(s, k, st) = Replaced(s, k, y)
<1>1. PICK x \in Picker : x = s[k]
  OBVIOUS
<1>2. /\ x = [item |-> x.item, link |-> x.link, status |-> x.status]
      /\ x.item \in Object /\ x.link \in Image
  BY DEF Picker
<1>3. PICK y : y = [item |-> x.item, link |-> x.link, status |-> st]
  OBVIOUS
<1>4. y \in Picker /\ y.item = x.item /\ y.status = st
  BY <1>1, <1>2, <1>3 DEF Picker
<1>5. [s[k] EXCEPT !.status = st] = y
  BY <1>1, <1>2, <1>3
<1>6. WithStatus(s, k, st) = Replaced(s, k, y)
  BY <1>5 DEF WithStatus, Replaced
<1> QED  BY <1>1, <1>4, <1>6

\* The copy of one picker changes.
LEMMA CopyUpdated ==
    ASSUME NEW s \in Seq(Picker), NEW k \in 1 .. Len(s), NEW image \in Image
    PROVE  \E y \in Picker : /\ y.item = s[k].item /\ y.status = s[k].status
                             /\ WithCopy(s, k, image) = Replaced(s, k, y)
<1>1. PICK x \in Picker : x = s[k]
  OBVIOUS
<1>2. /\ x = [item |-> x.item, link |-> x.link, status |-> x.status]
      /\ x.item \in Object /\ x.status \in Status
      /\ x.status \in {"REGROUP", "UNGROUP"} => x.item \in Leaf
  BY DEF Picker
<1>3. PICK y : y = [item |-> x.item, link |-> image, status |-> x.status]
  OBVIOUS
<1>4. y \in Picker /\ y.item = x.item /\ y.status = x.status
  BY <1>2, <1>3 DEF Picker
<1>5. [s[k] EXCEPT !.link = image] = y
  BY <1>1, <1>2, <1>3
<1>6. WithCopy(s, k, image) = Replaced(s, k, y)
  BY <1>5 DEF WithCopy, Replaced
<1> QED  BY <1>1, <1>4, <1>6

\* No picker is of an item that should be on the board and is not.
LEMMA PickerPlaced ==
    ASSUME TypeOK, BoardSafe, pc = "put", idx \in 1 .. Len(list)
    PROVE  /\ list[idx] \in Picker /\ list[idx].item \in allocated
           /\ IF list[idx].status = "DELETED" THEN list[idx].item \notin board ELSE list[idx].item \in board
<1>1. PICK s \in Seq(Picker) : s = list
  BY Putting DEF Command
<1>2. PICK k \in 1 .. Len(s) : k = idx
  BY <1>1
<1>3. PICK x \in Picker : x = list[idx]
  BY <1>1, <1>2
<1>4. PICK st : st = Turned(x.status)
  OBVIOUS
<1>5. st \in Status /\ (st \in {"REGROUP", "UNGROUP"} => x.item \in Leaf)
  BY <1>4 DEF Turned, Picker, Status
<1>6. st \in Status /\ (st \in {"REGROUP", "UNGROUP"} => s[k].item \in Leaf)
  BY <1>1, <1>2, <1>3, <1>5
<1>7. PICK y \in Picker : y.item = s[k].item /\ y.status = st
  BY <1>1, <1>2, <1>6, StatusUpdated
<1>8. y.item = x.item /\ y.status = Turned(x.status)
  BY <1>1, <1>2, <1>3, <1>4, <1>7
<1> QED  BY <1>3, <1>8, PickerSafe

\* Each case of PutDataInPreviousState().
LEMMA PutSafe ==
    ASSUME TypeOK, BoardSafe,
           PutMissing \/ PutChanged \/ PutNewItem \/ PutDeleted \/ PutRegroup \/ PutUngroup
    PROVE  BoardSafe'
<1>1. pc = "put" /\ idx \in 1 .. Len(list)
  BY DEF PutMissing, PutChanged, PutNewItem, PutDeleted, PutRegroup, PutUngroup, AtPicker
<1>2. PICK s \in Seq(Picker) : s = list
  BY <1>1, Putting DEF Command
<1>3. PICK k \in 1 .. Len(s) : k = idx
  BY <1>1, <1>2
<1>4. PICK x \in Picker : x = list[idx]
  BY <1>2, <1>3
<1>5. /\ IF x.status = "DELETED" THEN x.item \notin board ELSE x.item \in board
      /\ view = board \cap Leaf /\ connectivity = board \cap Connectable
  BY <1>1, <1>4, PickerPlaced, Putting
<1>6. ASSUME NEW y \in Picker, y.item = s[k].item, y.status = Turned(x.status),
             UNCHANGED <<pc, mode, undoList, redoList, commit, allocated>>,
             list' = Replaced(s, k, y), idx' = idx - 1, board' = BoardAfter(x, board),
             view' = board' \cap Leaf, connectivity' = board' \cap Connectable
      PROVE  BoardSafe'
  <2>1. y.item = x.item /\ list' = [list EXCEPT ![idx] = y]
    BY <1>2, <1>3, <1>4, <1>6 DEF Replaced
  <2> QED  BY <1>1, <1>4, <1>6, <2>1, PickerSafe
<1>7. ~PutMissing
  BY <1>4, <1>5 DEF PutMissing, Exists
<1>8. ASSUME NEW from, NEW to, x.status = from, from \in Status, to = Turned(from), SetStatus(to),
             to \in {"REGROUP", "UNGROUP"} => from \in {"REGROUP", "UNGROUP"}
      PROVE  \E y \in Picker : /\ y.item = s[k].item /\ y.status = Turned(x.status)
                               /\ list' = Replaced(s, k, y)
  <2>1. to \in Status
    BY <1>8 DEF Turned, Status
  <2>2. to \in {"REGROUP", "UNGROUP"} => s[k].item \in Leaf
    BY <1>2, <1>3, <1>4, <1>8 DEF Picker
  <2>3. list' = WithStatus(s, k, to)
    BY <1>2, <1>3, <1>8 DEF SetStatus, WithStatus
  <2>4. PICK y \in Picker : y.item = s[k].item /\ y.status = to /\ WithStatus(s, k, to) = Replaced(s, k, y)
    BY <1>2, <1>3, <2>1, <2>2, StatusUpdated
  <2> QED  BY <1>8, <2>3, <2>4
<1>9. CASE PutChanged
  <2>1. /\ x.status = "CHANGED" /\ idx' = idx - 1 /\ UNCHANGED board
        /\ UNCHANGED <<pc, mode, undoList, redoList, commit, allocated>>
        /\ list' = WithCopy(s, k, ImageOf(x.item))
        /\ view' = view \cup ({x.item} \cap Leaf)
        /\ connectivity' = connectivity \cup ({x.item} \cap Connectable)
    BY <1>2, <1>3, <1>4, <1>9 DEF PutChanged, AtPicker, Swap, WithCopy
  <2>2. PICK image \in Image : image = ImageOf(x.item)
    <3>1. x.item \in Object
      BY <1>4 DEF Picker
    <3>2. ImageOf(x.item) \in Image
      BY <3>1 DEF ImageOf, Image, TypeOK, Object
    <3> QED  BY <3>2
  <2>3. PICK y \in Picker : /\ y.item = s[k].item /\ y.status = s[k].status
                            /\ WithCopy(s, k, image) = Replaced(s, k, y)
    BY <1>2, <1>3, <2>2, CopyUpdated
  <2>4. s[k].status = Turned(x.status) /\ board' = BoardAfter(x, board)
    BY <1>2, <1>3, <1>4, <2>1 DEF Turned, BoardAfter
  <2>5. view' = board' \cap Leaf /\ connectivity' = board' \cap Connectable
    BY <1>5, <2>1
  <2> QED  BY <1>6, <2>1, <2>2, <2>3, <2>4, <2>5
<1>10. CASE PutNewItem
  <2>1. /\ x.status = "NEWITEM" /\ idx' = idx - 1 /\ SetStatus("DELETED")
        /\ UNCHANGED <<pc, mode, undoList, redoList, commit, allocated>>
        /\ board' = board \ {x.item} /\ view' = view \ {x.item} /\ connectivity' = connectivity \ {x.item}
    BY <1>4, <1>10 DEF PutNewItem, AtPicker, BoardRemove
  <2>2. PICK y \in Picker : /\ y.item = s[k].item /\ y.status = Turned(x.status)
                            /\ list' = Replaced(s, k, y)
    BY <1>8, <2>1 DEF Turned, Status
  <2>3. board' = BoardAfter(x, board) /\ view' = board' \cap Leaf /\ connectivity' = board' \cap Connectable
    BY <1>5, <2>1 DEF BoardAfter
  <2> QED  BY <1>6, <2>1, <2>2, <2>3
<1>11. CASE PutDeleted
  <2>1. /\ x.status = "DELETED" /\ idx' = idx - 1 /\ SetStatus("NEWITEM")
        /\ UNCHANGED <<pc, mode, undoList, redoList, commit, allocated>>
        /\ board' = board \cup {x.item} /\ view' = view \cup ({x.item} \cap Leaf)
        /\ connectivity' = connectivity \cup ({x.item} \cap Connectable)
    BY <1>4, <1>11 DEF PutDeleted, AtPicker, BoardAdd
  <2>2. PICK y \in Picker : /\ y.item = s[k].item /\ y.status = Turned(x.status)
                            /\ list' = Replaced(s, k, y)
    BY <1>8, <2>1 DEF Turned, Status
  <2>3. board' = BoardAfter(x, board) /\ view' = board' \cap Leaf /\ connectivity' = board' \cap Connectable
    BY <1>5, <2>1 DEF BoardAfter
  <2> QED  BY <1>6, <2>1, <2>2, <2>3
<1>12. CASE PutRegroup \/ PutUngroup
  <2>1. /\ \/ x.status = "REGROUP" /\ SetStatus("UNGROUP")
           \/ x.status = "UNGROUP" /\ SetStatus("REGROUP")
        /\ idx' = idx - 1 /\ UNCHANGED <<board, view, connectivity>>
        /\ UNCHANGED <<pc, mode, undoList, redoList, commit, allocated>>
    BY <1>4, <1>12 DEF PutRegroup, PutUngroup, AtPicker
  <2>2. PICK y \in Picker : /\ y.item = s[k].item /\ y.status = Turned(x.status)
                            /\ list' = Replaced(s, k, y)
    BY <1>8, <2>1 DEF Turned, Status
  <2>3. board' = BoardAfter(x, board) /\ view' = board' \cap Leaf /\ connectivity' = board' \cap Connectable
    BY <1>5, <2>1 DEF BoardAfter
  <2> QED  BY <1>6, <2>1, <2>2, <2>3
<1> QED  BY <1>7, <1>9, <1>10, <1>11, <1>12

\* The command goes to the other list, or is freed.
LEMMA PutDoneSafe == ASSUME TypeOK, PutModes, BoardSafe, PutDone  PROVE BoardSafe'
<1>1. /\ pc = "put" /\ idx = 0 /\ pc' = "idle" /\ mode' = "none" /\ list' = << >>
      /\ UNCHANGED <<board, view, connectivity, commit>> /\ mode \in {"undo", "redo", "rollback"}
  BY DEF PutDone, modelVars, PutModes
<1>2. /\ view = board \cap Leaf /\ connectivity = board \cap Connectable /\ commit = EmptyCommit
      /\ (mode = "rollback" => redoList = << >>)
      /\ Safe(Append(Near, Todo(list, idx)), Append(Far, Done(list, idx)), board, allocated)
  BY <1>1, Putting
<1>3. PICK s \in Seq(Picker) : s = list
  BY <1>1, Putting DEF Command
<1>4. Todo(s, 0) = << >> /\ Done(s, 0) = Reverse(s) /\ Reverse(s) \in Seq(Picker)
      /\ ToSet(Reverse(s)) = ToSet(s)
  BY TodoEnds, ReverseAt
<1>5. PICK done \in Command : done = Reverse(s)
  BY <1>4 DEF Command
<1>6. PICK b, mem : b = board /\ mem = allocated
  OBVIOUS
<1>7. PICK undo \in Seq(Command), redo \in Seq(Command) : undo = undoList /\ redo = redoList
  BY DEF TypeOK
<1>8. PICK todo : todo = Todo(list, idx) /\ done = Done(list, idx)
  BY <1>1, <1>3, <1>4, <1>5
<1>9. todo = << >>
  BY <1>1, <1>3, <1>4, <1>8
<1>10. Safe(Append(Near, << >>), Append(Far, done), b, mem)
  BY <1>2, <1>6, <1>8, <1>9
<1>11. Safe(undoList', redoList', b, allocated')
  <2>1. CASE mode = "undo"
    <3>1. Safe(Append(undo, << >>), Append(redo, done), b, mem)
      BY <1>7, <1>10, <2>1 DEF Near, Far
    <3>2. Safe(undo, Newest(Append(redo, done)), b, mem \ ItemsOwnedBy(Oldest(Append(redo, done))))
      BY <3>1, SafeEnded
    <3>3. /\ redoList' = Newest(Append(redo, done)) /\ undoList' = undo
          /\ allocated' = mem \ ItemsOwnedBy(Oldest(Append(redo, done)))
      BY <1>3, <1>5, <1>6, <1>7, <2>1 DEF PutDone
    <3> QED  BY <3>2, <3>3
  <2>2. CASE mode = "redo"
    <3>1. Safe(Append(redo, << >>), Append(undo, done), b, mem)
      BY <1>7, <1>10, <2>2 DEF Near, Far
    <3>2. PICK kept, left : /\ kept = Newest(Append(undo, done))
                            /\ left = mem \ ItemsOwnedBy(Oldest(Append(undo, done)))
      OBVIOUS
    <3>3. Safe(redo, kept, b, left)
      BY <3>1, <3>2, SafeEnded
    <3>4. Safe(kept, redo, b, left)
      BY <3>3, SafeSwapped
    <3>5. undoList' = kept /\ redoList' = redo /\ allocated' = left
      BY <1>3, <1>5, <1>6, <1>7, <2>2, <3>2 DEF PutDone
    <3> QED  BY <3>4, <3>5
  <2>3. CASE mode = "rollback"
    <3>1. Safe(Append(undo, << >>), Append(<< >>, done), b, mem)
      BY <1>2, <1>7, <1>10, <2>3 DEF Near, Far
    <3>2. Safe(undo, << >>, b, mem \ OwnedBy(ToSet(done)))
      BY <3>1, SafeFreed
    <3>3. OwnedBy(ToSet(done)) = DeletedItems(list)
      BY <1>3, <1>4, <1>5 DEF OwnedBy, DeletedItems
    <3>4. undoList' = undo /\ redoList' = << >> /\ allocated' = mem \ DeletedItems(list)
      BY <1>2, <1>6, <1>7, <2>3 DEF PutDone
    <3> QED  BY <3>2, <3>3, <3>4
  <2> QED  BY <1>1, <2>1, <2>2, <2>3
<1>12. Safe(undoList', redoList', board', allocated')
  BY <1>1, <1>6, <1>11
<1> QED  BY <1>1, <1>2, <1>12, IdleSafe

------------------------------------------------------------------------------
(* All the steps.                                                            *)

\* Nothing happens.
LEMMA UnchangedSafe == ASSUME TypeOK, BoardSafe, UNCHANGED vars  PROVE BoardSafe'
<1>1. /\ UNCHANGED <<board, view, connectivity, commit, undoList, redoList, allocated>>
      /\ UNCHANGED <<pc, idx, list, mode, base>>
  BY DEF vars
<1>2. connectivity' = board' \cap Connectable
  BY <1>1 DEF BoardSafe
<1>3. CASE pc = "idle"
  <2>1. /\ mode = "none" /\ list = << >> /\ commit = EmptyCommit /\ view = board \cap Leaf
        /\ Safe(undoList, redoList, board, allocated)
    BY <1>3 DEF BoardSafe
  <2> QED  BY <1>1, <1>2, <1>3, <2>1, IdleSafe
<1>4. CASE pc = "put"
  <2>1. /\ view' = board' \cap Leaf /\ commit' = EmptyCommit /\ idx' \in 0 .. Len(list')
        /\ (mode' = "rollback" => redoList' = << >>)
    BY <1>1, <1>4, Putting
  <2>2. PICK near, far, todo, done : /\ near = Near /\ far = Far
                                     /\ todo = Todo(list, idx) /\ done = Done(list, idx)
    OBVIOUS
  <2>3. Safe(Append(near, todo), Append(far, done), board', allocated')
    BY <1>1, <1>4, <2>2, Putting
  <2>4. near = Near' /\ far = Far' /\ todo = Todo(list', idx') /\ done = Done(list', idx')
    BY <1>1, <2>2 DEF Near, Far
  <2>5. pc' = "put"
    BY <1>1, <1>4
  <2> QED  BY <1>2, <2>1, <2>3, <2>4, <2>5, PuttingSafe
<1>5. CASE pc \notin {"idle", "put"}
  <2>1. CommitSafe
    BY <1>5 DEF BoardSafe
  <2>2. PICK S, K, P, known : /\ S = Start /\ K = Carrying(commit.lines, pc, idx)
                              /\ P = Seen(commit.lines, pc, idx) /\ known = Known
    OBVIOUS
  <2>3. S = Start' /\ K = Carrying(commit'.lines, pc', idx') /\ P = Seen(commit'.lines, pc', idx')
    BY <1>1, <2>2 DEF Start
  <2>4. known = Known'
    BY <1>1, <2>2, KnownKept
  <2>5. /\ Safe(undoList', redoList', S, allocated')
        /\ CommitOK(commit', S, K, P, board', view', Known', allocated')
        /\ \A l \in ToSet(commit'.lines) : LineAllowed(l, pc', mode')
    BY <1>1, <2>1, <2>2, <2>4 DEF CommitSafe
  <2>6. CommitPlace'
    <3>1. CommitPlace
      BY <2>1 DEF CommitSafe
    <3> QED  BY <1>1, <3>1 DEF CommitPlace, LateLines, Listed, Pushing
  <2>7. pc' \notin {"idle", "put"}
    BY <1>1, <1>5
  <2> QED  BY <1>2, <2>3, <2>5, <2>6, <2>7, CommittedSafe
<1> QED  BY <1>3, <1>4, <1>5

\* Every step keeps the lists and the board together.
LEMMA StepSafe ==
    ASSUME TypeOK, PutModes, EnteredGroupKept, GroupsEditable, BoardSafe, PlainTools, [Next]_vars
    PROVE  BoardSafe'
<1>1. CASE UNCHANGED vars
  BY <1>1, UnchangedSafe
<1>2. CASE UserStep
  <2>1. \/ \E i \in Item, v \in Value :
              ModifyItem(i, v) \/ AddItem(i, v) \/ AddPlacedItem(i, v)
        \/ \E g \in Group, v \in Value : ModifyGroup(g, v)
        \/ \E i \in Leaf : RemoveItem(i) \/ DeleteItem(i) \/ RemoveFromGroup(i)
        \/ \E g \in Group : DeleteGroup(g)
        \/ \E i \in Item :
              \/ CleanerRemove(i)
              \/ \E j \in Item, v \in Value : CleanerMerge(i, j, v)
        \/ \E flag \in {"push", "append"} : Push(flag)
        \/ Revert
        \/ RunDrc
        \/ \E g \in Group : \/ EnterGroup(g) \/ UngroupItems(g)
                            \/ \E items \in SUBSET Item : GroupItems(g, items)
        \/ ExitGroup
        \/ UndoCommand \/ RedoCommand \/ RollbackCommand
    BY <1>2 DEF UserStep
  <2> QED  BY <2>1, StagingSafe, PartsSafe, RevertSafe, DrcSafe, GroupsSafe, BeginSafe
<1>3. CASE ProgramStep
  BY <1>3, AdditionsSafe, PartsSafe, LinesSafe, PushDoneSafe, RevertSafe, PutSafe, PutDoneSafe
     DEF ProgramStep
<1> QED  BY <1>1, <1>2, <1>3 DEF Next

\* A board that has just been loaded.
LEMMA InitSafe == Init => BoardSafe
<1> SUFFICES ASSUME Init  PROVE BoardSafe
  OBVIOUS
<1>1. /\ pc = "idle" /\ mode = "none" /\ list = << >> /\ commit = EmptyCommit
      /\ undoList = << >> /\ redoList = << >>
      /\ board = InitBoard /\ view = InitBoard \cap Leaf /\ connectivity = InitBoard \cap Connectable
      /\ allocated = InitBoard
  BY DEF Init
<1>2. PickersOfBoth(<< >>, << >>) = {}
  BY NoPickers DEF PickersOfBoth
<1>3. Safe(<< >>, << >>, InitBoard, InitBoard)
  BY <1>2, NoPickers DEF Safe, ApartAll, Placed, ItemsOf
<1> QED  BY <1>1, <1>3 DEF BoardSafe

------------------------------------------------------------------------------
(* The invariant, and what it says.                                          *)

\* Each list has the pickers of an item in the order in which it was added, changed and
\* removed, the two lists never both own it, and an item of theirs is off the board
\* exactly while one owns it; in the middle of a commit the same holds of the board
\* that it started from, and the lines say what has become of that one.
THEOREM HistoryFitsBoard ==
    ASSUME PlainTools  PROVE Spec /\ []GroupsEditable => []BoardSafe
<1>1. Spec => [](TypeOK /\ PutModes)
  BY TypeInvariant
<1>2. Spec => []EnteredGroupKept
  BY EnteredGroupInvariant
<1>3. TypeOK /\ PutModes /\ EnteredGroupKept /\ GroupsEditable /\ BoardSafe /\ [Next]_vars => BoardSafe'
  BY StepSafe
<1> QED  BY <1>1, <1>2, <1>3, InitSafe, PTL DEF Spec

\* Three places in a row: n, m and one more.
LEMMA ThreePlaces ==
    ASSUME NEW n \in Nat, NEW m \in Nat, NEW c \in 1 .. (n + m + 1)
    PROVE  c \in 1 .. n \/ (c > n /\ c <= n + m) \/ c = n + m + 1
  OBVIOUS

\* At the end, the commands of both lists and the one that is carried out.
LEMMA CommandPlaces ==
    ASSUME TypeOK, NEW undo \in Seq(Command), undo = undoList, NEW redo \in Seq(Command), redo = redoList,
           NEW c \in DOMAIN Commands
    PROVE  \/ c \in 1 .. Len(undo) /\ Commands[c] = undo[c]
           \/ c - Len(undo) \in 1 .. Len(redo) /\ Commands[c] = redo[c - Len(undo)]
           \/ c = Len(undo) + Len(redo) + 1 /\ Commands[c] = list
<1>1. PICK n \in Nat, m \in Nat : n = Len(undo) /\ m = Len(redo)
  OBVIOUS
<1>2. PICK l \in Command : l = list
  BY DEF TypeOK
<1>3. << l >> \in Seq(Command) /\ Len(<< l >>) = 1 /\ << l >>[1] = l
  OBVIOUS
<1>4. PICK s : s = undo \o redo
  OBVIOUS
<1>5. /\ s \in Seq(Command) /\ Len(s) = n + m
      /\ \A k \in 1 .. n : s[k] = undo[k]
      /\ \A k \in 1 .. (n + m) : k > n => s[k] = redo[k - n]
  BY <1>1, <1>4
<1>6. PICK t \in Seq(Command) : t = << l >> /\ Len(t) = 1 /\ t[1] = l
  BY <1>3
<1>7. PICK r : r = s \o t
  OBVIOUS
<1>8. /\ r \in Seq(Command) /\ Len(r) = n + m + 1 /\ DOMAIN r = 1 .. (n + m + 1)
      /\ \A k \in 1 .. (n + m) : r[k] = s[k]
      /\ r[n + m + 1] = t[1]
  <2>1. r \in Seq(Command) /\ Len(r) = Len(s) + 1 /\ DOMAIN r = 1 .. Len(r)
    BY <1>5, <1>6, <1>7
  <2>2. PICK z \in 1 .. Len(r) : z = Len(s) + 1 /\ z > Len(s) /\ z - Len(s) = 1
    BY <1>5, <2>1
  <2>3. r[z] = t[z - Len(s)]
    BY <1>5, <1>6, <1>7, <2>2
  <2>4. \A k \in 1 .. (n + m) : r[k] = s[k]
    BY <1>5, <1>6, <1>7
  <2> QED  BY <1>5, <2>1, <2>2, <2>3, <2>4
<1>9. Commands = r
  BY <1>2, <1>4, <1>6, <1>7 DEF Commands
<1>10. c \in 1 .. (n + m + 1)
  BY <1>8, <1>9
<1>11. CASE c \in 1 .. n
  <2>1. c \in 1 .. (n + m)
    BY <1>11
  <2> QED  BY <1>1, <1>5, <1>8, <1>9, <1>11, <2>1
<1>12. CASE c > n /\ c <= n + m
  <2>1. c \in 1 .. (n + m) /\ c - n \in 1 .. m
    BY <1>10, <1>12
  <2> QED  BY <1>1, <1>5, <1>8, <1>9, <1>12, <2>1
<1>13. CASE c = n + m + 1
  BY <1>1, <1>2, <1>6, <1>8, <1>9, <1>13
<1>14. c \in 1 .. n \/ (c > n /\ c <= n + m) \/ c = n + m + 1
  BY <1>10, ThreePlaces, Zenon
<1> QED  BY <1>11, <1>12, <1>13, <1>14

\* Of the pickers of one item, one at most is of status DELETED.
LEMMA OwnedOnce ==
    ASSUME TypeOK, BoardSafe, pc = "idle"
    PROVE  \A o \in Object :
              /\ \A x, y \in DeletedPickers(o) : x = y
              /\ DeletedPickers(o) # {} => o \notin board
<1>1. list = << >> /\ Safe(undoList, redoList, board, allocated)
  BY DEF BoardSafe
<1>2. PICK undo \in Seq(Command), redo \in Seq(Command) : undo = undoList /\ redo = redoList
  BY DEF TypeOK
<1>3. PICK U, R : U = PickersOf(undo) /\ R = PickersOf(redo)
  OBVIOUS
<1>4. /\ AllOrdered(undo) /\ AllOrdered(redo) /\ ApartAll(U, R) /\ Placed(U \cup R, board)
  BY <1>1, <1>2, <1>3 DEF Safe, PickersOfBoth
<1>5. PICK n \in Nat, m \in Nat : n = Len(undo) /\ m = Len(redo)
  BY <1>2
<1>6. DOMAIN undo = 1 .. n /\ DOMAIN redo = 1 .. m
  BY <1>2, <1>5
<1> SUFFICES ASSUME NEW o \in Object
             PROVE  /\ \A x, y \in DeletedPickers(o) : x = y
                    /\ DeletedPickers(o) # {} => o \notin board
  OBVIOUS
<1>7. ASSUME NEW x \in DeletedPickers(o)
      PROVE  /\ x = <<x[1], x[2]>> /\ x[1] \in Nat /\ x[2] \in Nat
             /\ \/ /\ x[1] \in 1 .. n /\ x[2] \in DOMAIN undo[x[1]]
                   /\ undo[x[1]][x[2]].item = o /\ undo[x[1]][x[2]].status = "DELETED"
                \/ /\ x[1] - n \in 1 .. m /\ x[2] \in DOMAIN redo[x[1] - n]
                   /\ redo[x[1] - n][x[2]].item = o /\ redo[x[1] - n][x[2]].status = "DELETED"
  <2>1. /\ x \in (DOMAIN Commands) \X (1 .. 3 * MaxLines + Cardinality(Object))
        /\ x[2] \in DOMAIN Commands[x[1]]
        /\ Commands[x[1]][x[2]].item = o /\ Commands[x[1]][x[2]].status = "DELETED"
    BY <1>7 DEF DeletedPickers
  <2>2. x[1] \in DOMAIN Commands /\ x = <<x[1], x[2]>>
    BY <2>1
  <2>3. \/ x[1] \in 1 .. n /\ Commands[x[1]] = undo[x[1]]
        \/ x[1] - n \in 1 .. m /\ Commands[x[1]] = redo[x[1] - n]
        \/ x[1] = n + m + 1 /\ Commands[x[1]] = list
    <3>1. PICK c \in DOMAIN Commands : c = x[1]
      BY <2>2
    <3> QED  BY <1>2, <1>5, <3>1, CommandPlaces
  <2>4. x[1] \in Nat
    <3>1. Commands \in Seq(Command)
      BY DEF Commands, TypeOK
    <3>2. DOMAIN Commands = 1 .. Len(Commands) /\ Len(Commands) \in Nat
      BY <3>1
    <3> QED  BY <2>2, <3>2
  <2>5. x[2] \in Nat
    <3>1. Commands[x[1]] \in Seq(Picker)
      <4>1. Commands \in Seq(Command)
        BY DEF Commands, TypeOK
      <4> QED  BY <2>2, <4>1 DEF Command
    <3>2. PICK q \in Seq(Picker) : q = Commands[x[1]]
      BY <3>1
    <3>3. DOMAIN q = 1 .. Len(q) /\ Len(q) \in Nat
      BY <3>2
    <3> QED  BY <2>1, <3>2, <3>3
  <2>6. list = << >> /\ DOMAIN list = {}
    BY <1>1
  <2> QED  BY <2>1, <2>2, <2>3, <2>4, <2>5, <2>6
<1>8. ASSUME NEW s \in Seq(Command), AllOrdered(s), NEW c \in DOMAIN s, NEW d \in DOMAIN s,
             c \in Nat, d \in Nat, NEW j \in DOMAIN s[c], NEW k \in DOMAIN s[d], j \in Nat, k \in Nat,
             s[c][j].item = o, s[c][j].status = "DELETED", s[d][k].item = o, s[d][k].status = "DELETED"
      PROVE  c = d /\ j = k
  <2>1. ~Follows(s[c][j], s[d][k]) /\ ~Follows(s[d][k], s[c][j])
    BY <1>8 DEF Follows
  <2>2. s[c][j] \in ToSet(s[c]) /\ s[d][k] \in ToSet(s[d])
    BY DEF ToSet
  <2>3. ~(c < d) /\ ~(d < c)
    BY <1>8, <2>1, <2>2 DEF AllOrdered, FollowAll
  <2>4. c = d
    BY <1>8, <2>3
  <2>5. Ordered(s[c])
    BY <1>8 DEF AllOrdered
  <2>6. ~(j < k) /\ ~(k < j)
    BY <2>1, <2>4, <2>5 DEF Ordered
  <2> QED  BY <1>8, <2>4, <2>6
<1>9. ASSUME NEW s \in Seq(Command), NEW c \in DOMAIN s, NEW j \in DOMAIN s[c]
      PROVE  s[c][j] \in PickersOf(s)
  BY DEF PickersOf, ToSet
<1>10. ASSUME NEW x \in DeletedPickers(o), NEW y \in DeletedPickers(o)  PROVE x = y
  <2>1. PICK c \in Nat, j \in Nat : x = <<c, j>> /\ c = x[1] /\ j = x[2]
    BY <1>7
  <2>2. PICK d \in Nat, k \in Nat : y = <<d, k>> /\ d = y[1] /\ k = y[2]
    BY <1>7
  <2>3. \/ c \in 1 .. n /\ j \in DOMAIN undo[c] /\ undo[c][j].item = o /\ undo[c][j].status = "DELETED"
        \/ /\ c - n \in 1 .. m /\ j \in DOMAIN redo[c - n]
           /\ redo[c - n][j].item = o /\ redo[c - n][j].status = "DELETED"
    BY <1>7, <2>1
  <2>4. \/ d \in 1 .. n /\ k \in DOMAIN undo[d] /\ undo[d][k].item = o /\ undo[d][k].status = "DELETED"
        \/ /\ d - n \in 1 .. m /\ k \in DOMAIN redo[d - n]
           /\ redo[d - n][k].item = o /\ redo[d - n][k].status = "DELETED"
    BY <1>7, <2>2
  <2>5. CASE c \in 1 .. n /\ d \in 1 .. n
    <3>1. ~(c - n \in 1 .. m) /\ ~(d - n \in 1 .. m)
      BY <2>5
    <3>2. /\ c \in DOMAIN undo /\ d \in DOMAIN undo
          /\ j \in DOMAIN undo[c] /\ undo[c][j].item = o /\ undo[c][j].status = "DELETED"
          /\ k \in DOMAIN undo[d] /\ undo[d][k].item = o /\ undo[d][k].status = "DELETED"
      BY <1>6, <2>3, <2>4, <2>5, <3>1
    <3>3. c = d /\ j = k
      BY <1>4, <1>8, <3>2
    <3> QED  BY <2>1, <2>2, <3>3
  <2>6. CASE c \notin 1 .. n /\ d \notin 1 .. n
    <3>1. PICK a \in 1 .. m, b \in 1 .. m : a = c - n /\ b = d - n
      BY <2>3, <2>4, <2>6
    <3>2. /\ j \in DOMAIN redo[a] /\ redo[a][j].item = o /\ redo[a][j].status = "DELETED"
          /\ k \in DOMAIN redo[b] /\ redo[b][k].item = o /\ redo[b][k].status = "DELETED"
      BY <2>3, <2>4, <2>6, <3>1
    <3>3. a \in DOMAIN redo /\ b \in DOMAIN redo /\ a \in Nat /\ b \in Nat
      BY <1>6, <3>1
    <3>4. a = b /\ j = k
      BY <1>4, <1>8, <3>2, <3>3
    <3>5. c = d
      BY <3>1, <3>4
    <3> QED  BY <2>1, <2>2, <3>4, <3>5
  <2>7. CASE c \in 1 .. n /\ d \notin 1 .. n
    <3>1. PICK b \in 1 .. m : b = d - n
      BY <2>4, <2>7
    <3>2. ~(c - n \in 1 .. m)
      BY <2>7
    <3>3. undo[c][j] \in U /\ redo[b][k] \in R
      BY <1>2, <1>3, <1>6, <1>9, <2>3, <2>4, <2>7, <3>1, <3>2
    <3>4. Apart(undo[c][j], redo[b][k])
      BY <1>4, <3>3 DEF ApartAll
    <3> QED  BY <2>3, <2>4, <2>7, <3>1, <3>2, <3>4 DEF Apart
  <2>8. CASE c \notin 1 .. n /\ d \in 1 .. n
    <3>1. PICK b \in 1 .. m : b = c - n
      BY <2>3, <2>8
    <3>2. ~(d - n \in 1 .. m)
      BY <2>8
    <3>3. undo[d][k] \in U /\ redo[b][j] \in R
      BY <1>2, <1>3, <1>6, <1>9, <2>3, <2>4, <2>8, <3>1, <3>2
    <3>4. Apart(undo[d][k], redo[b][j])
      BY <1>4, <3>3 DEF ApartAll
    <3> QED  BY <2>3, <2>4, <2>8, <3>1, <3>2, <3>4 DEF Apart
  <2> QED  BY <2>5, <2>6, <2>7, <2>8
<1>11. ASSUME NEW x \in DeletedPickers(o)  PROVE o \notin board
  <2>1. PICK c, j : c = x[1] /\ j = x[2]
    OBVIOUS
  <2>2. \E q \in U \cup R : q.item = o /\ q.status = "DELETED"
    <3>1. CASE c \in 1 .. n /\ j \in DOMAIN undo[c] /\ undo[c][j].item = o /\ undo[c][j].status = "DELETED"
      BY <1>2, <1>3, <1>6, <1>9, <3>1
    <3>2. CASE /\ c - n \in 1 .. m /\ j \in DOMAIN redo[c - n]
               /\ redo[c - n][j].item = o /\ redo[c - n][j].status = "DELETED"
      BY <1>2, <1>3, <1>6, <1>9, <3>2
    <3> QED  BY <1>7, <2>1, <3>1, <3>2
  <2> QED  BY <1>4, <2>2 DEF Placed
<1> QED  BY <1>10, <1>11

\* What the invariant says at the end of an operation, and about each picker.
LEMMA SafeProperties ==
    ASSUME TypeOK, BoardSafe
    PROVE  ViewMatchesBoard /\ ConnectivityMatchesBoard /\ HistoryItemsExist /\ DeletedItemsOwnedOnce
<1>1. ViewMatchesBoard /\ ConnectivityMatchesBoard
  BY DEF BoardSafe, ViewMatchesBoard, ConnectivityMatchesBoard
<1>2. HistoryItemsExist
  <2> SUFFICES ASSUME pc = "put", idx \in 1 .. Len(list)  PROVE Exists(list[idx])
    BY DEF HistoryItemsExist
  <2>1. IF list[idx].status = "DELETED" THEN list[idx].item \notin board ELSE list[idx].item \in board
    BY PickerPlaced
  <2> QED  BY <2>1 DEF Exists
<1>3. DeletedItemsOwnedOnce
  <2> SUFFICES ASSUME pc = "idle", NEW o \in Object
               PROVE  /\ Cardinality(DeletedPickers(o)) <= 1
                      /\ DeletedPickers(o) # {} => o \notin board
    BY DEF DeletedItemsOwnedOnce
  <2>1. (\A x, y \in DeletedPickers(o) : x = y) /\ (DeletedPickers(o) # {} => o \notin board)
    BY OwnedOnce
  <2>2. PICK T : T = DeletedPickers(o)
    OBVIOUS
  <2>3. Cardinality(T) <= 1
    BY <2>1, <2>2, AtMostOne
  <2> QED  BY <2>1, <2>2, <2>3
<1> QED  BY <1>1, <1>2, <1>3

\* A command is what is still to be put back and what has been.
LEMMA PartsOfCommand ==
    ASSUME NEW D, NEW s \in Seq(D), NEW k \in 0 .. Len(s)
    PROVE  /\ Todo(s, k) \in Seq(D) /\ Done(s, k) \in Seq(D)
           /\ ToSet(s) = ToSet(Todo(s, k)) \cup ToSet(Done(s, k))
<1>1. PICK n \in Nat : n = Len(s)
  OBVIOUS
<1>2. k \in Nat /\ k <= n
  BY <1>1
<1>3. PICK a, d : a = SubSeq(s, 1, k) /\ d = SubSeq(s, k + 1, n)
  OBVIOUS
<1>4. a \in Seq(D) /\ DOMAIN a = 1 .. k /\ \A j \in 1 .. k : a[j] = s[j]
  <2>1. 1 \in 1 .. (Len(s) + 1) /\ k \in 0 .. Len(s) /\ 1 <= k + 1
    BY <1>1, <1>2
  <2>2. /\ SubSeq(s, 1, k) \in Seq(D) /\ DOMAIN SubSeq(s, 1, k) = 1 .. (k - 1 + 1)
        /\ \A j \in 1 .. (k - 1 + 1) : SubSeq(s, 1, k)[j] = s[1 + j - 1]
    BY <2>1, PartAt
  <2>3. k - 1 + 1 = k /\ \A j \in 1 .. k : 1 + j - 1 = j
    BY <1>2
  <2> QED  BY <1>3, <2>2, <2>3
<1>5. d \in Seq(D) /\ DOMAIN d = 1 .. (n - k) /\ \A j \in 1 .. (n - k) : d[j] = s[k + j]
  <2>1. k + 1 \in 1 .. (Len(s) + 1) /\ n \in 0 .. Len(s) /\ k + 1 <= n + 1
    BY <1>1, <1>2
  <2>2. /\ SubSeq(s, k + 1, n) \in Seq(D) /\ DOMAIN SubSeq(s, k + 1, n) = 1 .. (n - (k + 1) + 1)
        /\ \A j \in 1 .. (n - (k + 1) + 1) : SubSeq(s, k + 1, n)[j] = s[(k + 1) + j - 1]
    BY <2>1, PartAt
  <2>3. n - (k + 1) + 1 = n - k /\ \A j \in 1 .. (n - k) : (k + 1) + j - 1 = k + j
    BY <1>2
  <2> QED  BY <1>3, <2>2, <2>3
<1>6. DOMAIN s = 1 .. n
  BY <1>1
<1>7. /\ \A j \in 1 .. n : j \in 1 .. k \/ (j - k \in 1 .. (n - k) /\ k + (j - k) = j)
      /\ \A j \in 1 .. k : j \in 1 .. n
      /\ \A j \in 1 .. (n - k) : k + j \in 1 .. n
  BY <1>2
<1>8. ToSet(s) \subseteq ToSet(a) \cup ToSet(d)
  <2> SUFFICES ASSUME NEW j \in 1 .. n  PROVE s[j] \in ToSet(a) \cup ToSet(d)
    BY <1>6 DEF ToSet
  <2>1. CASE j \in 1 .. k
    BY <1>4, <2>1 DEF ToSet
  <2>2. CASE j - k \in 1 .. (n - k) /\ k + (j - k) = j
    BY <1>5, <2>2 DEF ToSet
  <2> QED  BY <1>7, <2>1, <2>2
<1>9. ToSet(a) \cup ToSet(d) \subseteq ToSet(s)
  <2>1. ToSet(a) \subseteq ToSet(s)
    BY <1>4, <1>6, <1>7 DEF ToSet
  <2>2. ASSUME NEW j \in 1 .. (n - k)  PROVE d[j] \in ToSet(s)
    <3>1. PICK i \in 1 .. n : i = k + j
      BY <1>7
    <3>2. d[j] = s[i]
      BY <1>5, <3>1
    <3> QED  BY <1>6, <3>2 DEF ToSet
  <2>3. ToSet(d) \subseteq ToSet(s)
    BY <1>5, <2>2 DEF ToSet
  <2> QED  BY <2>1, <2>3
<1>10. Reverse(d) \in Seq(D) /\ ToSet(Reverse(d)) = ToSet(d)
  BY <1>5, ReverseAt
<1> QED  BY <1>1, <1>3, <1>4, <1>8, <1>9, <1>10 DEF Todo, Done

\* Whatever is referred to, but for what groups refer to, has not been freed.
LEMMA Allocated ==
    ASSUME TypeOK, BoardSafe
    PROVE  /\ board \cup view \cup connectivity \cup commit.items \subseteq allocated
           /\ Known \subseteq allocated /\ ItemsOf(ToSet(list)) \subseteq allocated
<1>1. connectivity \subseteq board
  BY DEF BoardSafe
<1>2. CASE pc = "idle"
  <2>1. /\ view = board \cap Leaf /\ commit.items = {} /\ list = << >>
        /\ Safe(undoList, redoList, board, allocated)
    BY <1>2 DEF BoardSafe, EmptyCommit
  <2>2. ItemsOf(ToSet(list)) = {}
    BY <2>1, NoPickers DEF ItemsOf
  <2> QED  BY <1>1, <2>1, <2>2 DEF Safe, Known
<1>3. CASE pc = "put"
  <2>1. /\ view = board \cap Leaf /\ commit.items = {}
    BY <1>3, Putting DEF EmptyCommit
  <2>2. PICK s \in Seq(Picker) : s = list
    BY <1>3, Putting DEF Command
  <2>3. PICK k \in 0 .. Len(s) : k = idx
    BY <1>3, <2>2, Putting
  <2>4. PICK todo \in Command, done \in Command : todo = Todo(s, k) /\ done = Done(s, k)
    BY PartsOfCommand DEF Command
  <2>5. PICK near \in Seq(Command), far \in Seq(Command) : near = Near /\ far = Far
    BY <1>3, Putting
  <2>6. Safe(Append(near, todo), Append(far, done), board, allocated)
    BY <1>3, <2>2, <2>3, <2>4, <2>5, Putting
  <2>7. /\ PickersOf(Append(near, todo)) = PickersOf(near) \cup ToSet(todo)
        /\ PickersOf(Append(far, done)) = PickersOf(far) \cup ToSet(done)
    BY CommandAdded
  <2>8. ToSet(list) = ToSet(todo) \cup ToSet(done)
    BY <2>2, <2>4, PartsOfCommand
  <2>9. PickersOfBoth(undoList, redoList) = PickersOf(near) \cup PickersOf(far)
    BY <2>5 DEF Near, Far, PickersOfBoth
  <2>10. ItemsOf(PickersOfBoth(undoList, redoList) \cup ToSet(list)) \subseteq allocated
         /\ board \subseteq allocated
    BY <2>6, <2>7, <2>8, <2>9 DEF Safe, PickersOfBoth, ItemsOf
  <2>11. Known \subseteq allocated /\ ItemsOf(ToSet(list)) \subseteq allocated
    BY <2>10 DEF Known, ItemsOf
  <2> QED  BY <1>1, <2>1, <2>10, <2>11
<1>4. CASE pc \notin {"idle", "put"}
  <2>1. CommitSafe
    BY <1>4 DEF BoardSafe
  <2>2. PICK lines \in Seq(CommitLine) : lines = commit.lines
    BY DEF TypeOK
  <2>3. PICK S, K, P, known, mem :
           /\ S = Start /\ K = Carrying(lines, pc, idx) /\ P = Seen(lines, pc, idx)
           /\ known = Known /\ mem = allocated
    OBVIOUS
  <2>4. CommitOK(commit, S, K, P, board, view, known, mem) /\ Safe(undoList, redoList, S, mem)
    BY <2>1, <2>2, <2>3 DEF CommitSafe
  <2>5. K \subseteq DOMAIN lines /\ P \subseteq DOMAIN lines
    BY <2>3 DEF Carrying, Seen, DoneLines
  <2>6. /\ LinesOK(lines, S, known, mem) /\ commit.items = ItemsIn(lines)
        /\ board = Carried(lines, S, K) /\ view = Carried(lines, S, P) \cap Leaf
    BY <2>2, <2>4 DEF CommitOK
  <2>7. commit.items \subseteq mem /\ \A j \in DOMAIN lines : lines[j].item \in mem
    BY <2>6 DEF LinesOK, LineOK, ItemsIn
  <2>8. S \subseteq mem /\ known \subseteq mem
    BY <2>3, <2>4 DEF Safe, Known
  <2>9. Adds(lines, K) \subseteq mem /\ Adds(lines, P) \subseteq mem
    BY <2>5, <2>7 DEF Adds
  <2>10. board \subseteq mem /\ view \subseteq mem
    BY <2>6, <2>8, <2>9 DEF Carried
  <2>11. ItemsOf(ToSet(list)) \subseteq mem
    <3>1. CASE list = << >>
      BY <3>1, NoPickers DEF ItemsOf
    <3>2. CASE list # << >>
      <4>1. pc \in Pushing /\ mode # "skip" /\ CommitPlace
        BY <1>4, <2>1, <3>2 DEF CommitSafe, CommitPlace, Pushing, TypeOK
      <4>2. idx \in 1 .. (Len(lines) + 1) /\ Listed(list, lines, idx)
        BY <2>2, <4>1 DEF CommitPlace
      <4>3. DOMAIN list = 1 .. Len(list) /\ Len(list) = idx - 1
        <5>1. list \in Seq(Picker)
          BY DEF TypeOK, Command
        <5> QED  BY <4>2, <5>1 DEF Listed
      <4>4. \A j \in 1 .. (idx - 1) : j \in DOMAIN lines
        BY <2>2, <4>2
      <4>5. \A j \in DOMAIN list : list[j].item \in mem
        BY <2>7, <4>2, <4>3, <4>4 DEF Listed
      <4> QED  BY <4>5 DEF ItemsOf, ToSet
    <3> QED  BY <3>1, <3>2
  <2> QED  BY <1>1, <2>3, <2>7, <2>8, <2>10, <2>11
<1> QED  BY <1>2, <1>3, <1>4

\* Without groups, all that is referred to is in the lists, the commit or the board.
LEMMA NothingDangles ==
    ASSUME TypeOK, BoardSafe, Group = {}
    PROVE  NoDanglingReference
<1>1. PICK undo \in Seq(Command), redo \in Seq(Command), cmd \in Command :
         undo = undoList /\ redo = redoList /\ cmd = list
  BY DEF TypeOK
<1>2. ASSUME NEW p \in Pickers
      PROVE  p \in Picker /\ p \in PickersOfBoth(undo, redo) \cup ToSet(cmd)
  <2>1. PICK c \in DOMAIN Commands : p \in ToSet(Commands[c])
    BY DEF Pickers, ToSet
  <2>2. PICK q \in Command : q = Commands[c]
    <3>1. Commands \in Seq(Command)
      BY DEF Commands, TypeOK
    <3> QED  BY <3>1
  <2>3. p \in Picker
    BY <2>1, <2>2 DEF Command, ToSet
  <2>4. \/ c \in DOMAIN undo /\ q = undo[c]
        \/ c - Len(undo) \in DOMAIN redo /\ q = redo[c - Len(undo)]
        \/ q = cmd
    BY <1>1, <2>2, CommandPlaces
  <2> QED  BY <2>1, <2>2, <2>3, <2>4 DEF PickersOf, PickersOfBoth
<1>3. PICK mem, O : /\ mem = allocated
                    /\ O = board \cup view \cup connectivity \cup commit.items
                           \cup (({enteredGroup}) \ {None}) \cup {p.item : p \in Pickers}
  OBVIOUS
<1>4. O \subseteq mem
  <2>1. /\ board \cup view \cup connectivity \cup commit.items \subseteq mem
        /\ ItemsOf(PickersOfBoth(undo, redo)) \subseteq mem /\ ItemsOf(ToSet(cmd)) \subseteq mem
    BY <1>1, <1>3, Allocated DEF Known
  <2>2. {p.item : p \in Pickers} \subseteq mem
    BY <1>2, <2>1 DEF ItemsOf
  <2>3. enteredGroup = None
    BY DEF TypeOK
  <2> QED  BY <1>3, <2>1, <2>2, <2>3
<1>5. \A image \in {p.link : p \in Pickers} \cup {line.copy : line \in ToSet(commit.lines)} : image.items = {}
  <2>1. \A image \in Image : image.items = {}
    BY DEF Image
  <2>2. \A p \in Pickers : p.link \in Image
    BY <1>2 DEF Picker
  <2>3. \A line \in ToSet(commit.lines) : line.copy \in Image
    <3>1. commit.lines \in Seq(CommitLine)
      BY DEF TypeOK
    <3>2. ToSet(commit.lines) \subseteq CommitLine
      BY <3>1 DEF ToSet
    <3> QED  BY <3>2 DEF CommitLine
  <2> QED  BY <2>1, <2>2, <2>3
<1>6. \A i \in O \cap Leaf : parent[i] = None
  BY DEF TypeOK
<1>7. /\ UNION {members[g] : g \in O \cap Group} = {}
      /\ UNION {image.items : image \in {p.link : p \in Pickers} \cup {line.copy : line \in ToSet(commit.lines)}} = {}
      /\ (({parent[i] : i \in O \cap Leaf}) \ {None}) = {}
  BY <1>5, <1>6
<1> QED  BY <1>3, <1>4, <1>7 DEF NoDanglingReference

------------------------------------------------------------------------------
(* What a user can rely on.                                                *)

\* Whatever was pushed, reverted, undone or redone, the view shows the board's leaves
\* and no others: BOARD_COMMIT::Push(), Revert() and PutDataInPreviousState().
THEOREM ViewFollowsBoard ==
    ASSUME PlainTools  PROVE Spec /\ []GroupsEditable => []ViewMatchesBoard
<1>1. TypeOK /\ BoardSafe => ViewMatchesBoard
  BY SafeProperties
<1> QED  BY <1>1, TypeCorrect, HistoryFitsBoard, PTL

\* ... and the connectivity has its tracks, pads, zones and teardrops and no others.
THEOREM ConnectivityFollowsBoard ==
    ASSUME PlainTools  PROVE Spec /\ []GroupsEditable => []ConnectivityMatchesBoard
<1>1. TypeOK /\ BoardSafe => ConnectivityMatchesBoard
  BY SafeProperties
<1> QED  BY <1>1, TypeCorrect, HistoryFitsBoard, PTL

\* PutDataInPreviousState() finds the item of every picker that is to be swapped or
\* removed: the assertion of undo_redo.cpp:306 is never met.
THEOREM HistoryItemsPresent ==
    ASSUME PlainTools  PROVE Spec /\ []GroupsEditable => []HistoryItemsExist
<1>1. TypeOK /\ BoardSafe => HistoryItemsExist
  BY SafeProperties
<1> QED  BY <1>1, TypeCorrect, HistoryFitsBoard, PTL

\* ClearListAndDeleteItems() frees no object twice, and none of the board.
THEOREM OneOwner ==
    ASSUME PlainTools  PROVE Spec /\ []GroupsEditable => []DeletedItemsOwnedOnce
<1>1. TypeOK /\ BoardSafe => DeletedItemsOwnedOnce
  BY SafeProperties
<1> QED  BY <1>1, TypeCorrect, HistoryFitsBoard, PTL

\* On a board without groups nothing has to be assumed about them.
THEOREM BoardWithoutGroups ==
    ASSUME PlainTools, Group = {}
    PROVE  Spec => [](/\ ViewMatchesBoard /\ ConnectivityMatchesBoard
                      /\ HistoryItemsExist /\ DeletedItemsOwnedOnce)
<1>1. GroupsEditable
  BY DEF GroupsEditable
<1>2. TypeOK /\ BoardSafe => ViewMatchesBoard /\ ConnectivityMatchesBoard /\ HistoryItemsExist
      /\ DeletedItemsOwnedOnce
  BY SafeProperties
<1> QED  BY <1>1, <1>2, TypeCorrect, HistoryFitsBoard, PTL

\* ... and nothing that has been freed is referred to by the board, the view, the
\* connectivity, the commit, a picker or its copy.
THEOREM NoUseAfterFree ==
    ASSUME PlainTools, Group = {}  PROVE Spec => []NoDanglingReference
<1>1. GroupsEditable
  BY DEF GroupsEditable
<1>2. TypeOK /\ BoardSafe => NoDanglingReference
  BY NothingDangles
<1> QED  BY <1>1, <1>2, TypeCorrect, HistoryFitsBoard, PTL

==============================================================================
