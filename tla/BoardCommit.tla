------------------------------ MODULE BoardCommit ------------------------------
(***************************************************************************)
(* Editing a board: the COMMIT a tool stages its changes in, BOARD_COMMIT, *)
(* which carries them out and records them (or reverts them), and the undo *)
(* and redo lists of the board editor's frame.                             *)
(*                                                                         *)
(* Source: common/commit.cpp, pcbnew/board_commit.cpp,                     *)
(* pcbnew/undo_redo.cpp, common/undo_redo_container.cpp,                   *)
(* common/eda_base_frame.cpp, pcbnew/pcb_group.cpp, BOARD::Add and         *)
(* BOARD::Remove, BOARD_ITEM::SwapItemData, and the tools that drive them. *)
(*                                                                         *)
(* All of it runs in the user-interface thread.  An operation of the user  *)
(* begins when `pc' is "idle"; the loops of Push(), Revert() and           *)
(* PutDataInPreviousState() take one step per line or picker, so that the  *)
(* state between two iterations can be looked at.                          *)
(***************************************************************************)
EXTENDS Integers, Sequences, FiniteSets, SequencesExt

CONSTANTS
    Item,         \* tracks, vias, footprints, zones, drawings
    Teardrop,     \* zones that are teardrop areas
    Marker,       \* DRC markers
    Group,        \* PCB_GROUPs
    Value,        \* what an item's own data can be (position, net, layer ...)
    None,         \* nullptr, or no data
    InitBoard,    \* what is on the board when it has been loaded
    InitMembers,  \* the members of the groups of the loaded board
    MaxUndo,      \* m_undoRedoCountMax, 0: no limit
    MaxLines,     \* bound: number of lines a tool stages in one commit
    MaxPickers,   \* bound: length of a command that APPEND_UNDO makes longer
    Tools         \* the tools and flags the user has at hand

Leaf == Item \cup Teardrop \cup Marker
Object == Leaf \cup Group

\* What CN_CONNECTIVITY_ALGO::Add() and Remove() do not ignore.
Connectable == Item \cup Teardrop

\* Every name a set of Tools can hold.
AllTools ==
    {"modify", "modify_group", "add", "add_placed", "remove", "delete",
     "delete_group", "remove_from_group", "group", "regroup", "ungroup",
     "enter", "cleanup", "cleanup_modified", "drc", "append", "rollback",
     "teardrops", "remove_teardrops", "remove_markers", "nets"}

ASSUME KindsAssumption ==
    /\ Item \cap Teardrop = {} /\ Item \cap Marker = {} /\ Item \cap Group = {}
    /\ Teardrop \cap Marker = {} /\ Teardrop \cap Group = {} /\ Marker \cap Group = {}
    /\ None \notin Object \cup Value
    /\ IsFiniteSet(Object)
ASSUME InitAssumption ==
    /\ InitBoard \subseteq Object
    /\ InitMembers \in [Group -> SUBSET (InitBoard \cap (Item \cup Teardrop))]
    /\ \A g \in Group : g \notin InitBoard => InitMembers[g] = {}
    /\ \A g, h \in Group : g # h => InitMembers[g] \cap InitMembers[h] = {}
    /\ Value # {}
ASSUME BoundsAssumption ==
    /\ MaxUndo \in Nat
    /\ MaxLines \in Nat
    /\ MaxPickers \in Nat
    /\ Tools \subseteq AllTools

VARIABLES
    board,         \* the objects in the board's containers
    view,          \* the leaves whose m_viewPrivData->m_view is the view
    connectivity,  \* the items of m_connectivity
    allocated,     \* the objects that have been created and not been freed
    data,          \* the own data of each leaf
    members,       \* PCB_GROUP::m_items
    parent,        \* BOARD_ITEM::m_group
    structDeleted, \* the objects that have the STRUCT_DELETED flag
    enteredGroup,  \* PCB_SELECTION_TOOL::m_enteredGroup
    commit,        \* m_changes and m_changedItems of the commit that is open
    undoList,      \* m_undoList.m_CommandsList, oldest command first
    redoList,      \* m_redoList.m_CommandsList
    pc,            \* where the user-interface thread is
    idx,           \* the loop counter of Push(), Revert(), PutDataInPreviousState()
    list,          \* undoList of Push(), aList of PutDataInPreviousState()
    lastGroup,     \* the local `group' of PutDataInPreviousState()
    mode,          \* what the operation under way ends with
    base, past, future, last  \* history variables: see "The document" below

modelVars == <<board, view, connectivity, data, members, parent, structDeleted>>
loopVars == <<pc, idx, list, lastGroup, mode>>
historyVars == <<base, past, future, last>>
vars == <<board, view, connectivity, allocated, data, members, parent, structDeleted,
          enteredGroup, commit, undoList, redoList, pc, idx, list, lastGroup,
          mode, base, past, future, last>>

------------------------------------------------------------------------------
(* Types                                                                   *)

\* The copy of an object: a clone without a parent group.  Only a group has members.
Image == [data : Value \cup {None}, items : IF Group = {} THEN {{}} ELSE SUBSET Leaf]
NoImage == [data |-> None, items |-> {}]

\* COMMIT_LINE, without m_parent (no footprint children) and m_screen.
CommitLine == [item : Object, type : {"ADD", "REMOVE", "MODIFY"},
               done : BOOLEAN, copy : Image]

\* ITEM_PICKER, without the screen.  Only leaves are in groups.
Status == {"NEWITEM", "DELETED", "CHANGED", "REGROUP", "UNGROUP"}
Picker == {p \in [item : Object, link : Image, status : Status] :
              p.status \in {"REGROUP", "UNGROUP"} => p.item \in Leaf}
Command == Seq(Picker)

\* A document as the user sees it.
Snapshot == [board : SUBSET Object, data : [Leaf -> Value \cup {None}],
             items : [Group -> SUBSET Leaf], parent : [Leaf -> Group \cup {None}]]

TypeOK ==
    /\ board \subseteq Object
    /\ view \subseteq Leaf
    /\ connectivity \subseteq Connectable
    /\ allocated \subseteq Object
    /\ data \in [Leaf -> Value \cup {None}]
    /\ members \in [Group -> SUBSET Leaf]
    /\ parent \in [Leaf -> Group \cup {None}]
    /\ structDeleted \subseteq Object
    /\ enteredGroup \in Group \cup {None}
    /\ commit \in [lines : Seq(CommitLine), items : SUBSET Object]
    /\ undoList \in Seq(Command)
    /\ redoList \in Seq(Command)
    /\ pc \in {"idle", "staging", "committing", "stale", "lines", "propagate",
               "update", "late", "revert", "put"}
    /\ idx \in Nat
    /\ list \in Command
    /\ lastGroup \in Group \cup {None}
    /\ mode \in {"none", "push", "append", "skip", "undo", "redo", "rollback"}
    /\ base \in Snapshot
    /\ past \in Seq(Snapshot)
    /\ future \in Seq(Snapshot)
    /\ last \in {"none", "edit", "amend", "undo", "redo", "rollback"}

------------------------------------------------------------------------------
(* The document.  `base' is the document when the operation under way      *)
(* began, `past' and `future' the ones the undo and redo commands lead to. *)

Document ==
    [board  |-> board,
     data   |-> [i \in Leaf |-> IF i \in board THEN data[i] ELSE None],
     items  |-> [g \in Group |-> IF g \in board THEN members[g] ELSE {}],
     parent |-> [i \in Leaf |-> IF i \in board THEN parent[i] ELSE None]]

present == IF pc = "idle" THEN Document ELSE base

History == INSTANCE UndoHistory WITH Document <- Snapshot

NewestAndOneMore(cmds) ==                             \* mutant: off by one
    IF Len(cmds) > MaxUndo THEN SubSeq(cmds, Len(cmds) - MaxUndo, Len(cmds)) ELSE cmds
Newest(cmds) == History!Newest(cmds)

\* The commands that Newest() drops.
Oldest(cmds) == SubSeq(cmds, 1, Len(cmds) - Len(Newest(cmds)))

------------------------------------------------------------------------------
(* Memory.  PICKED_ITEMS_LIST::ClearListAndDeleteItems() frees the links   *)
(* and the items whose status is DELETED.                                  *)

DeletedItems(cmd) == {p.item : p \in {q \in ToSet(cmd) : q.status = "DELETED"}}

ItemsOwnedBy(cmds) == UNION {DeletedItems(cmd) : cmd \in ToSet(cmds)}

------------------------------------------------------------------------------
(* COMMIT::Stage() and BOARD_COMMIT::Stage()                               *)

EmptyCommit == [lines |-> << >>, items |-> {}]

ImageOf(o) ==
    IF o \in Group THEN [data |-> None, items |-> members[o]]
                   ELSE [data |-> data[o], items |-> {}]

Line(o, type, done) ==
    [item |-> o, type |-> type, done |-> done,
     copy |-> IF type = "MODIFY" THEN ImageOf(o) ELSE NoImage]

MakeEntry(c, o, type, done) ==
    [lines |-> Append(c.lines, Line(o, type, done)), items |-> c.items \cup {o}]

\* What the tool has done already, and only announces: CHT_DONE.
Added(c, o) == MakeEntry(c, o, "ADD", TRUE)
RemovedUnstaged(c, o) == c                            \* mutant: nothing is announced
Removed(c, o) == MakeEntry(c, o, "REMOVE", TRUE)

\* Mutant: only the first change is given an image.
StageModifyFirst(c, o) == IF c.items # {} THEN c ELSE MakeEntry(c, o, "MODIFY", FALSE)
\* CHT_MODIFY: an item that is staged already is not staged again.
StageModify(c, o) ==
    IF o \in c.items THEN c ELSE MakeEntry(c, o, "MODIFY", FALSE)

\* CHT_MODIFY of a group stages its children first.  `children' lists those
\* that are not staged yet, in the order of the hash set they are kept in.
ChildOrders(c, g) == SetToSeqs(members[g] \ c.items)
StageModifyGroup(c, g, children) ==
    StageModify([lines |-> c.lines \o [k \in 1 .. Len(children) |->
                                          Line(children[k], "MODIFY", FALSE)],
                 items |-> c.items \cup ToSet(children)], g)

RemoveLines(objects) ==
    [k \in 1 .. Len(objects) |-> Line(objects[k], "REMOVE", FALSE)]

IsStaged(o, type) ==
    \E k \in 1 .. Len(commit.lines) :
        commit.lines[k].item = o /\ commit.lines[k].type = type

------------------------------------------------------------------------------
(* PCB_GROUP, as functions of the membership                               *)

\* AddItem() takes the item out of the group it was in.
GroupAdd(m, p, g, i) ==
    [h \in Group |-> IF h = g THEN m[h] \cup {i}
                     ELSE IF h = p[i] THEN m[h] \ {i} ELSE m[h]]

\* RemoveItem() clears the parent only if the item was a member.
GroupRemoveParentOnly(m, p, i) == m                   \* mutant: it stays in m_items
GroupRemoveMembers(m, p, i) ==
    [h \in Group |-> IF h = p[i] THEN m[h] \ {i} ELSE m[h]]
GroupRemoveParent(m, p, i) ==
    IF p[i] # None /\ i \in m[p[i]] THEN [p EXCEPT ![i] = None] ELSE p

\* Leave the parent group, as BOARD::Remove() and BOARD_COMMIT::Push() do it:
\* nothing is done if the group has the STRUCT_DELETED flag.
LeavesGroup(o) == o \in Leaf /\ parent[o] # None /\ parent[o] \notin structDeleted
LeaveGroup(o) ==
    /\ members' = IF LeavesGroup(o) THEN GroupRemoveMembers(members, parent, o)
                                    ELSE members
    /\ parent' = IF LeavesGroup(o) THEN GroupRemoveParent(members, parent, o)
                                   ELSE parent

------------------------------------------------------------------------------
(* The undo and redo lists                                                 *)

\* AppendCopyToUndoList(): the pickers are added to the newest command.
JoinedInFront(cmd, more) == more \o cmd               \* mutant: the wrong end
Joined(cmd, more) == cmd \o more

\* Mutant: the redo list is not cleared.
SaveAndKeepRedoList(kept, cmd, objects) ==
    LET cmds == Append(kept, cmd)
    IN  /\ undoList' = Newest(cmds)
        /\ allocated' = objects \ ItemsOwnedBy(Oldest(cmds))
        /\ UNCHANGED redoList

\* saveCopyInUndoList(): `kept' are the commands below the one that is pushed.
\* The commands over the limit and all the redo commands are freed.  The links
\* of the pickers are all set by the callers.
SaveInUndoList(kept, cmd, objects) ==
    LET cmds == Append(kept, cmd)
    IN  /\ undoList' = Newest(cmds)
        /\ redoList' = << >>
        /\ allocated' = objects \ (ItemsOwnedBy(Oldest(cmds)) \cup ItemsOwnedBy(redoList))

\* The history variables after a command that began in the document `doc'.
RecordCommand(doc) ==
    /\ past' = Newest(Append(past, doc))
    /\ future' = << >>
    /\ last' = "edit"

NewPicker(o, status, link) == [item |-> o, status |-> status, link |-> link]

\* Mutant: the status of a modified item is not set.
StatusUnset(type) == IF type = "ADD" THEN "NEWITEM" ELSE "UNSPECIFIED"
StatusOfType(type) ==
    CASE type = "ADD" -> "NEWITEM" [] type = "REMOVE" -> "DELETED"
      [] type = "MODIFY" -> "CHANGED"

------------------------------------------------------------------------------
Init ==
    /\ board = InitBoard
    /\ view = InitBoard \cap Leaf
    /\ connectivity = InitBoard \cap Connectable
    /\ allocated = InitBoard
    /\ \E v \in Value : data = [i \in Leaf |-> IF i \in InitBoard THEN v ELSE None]
    /\ members = InitMembers
    /\ parent \in [Leaf -> Group \cup {None}]
    /\ \A i \in Leaf, g \in Group : parent[i] = g <=> i \in members[g]
    /\ structDeleted = {}
    /\ enteredGroup = None
    /\ commit = EmptyCommit
    /\ undoList = << >>
    /\ redoList = << >>
    /\ pc = "idle"
    /\ idx = 0
    /\ list = << >>
    /\ lastGroup = None
    /\ mode = "none"
    /\ base = Document
    /\ past = << >>
    /\ future = << >>
    /\ last = "none"

------------------------------------------------------------------------------
(* Staging.  A tool stages changes, and changes the items it has staged as *)
(* modified; then it pushes or reverts ("staging") or pushes in any case   *)
(* ("committing").                                                         *)

\* The tool goes on with, or begins, a commit.
Stages(next) ==
    /\ pc \in {"idle", next}
    /\ Len(commit.lines) < MaxLines
    /\ pc' = next
    /\ base' = present
    /\ UNCHANGED <<allocated, undoList, redoList, idx, list, lastGroup, mode, past, future, last>>

Editable(i) == i \in board /\ ~IsStaged(i, "REMOVE")

\* What the user can remove besides the items.
UserMarkers == IF "remove_markers" \in Tools THEN Marker ELSE {}
UserTeardrops == IF "remove_teardrops" \in Tools THEN Teardrop ELSE {}

\* An item can be picked if its group is the one that has been entered.
Selectable(i) == i \in Item \cup UserMarkers /\ parent[i] = enteredGroup

\* commit.Modify( item ) and then a change of its data, in any editing tool.
ModifyItem(i, v) ==
    /\ "modify" \in Tools
    /\ Stages("staging")
    /\ i \in Item /\ Editable(i) /\ data[i] # v
    /\ commit' = StageModify(commit, i)
    /\ data' = [data EXCEPT ![i] = v]
    /\ UNCHANGED <<board, view, connectivity, members, parent, structDeleted, enteredGroup>>

\* The same for a group: its members are changed.
ModifyGroup(g, v) ==
    /\ "modify_group" \in Tools
    /\ Stages("staging")
    /\ g \in board /\ g # enteredGroup /\ ~IsStaged(g, "REMOVE")
    /\ members[g] # {}
    /\ \E children \in ChildOrders(commit, g) :
          commit' = StageModifyGroup(commit, g, children)
    /\ data' = [i \in Leaf |-> IF i \in members[g] THEN v ELSE data[i]]
    /\ UNCHANGED <<board, view, connectivity, members, parent, structDeleted, enteredGroup>>

\* BOARD::Add(): into the containers and the connectivity; ClearEditFlags().
BoardAdd(o) ==
    /\ board' = board \cup {o}
    /\ connectivity' = connectivity \cup ({o} \cap Connectable)
    /\ structDeleted' = structDeleted \ {o}

\* commit.Add( item ): the item is new and not on the board yet.
AddItem(i, v) ==
    /\ "add" \in Tools
    /\ i \in Item \ allocated
    /\ pc \in {"idle", "staging"}
    /\ Len(commit.lines) < MaxLines
    /\ pc' = "staging"
    /\ base' = present
    /\ allocated' = allocated \cup {i}
    /\ data' = [data EXCEPT ![i] = v]
    /\ commit' = MakeEntry(commit, i, "ADD", FALSE)
    /\ parent' = [parent EXCEPT ![i] = None]
    /\ structDeleted' = structDeleted \ {i}
    /\ UNCHANGED <<board, view, connectivity, members, enteredGroup,
                   undoList, redoList, idx, list, lastGroup, mode, past, future, last>>

\* commit.Added( item ): PCB_CONTROL::AppendBoard() has loaded the item into
\* the board and its connectivity.
AddPlacedItem(i, v) ==
    /\ "add_placed" \in Tools
    /\ i \in Item \ allocated
    /\ pc \in {"idle", "staging"}
    /\ Len(commit.lines) < MaxLines
    /\ pc' = "staging"
    /\ base' = present
    /\ allocated' = allocated \cup {i}
    /\ data' = [data EXCEPT ![i] = v]
    /\ BoardAdd(i)
    /\ commit' = Added(commit, i)
    /\ parent' = [parent EXCEPT ![i] = None]
    /\ UNCHANGED <<view, members, enteredGroup,
                   undoList, redoList, idx, list, lastGroup, mode, past, future, last>>

\* commit.Remove( item ), as the router, the generators and the dialogs do it.
\* Only DIALOG_GLOBAL_DELETION removes teardrops.
RemoveItem(i) ==
    /\ "remove" \in Tools
    /\ Stages("staging")
    /\ i \in Item \cup UserMarkers \cup UserTeardrops /\ Editable(i)
    /\ commit' = MakeEntry(commit, i, "REMOVE", FALSE)
    /\ UNCHANGED <<board, view, connectivity, data, members, parent, structDeleted, enteredGroup>>

\* ExitGroup() when the entered group has been emptied.
LeaveEmptyGroup ==
    enteredGroup' = IF enteredGroup # None /\ members'[enteredGroup] = {}
                    THEN None ELSE enteredGroup

\* EDIT_TOOL::DeleteItems() for one item.
DeleteItem(i) ==
    /\ "delete" \in Tools
    /\ Stages("committing")
    /\ Selectable(i) /\ Editable(i)
    /\ IF parent[i] = None
       THEN commit' = MakeEntry(commit, i, "REMOVE", FALSE)
       ELSE \E children \in ChildOrders(commit, parent[i]) :
               commit' = MakeEntry(StageModifyGroup(commit, parent[i], children),
                                   i, "REMOVE", FALSE)
    /\ members' = GroupRemoveMembers(members, parent, i)
    /\ parent' = GroupRemoveParent(members, parent, i)
    /\ LeaveEmptyGroup
    /\ UNCHANGED <<board, view, connectivity, data, structDeleted>>

\* EDIT_TOOL::DeleteItems() for a group: the group, then its members.
DeleteGroup(g) ==
    /\ "delete_group" \in Tools
    /\ Stages("committing")
    /\ g \in board /\ g # enteredGroup /\ ~IsStaged(g, "REMOVE")
    /\ \E order \in SetToSeqs(members[g]) :
          commit' = [lines |-> commit.lines \o RemoveLines(<<g>> \o order),
                     items |-> commit.items \cup {g} \cup members[g]]
    /\ UNCHANGED <<board, view, connectivity, data, members, parent, structDeleted, enteredGroup>>

\* GROUP_TOOL::RemoveFromGroup() for one item of the selection.
RemoveFromGroup(i) ==
    /\ "remove_from_group" \in Tools
    /\ Stages("committing")
    /\ Selectable(i) /\ Editable(i) /\ parent[i] # None
    /\ \E children \in ChildOrders(commit, parent[i]) :
          commit' = StageModifyGroup(commit, parent[i], children)
    /\ members' = GroupRemoveMembers(members, parent, i)
    /\ parent' = GroupRemoveParent(members, parent, i)
    /\ UNCHANGED <<board, view, connectivity, data, structDeleted, enteredGroup>>

\* BOARD::Remove(): out of the containers, of the group and of connectivity.
\* Mutant: the connectivity is not told.
BoardRemoveStillConnected(o) ==
    /\ board' = board \ {o}
    /\ structDeleted' = structDeleted \cup {o}
    /\ LeaveGroup(o)
    /\ UNCHANGED connectivity
BoardRemove(o) ==
    /\ board' = board \ {o}
    /\ structDeleted' = structDeleted \cup {o}
    /\ connectivity' = connectivity \ {o}
    /\ LeaveGroup(o)

\* TRACKS_CLEANER::removeItems() and deleteDanglingTracks(): the item is taken
\* off the board at once.
CleanerRemove(i) ==
    /\ "cleanup" \in Tools
    /\ Stages("committing")
    /\ i \in Item /\ Editable(i)
    /\ IsStaged(i, "MODIFY") => "cleanup_modified" \in Tools
    /\ commit' = Removed(commit, i)
    /\ BoardRemove(i)
    /\ UNCHANGED <<view, data, enteredGroup>>

\* TRACKS_CLEANER::mergeCollinearSegments()
CleanerMerge(i, j, v) ==
    /\ "cleanup" \in Tools
    /\ Stages("committing")
    /\ i \in Item /\ Editable(i) /\ data[i] # v
    /\ j \in Item \ {i} /\ Editable(j)
    /\ IsStaged(j, "MODIFY") => "cleanup_modified" \in Tools
    /\ commit' = Removed(StageModify(commit, i), j)
    /\ data' = [data EXCEPT ![i] = v]
    /\ board' = board \ {j}
    /\ structDeleted' = structDeleted \cup {j}
    /\ connectivity' = (connectivity \cup {i}) \ {j}
    /\ LeaveGroup(j)
    /\ UNCHANGED <<view, enteredGroup>>

------------------------------------------------------------------------------
(* BOARD_COMMIT::Push()                                                    *)

\* The flags: `skip' is SKIP_UNDO, `append' APPEND_UNDO.
Push(flag) ==
    /\ pc \in {"staging", "committing"}
    /\ commit.lines # << >>
    /\ flag = "append" => /\ "append" \in Tools
                          /\ undoList # << >> => Len(Last(undoList)) <= MaxPickers
    /\ pc' = "stale"
    /\ mode' = flag
    /\ idx' = 1
    /\ list' = << >>
    /\ UNCHANGED <<modelVars, allocated, enteredGroup, commit, undoList, redoList,
                   lastGroup, historyVars>>

DrcUndoable == "push"                                 \* mutant: SKIP_UNDO is forgotten
DrcFlags == "skip"

\* DIALOG_DRC::OnRunDRCClick() deletes all the markers; then DRC_TOOL::RunTests()
\* adds those of the violations it finds (at most one here) with SKIP_UNDO.
RunDrc ==
    /\ "drc" \in Tools
    /\ pc = "idle"
    /\ board' = board \ Marker
    /\ view' = view \ (board \cap Marker)
    /\ \E found \in SUBSET (Marker \ allocated) :
          /\ Cardinality(found) <= 1
          /\ allocated' = (allocated \ (board \cap Marker)) \cup found
          /\ IF found = {}
             THEN pc' = "idle" /\ UNCHANGED <<idx, list, mode, commit, base>>
             ELSE /\ pc' = "stale"
                  /\ idx' = 1
                  /\ list' = << >>
                  /\ mode' = DrcFlags
                  /\ commit' = MakeEntry(commit, CHOOSE m \in found : TRUE, "ADD", FALSE)
                  /\ base' = Document
    /\ UNCHANGED <<connectivity, data, members, parent, structDeleted, enteredGroup,
                   undoList, redoList, lastGroup, past, future, last>>

\* The loop counter and the picker list after one line.
NextLine(status, link) ==
    /\ idx' = idx + 1
    /\ list' = IF mode = "skip" THEN list
               ELSE Append(list, NewPicker(commit.lines[idx].item, status, link))

\* TEARDROP_MANAGER::RemoveTeardrops() takes the teardrops of staged tracks,
\* vias and pads off the board before the lines are carried out.
RemoveStaleTeardrop(t) ==
    /\ "teardrops" \in Tools
    /\ pc = "stale"
    /\ t \in Teardrop \cap board
    /\ \E k \in 1 .. Len(commit.lines) : commit.lines[k].item \in Item
    /\ commit' = Removed(commit, t)
    /\ BoardRemove(t)
    /\ UNCHANGED <<view, allocated, data, enteredGroup, undoList, redoList, loopVars, historyVars>>

StaleTeardropsDone ==
    /\ pc = "stale"
    /\ pc' = "lines"
    /\ UNCHANGED <<modelVars, allocated, enteredGroup, commit, undoList, redoList,
                   idx, list, lastGroup, mode, historyVars>>

\* The line the loop is at.
AtLine(type) ==
    /\ pc = "lines"
    /\ idx \in 1 .. Len(commit.lines)
    /\ commit.lines[idx].type = type

\* case CHT_ADD, and ClearEditFlags().  An item added while a group is entered
\* becomes a member of it, if its type can be grouped.
PushAdd ==
    /\ AtLine("ADD")
    /\ LET line == commit.lines[idx]
           o == line.item
           joins == enteredGroup # None /\ o \in Connectable /\ parent[o] = None
       IN  /\ members' = IF joins THEN GroupAdd(members, parent, enteredGroup, o) ELSE members
           /\ parent' = IF joins THEN [parent EXCEPT ![o] = enteredGroup] ELSE parent
           /\ board' = board \cup {o}
           /\ connectivity' = IF line.done THEN connectivity
                              ELSE connectivity \cup ({o} \cap Connectable)
           /\ view' = view \cup ({o} \cap Leaf)
           /\ structDeleted' = structDeleted \ {o}
    /\ NextLine("NEWITEM", NoImage)
    /\ UNCHANGED <<allocated, data, enteredGroup, commit, undoList, redoList, pc,
                   lastGroup, mode, historyVars>>

\* case CHT_REMOVE, and ClearEditFlags().
PushRemove ==
    /\ AtLine("REMOVE")
    /\ LET line == commit.lines[idx]
           o == line.item
       IN  /\ LeaveGroup(o)
           /\ view' = view \ {o}
           /\ board' = IF line.done THEN board ELSE board \ {o}
           /\ connectivity' = IF line.done THEN connectivity ELSE connectivity \ {o}
           /\ structDeleted' = structDeleted \ {o}
    /\ NextLine("DELETED", NoImage)
    /\ UNCHANGED <<allocated, data, enteredGroup, commit, undoList, redoList, pc,
                   lastGroup, mode, historyVars>>

\* case CHT_MODIFY, and ClearEditFlags().  CONNECTIVITY_DATA::Update() removes
\* the item and adds it.
PushModify ==
    /\ AtLine("MODIFY")
    /\ LET line == commit.lines[idx]
           o == line.item
       IN  /\ connectivity' = connectivity \cup ({o} \cap Connectable)
           /\ structDeleted' = structDeleted \ {o}
           /\ NextLine("CHANGED", line.copy)
    /\ UNCHANGED <<board, view, allocated, data, members, parent, enteredGroup, commit,
                   undoList, redoList, pc, lastGroup, mode, historyVars>>

LinesDone ==
    /\ pc = "lines"
    /\ idx > Len(commit.lines)
    /\ pc' = "propagate"
    /\ UNCHANGED <<modelVars, allocated, enteredGroup, commit, undoList, redoList,
                   idx, list, lastGroup, mode, historyVars>>

\* RecalculateRatsnest( this ): CN_CONNECTIVITY_ALGO::propagateConnections()
\* stages, and changes, the items of a cluster that get another net (at most
\* one here).  An item of the cluster may be staged already.
PropagateNet(i, v) ==
    /\ "nets" \in Tools
    /\ pc = "propagate"
    /\ i \in Item \cap connectivity /\ data[i] # v
    /\ commit' = StageModify(commit, i)
    /\ data' = [data EXCEPT ![i] = v]
    /\ pc' = "update"
    /\ UNCHANGED <<board, view, connectivity, allocated, members, parent, structDeleted,
                   enteredGroup, undoList, redoList, idx, list, lastGroup, mode, historyVars>>

PropagateNothing ==
    /\ pc = "propagate"
    /\ pc' = "update"
    /\ UNCHANGED <<modelVars, allocated, enteredGroup, commit, undoList, redoList,
                   idx, list, lastGroup, mode, historyVars>>

\* TEARDROP_MANAGER::UpdateTeardrops() creates a teardrop on the board.
CreateTeardrop(t, v) ==
    /\ "teardrops" \in Tools
    /\ pc = "update"
    /\ t \in Teardrop \ allocated
    /\ \E k \in 1 .. Len(commit.lines) : commit.lines[k].item \in Item
    /\ allocated' = allocated \cup {t}
    /\ data' = [data EXCEPT ![t] = v]
    /\ BoardAdd(t)
    /\ parent' = [parent EXCEPT ![t] = None]
    /\ commit' = Added(commit, t)
    /\ UNCHANGED <<view, members, enteredGroup, undoList, redoList, loopVars, historyVars>>

TeardropsDone ==
    /\ pc = "update"
    /\ pc' = "late"
    /\ UNCHANGED <<modelVars, allocated, enteredGroup, commit, undoList, redoList,
                   idx, list, lastGroup, mode, historyVars>>

ViewUnchanged(line) == view                           \* mutant: the view is not told
ViewOfLate(line) ==
    CASE line.type = "ADD" -> view \cup ({line.item} \cap Leaf)
      [] line.type = "REMOVE" -> view \ {line.item}
      [] line.type = "MODIFY" -> view

\* "Log undo items for any connectivity or teardrop changes": the lines that
\* have been staged since the loop over the lines ended.
PushLate ==
    /\ pc = "late"
    /\ idx \in 1 .. Len(commit.lines)
    /\ LET line == commit.lines[idx]
       IN  /\ NextLine(StatusOfType(line.type), line.copy)
           /\ view' = ViewOfLate(line)
    /\ UNCHANGED <<board, connectivity, allocated, data, members, parent, structDeleted,
                   enteredGroup, commit, undoList, redoList, pc, lastGroup, mode, historyVars>>

\* SaveCopyInUndoList(), AppendCopyToUndoList() or neither, and clear().
PushDone ==
    /\ pc = "late"
    /\ idx > Len(commit.lines)
    /\ CASE mode = "skip" -> UNCHANGED <<undoList, redoList, allocated, past, future, last>>
         [] mode = "append" /\ undoList # << >> ->
              /\ SaveInUndoList(Front(undoList), Joined(Last(undoList), list), allocated)
              /\ future' = << >>
              /\ last' = "amend"
              /\ UNCHANGED past
         [] OTHER ->
              /\ SaveInUndoList(undoList, list, allocated)
              /\ RecordCommand(base)
    /\ pc' = "idle"
    /\ commit' = EmptyCommit
    /\ list' = << >>
    /\ idx' = 0
    /\ mode' = "none"
    /\ UNCHANGED <<modelVars, enteredGroup, lastGroup, base>>

------------------------------------------------------------------------------
(* SwapItemData(), as Revert() and PutDataInPreviousState() use it: the data *)
(* or the members of the object are exchanged with those of the image, the   *)
(* pointers to the parent and to the group stay.  Then the children of a     *)
(* group are made to point to it.  The item goes out of the view and the     *)
(* connectivity for the time of the swap.                                    *)

\* Mutants: the item does not come back to the connectivity; the children of
\* a group are not made to point to it.
SwapMembersOnly(o, image) ==
    /\ data' = IF o \in Group THEN data ELSE [data EXCEPT ![o] = image.data]
    /\ members' = IF o \in Group THEN [members EXCEPT ![o] = image.items] ELSE members
    /\ view' = view \cup ({o} \cap Leaf)
    /\ connectivity' = connectivity \cup ({o} \cap Connectable)
    /\ UNCHANGED parent
Swap(o, image) ==
    /\ data' = IF o \in Group THEN data ELSE [data EXCEPT ![o] = image.data]
    /\ members' = IF o \in Group THEN [members EXCEPT ![o] = image.items] ELSE members
    /\ parent' = IF o \in Group
                 THEN [i \in Leaf |-> IF i \in image.items THEN o ELSE parent[i]]
                 ELSE parent
    /\ view' = view \cup ({o} \cap Leaf)
    /\ connectivity' = connectivity \cup ({o} \cap Connectable)

\* PCB_SELECTION_TOOL::RebuildSelection() forgets a group that is not on the board.
RebuildNothing == UNCHANGED enteredGroup              \* mutant: it is not told
RebuildSelection ==
    enteredGroup' = IF enteredGroup \in board THEN enteredGroup ELSE None

------------------------------------------------------------------------------
(* BOARD_COMMIT::Revert(), the lines in reverse order                      *)

Revert ==
    /\ pc = "staging"
    /\ pc' = "revert"
    /\ idx' = Len(commit.lines)
    /\ UNCHANGED <<modelVars, allocated, enteredGroup, commit, undoList, redoList,
                   list, lastGroup, mode, historyVars>>

AtRevert(type) ==
    /\ pc = "revert"
    /\ idx \in 1 .. Len(commit.lines)
    /\ commit.lines[idx].type = type
    /\ idx' = idx - 1
    /\ UNCHANGED <<allocated, enteredGroup, commit, undoList, redoList, pc, list,
                   lastGroup, mode, historyVars>>

\* Only what the tool has done already is taken back; ClearEditFlags().
RevertAdd ==
    /\ AtRevert("ADD")
    /\ LET line == commit.lines[idx]
           o == line.item
       IN  /\ structDeleted' = structDeleted \ {o}
           /\ IF line.done
              THEN /\ board' = board \ {o}
                   /\ view' = view \ {o}
                   /\ connectivity' = connectivity \ {o}
                   /\ LeaveGroup(o)
              ELSE UNCHANGED <<board, view, connectivity, members, parent>>
    /\ UNCHANGED data

RevertRemove ==
    /\ AtRevert("REMOVE")
    /\ LET line == commit.lines[idx]
           o == line.item
       IN  /\ structDeleted' = structDeleted \ {o}
           /\ IF line.done
              THEN /\ board' = board \cup {o}
                   /\ view' = view \cup ({o} \cap Leaf)
                   /\ connectivity' = connectivity \cup ({o} \cap Connectable)
              ELSE UNCHANGED <<board, view, connectivity>>
    /\ UNCHANGED <<data, members, parent>>

RevertModify ==
    /\ AtRevert("MODIFY")
    /\ LET line == commit.lines[idx]
       IN  /\ Swap(line.item, line.copy)
           /\ structDeleted' = structDeleted \ {line.item}
    /\ UNCHANGED board

\* Nobody refers any more to what the commit was to add: the names of these
\* objects can be given to new ones.
RevertDone ==
    /\ pc = "revert"
    /\ idx = 0
    /\ RebuildSelection
    /\ allocated' = allocated \ {line.item : line \in {l \in ToSet(commit.lines) : l.type = "ADD"}}
    /\ commit' = EmptyCommit
    /\ pc' = "idle"
    /\ UNCHANGED <<modelVars, undoList, redoList, idx, list, lastGroup, mode, historyVars>>

------------------------------------------------------------------------------
(* Groups.  GROUP_TOOL writes the undo list itself.                        *)

EnterGroup(g) ==
    /\ "enter" \in Tools
    /\ pc = "idle"
    /\ g \in board /\ enteredGroup' = g
    /\ UNCHANGED <<modelVars, allocated, commit, undoList, redoList, loopVars, historyVars>>

ExitGroup ==
    /\ pc = "idle"
    /\ enteredGroup # None /\ enteredGroup' = None
    /\ UNCHANGED <<modelVars, allocated, commit, undoList, redoList, loopVars, historyVars>>

\* A command that is carried out and recorded without a commit.
RecordAtOnce(cmd, objects) ==
    /\ SaveInUndoList(undoList, cmd, objects)
    /\ RecordCommand(Document)
    /\ UNCHANGED <<commit, loopVars, base>>

\* GROUP_TOOL::Group(): the items leave the groups they are in.
GroupItems(g, items) ==
    /\ "group" \in Tools
    /\ pc = "idle"
    /\ g \notin allocated
    /\ items # {} /\ items \subseteq board
    /\ \A i \in items : i \in Item /\ Selectable(i)
    /\ "regroup" \in Tools \/ \A i \in items : parent[i] = None
    /\ BoardAdd(g)
    /\ members' = [h \in Group |-> IF h = g THEN items
                                   ELSE members[h] \ {i \in items : parent[i] = h}]
    /\ parent' = [i \in Leaf |-> IF i \in items THEN g ELSE parent[i]]
    /\ \E order \in SetToSeqs(items) :
          RecordAtOnce(<<NewPicker(g, "NEWITEM", NoImage)>>
                       \o [k \in 1 .. Len(order) |-> NewPicker(order[k], "REGROUP", NoImage)],
                       allocated \cup {g})
    /\ UNCHANGED <<view, data, enteredGroup>>

\* GROUP_TOOL::Ungroup()
UngroupItems(g) ==
    /\ "ungroup" \in Tools
    /\ pc = "idle"
    /\ g \in board /\ g # enteredGroup
    /\ board' = board \ {g}
    /\ members' = [members EXCEPT ![g] = {}]
    /\ parent' = [i \in Leaf |-> IF i \in members[g] THEN None ELSE parent[i]]
    /\ structDeleted' = structDeleted \cup {g}
    /\ \E order \in SetToSeqs(members[g]) :
          RecordAtOnce([k \in 1 .. Len(order) |-> NewPicker(order[k], "UNGROUP", NoImage)]
                       \o <<NewPicker(g, "DELETED", NoImage)>>,
                       allocated)
    /\ UNCHANGED <<view, connectivity, data, enteredGroup>>

------------------------------------------------------------------------------
(* RestoreCopyFromUndoList(), RestoreCopyFromRedoList(), RollbackFromUndo() *)
(* and PutDataInPreviousState(), the pickers in reverse order.  A tool that *)
(* has a commit open blocks undo and redo, or takes them as a cancellation. *)

BeginPut(cmd, what) ==
    /\ pc = "idle"
    /\ pc' = "put"
    /\ mode' = what
    /\ list' = cmd
    /\ idx' = Len(cmd)
    /\ lastGroup' = None
    /\ base' = Document
    /\ UNCHANGED <<modelVars, allocated, enteredGroup, commit, past, future, last>>

UndoCommand ==
    /\ undoList # << >>
    /\ BeginPut(Last(undoList), "undo")
    /\ undoList' = Front(undoList)
    /\ UNCHANGED redoList

RedoCommand ==
    /\ redoList # << >>
    /\ BeginPut(Last(redoList), "redo")
    /\ redoList' = Front(redoList)
    /\ UNCHANGED undoList

\* The callers withdraw the command that they have just pushed, so that there
\* is nothing to redo.
RollbackCommand ==
    /\ "rollback" \in Tools
    /\ undoList # << >> /\ redoList = << >>
    /\ BeginPut(Last(undoList), "rollback")
    /\ undoList' = Front(undoList)
    /\ UNCHANGED redoList

\* The test for the existence of the item on the board.
Exists(picker) == picker.status \in {"NEWITEM", "CHANGED"} => picker.item \in board

AtPickerAgain(statuses) ==                            \* mutant: the loop does not advance
    /\ pc = "put"
    /\ idx \in 1 .. Len(list)
    /\ Exists(list[idx])
    /\ list[idx].status \in statuses
    /\ UNCHANGED <<idx, allocated, enteredGroup, commit, undoList, redoList, pc, mode, historyVars>>
AtPicker(statuses) ==
    /\ pc = "put"
    /\ idx \in 1 .. Len(list)
    /\ Exists(list[idx])
    /\ list[idx].status \in statuses
    /\ idx' = idx - 1
    /\ UNCHANGED <<allocated, enteredGroup, commit, undoList, redoList, pc, mode, historyVars>>

SetNoStatus(status) == UNCHANGED list                 \* mutant: the status stays
SetStatus(status) == list' = [list EXCEPT ![idx].status = status]

\* RemovePicker() of an item that is not on the board.
PutMissing ==
    /\ pc = "put"
    /\ idx \in 1 .. Len(list)
    /\ ~Exists(list[idx])
    /\ list' = SubSeq(list, 1, idx - 1) \o SubSeq(list, idx + 1, Len(list))
    /\ idx' = idx - 1
    /\ UNCHANGED <<modelVars, allocated, enteredGroup, commit, undoList, redoList, pc,
                   lastGroup, mode, historyVars>>

PutChanged ==
    /\ AtPicker({"CHANGED"})
    /\ LET o == list[idx].item
       IN  /\ Swap(o, list[idx].link)
           /\ list' = [list EXCEPT ![idx].link = ImageOf(o)]
           /\ lastGroup' = IF o \in Group THEN o ELSE lastGroup
    /\ UNCHANGED <<board, structDeleted>>

PutNewItemStillShown ==                               \* mutant: the view is not told
    /\ AtPicker({"NEWITEM"})
    /\ SetStatus("DELETED")
    /\ BoardRemove(list[idx].item)
    /\ UNCHANGED <<view, data, lastGroup>>
PutNewItem ==
    /\ AtPicker({"NEWITEM"})
    /\ SetStatus("DELETED")
    /\ BoardRemove(list[idx].item)
    /\ view' = view \ {list[idx].item}
    /\ UNCHANGED <<data, lastGroup>>

PutDeleted ==
    /\ AtPicker({"DELETED"})
    /\ SetStatus("NEWITEM")
    /\ LET o == list[idx].item
       IN  /\ BoardAdd(o)
           /\ view' = view \cup ({o} \cap Leaf)
           /\ lastGroup' = IF o \in Group THEN o ELSE lastGroup
    /\ UNCHANGED <<data, members, parent>>

PutRegroup ==
    /\ AtPicker({"REGROUP"})
    /\ SetStatus("UNGROUP")
    /\ parent' = [parent EXCEPT ![list[idx].item] = None]
    /\ UNCHANGED <<board, view, connectivity, data, members, structDeleted, lastGroup>>

PutUngroup ==
    /\ AtPicker({"UNGROUP"})
    /\ SetStatus("REGROUP")
    /\ IF lastGroup = None THEN UNCHANGED <<members, parent>>
       ELSE /\ members' = GroupAdd(members, parent, lastGroup, list[idx].item)
            /\ parent' = [parent EXCEPT ![list[idx].item] = lastGroup]
    /\ UNCHANGED <<board, view, connectivity, data, structDeleted, lastGroup>>

\* The end of the operation: the command goes, in reverse order, to the other
\* list, or a command that is rolled back is freed.
PutDone ==
    /\ pc = "put"
    /\ idx = 0
    /\ RebuildSelection
    /\ CASE mode = "undo" ->
              LET cmds == Append(redoList, Reverse(list))
              IN  /\ redoList' = Newest(cmds)
                  /\ allocated' = allocated \ ItemsOwnedBy(Oldest(cmds))
                  /\ past' = Front(past)
                  /\ future' = Newest(Append(future, base))
                  /\ UNCHANGED undoList
         [] mode = "redo" ->
              LET cmds == Append(undoList, Reverse(list))
              IN  /\ undoList' = Newest(cmds)
                  /\ allocated' = allocated \ ItemsOwnedBy(Oldest(cmds))
                  /\ future' = Front(future)
                  /\ past' = Newest(Append(past, base))
                  /\ UNCHANGED redoList
         [] mode = "rollback" ->
              /\ allocated' = allocated \ DeletedItems(list)
              /\ past' = Front(past)
              /\ UNCHANGED <<undoList, redoList, future>>
    /\ last' = mode
    /\ pc' = "idle"
    /\ mode' = "none"
    /\ list' = << >>
    /\ lastGroup' = None
    /\ UNCHANGED <<modelVars, commit, idx, base>>

------------------------------------------------------------------------------
\* What the user decides.
UserStep ==
    \/ \E i \in Item, v \in Value :
          \/ ModifyItem(i, v)
          \/ AddItem(i, v)
          \/ AddPlacedItem(i, v)
    \/ \E g \in Group, v \in Value : ModifyGroup(g, v)
    \/ \E i \in Leaf :
          \/ RemoveItem(i)
          \/ DeleteItem(i)
          \/ RemoveFromGroup(i)
    \/ \E g \in Group :
          \/ DeleteGroup(g)
          \/ EnterGroup(g)
          \/ UngroupItems(g)
          \/ \E items \in SUBSET Item : GroupItems(g, items)
    \/ \E i \in Item :
          \/ CleanerRemove(i)
          \/ \E j \in Item, v \in Value : CleanerMerge(i, j, v)
    \/ \E flag \in {"push", "append"} : Push(flag)
    \/ Revert
    \/ RunDrc
    \/ ExitGroup
    \/ UndoCommand
    \/ RedoCommand
    \/ RollbackCommand

\* One step of Push(), Revert() or PutDataInPreviousState().
ProgramStep ==
    \/ \E t \in Teardrop : RemoveStaleTeardrop(t)
    \/ StaleTeardropsDone
    \/ PushAdd \/ PushRemove \/ PushModify
    \/ LinesDone
    \/ \E i \in Item, v \in Value : PropagateNet(i, v)
    \/ PropagateNothing
    \/ \E t \in Teardrop, v \in Value : CreateTeardrop(t, v)
    \/ TeardropsDone
    \/ PushLate
    \/ PushDone
    \/ RevertAdd \/ RevertRemove \/ RevertModify
    \/ RevertDone
    \/ PutMissing \/ PutChanged \/ PutNewItem \/ PutDeleted \/ PutRegroup \/ PutUngroup
    \/ PutDone

Next == UserStep \/ ProgramStep

Spec == Init /\ [][Next]_vars

\* The program carries on with an operation it has begun.
FairSpec == Spec /\ WF_vars(ProgramStep)

------------------------------------------------------------------------------
(* Properties                                                              *)

\* Undo and redo restore exactly the documents the commands were given in, and
\* a commit that is reverted leaves no trace: pcb_base_edit_frame.h:135-139,
\* RestoreCopyFromUndoList(), RestoreCopyFromRedoList(), BOARD_COMMIT::Revert().
ImplementsHistory == History!HSpec

\* When no operation is under way, what is drawn is what is on the board:
\* Push(), Revert() and PutDataInPreviousState() update both, in several places.
ViewMatchesBoard == pc = "idle" => view = board \cap Leaf

\* ... and the connectivity knows all of the board's items and no others.
ConnectivityMatchesBoard == pc = "idle" => connectivity = board \cap Connectable

\* The pickers of the undo list, the redo list and the list that is carried out.
Commands == undoList \o redoList \o <<list>>
Pickers == UNION {ToSet(cmd) : cmd \in ToSet(Commands)}

\* Nothing that has been freed is referred to: not by the board, the view, the
\* connectivity or the selection tool, not by a commit or a picker, and not by
\* a group or the image of a group that is itself referred to
\* (ClearListAndDeleteItems() frees without looking at who else has a pointer).
NoDanglingReference ==
    LET objects == board \cup view \cup connectivity \cup commit.items
                   \cup ({enteredGroup} \ {None}) \cup {p.item : p \in Pickers}
        images == {p.link : p \in Pickers} \cup {line.copy : line \in ToSet(commit.lines)}
        reached == objects \cup UNION {members[g] : g \in objects \cap Group}
                   \cup UNION {image.items : image \in images}
                   \cup ({parent[i] : i \in objects \cap Leaf} \ {None})
    IN  reached \subseteq allocated

\* An object that is off the board and can come back is owned by exactly one
\* picker, of status DELETED, and such an object is not on the board: else
\* ClearListAndDeleteItems() frees it twice, or frees what is on the board.
DeletedPickers(o) ==
    {pos \in (DOMAIN Commands) \X (1 .. 3 * MaxLines + Cardinality(Object)) :
        /\ pos[2] \in DOMAIN Commands[pos[1]]
        /\ Commands[pos[1]][pos[2]].item = o
        /\ Commands[pos[1]][pos[2]].status = "DELETED"}
DeletedItemsOwnedOnce ==
    pc = "idle" => \A o \in Object :
        /\ Cardinality(DeletedPickers(o)) <= 1
        /\ DeletedPickers(o) # {} => o \notin board

\* A group of the board and its members agree on who belongs to it, and the
\* members are on the board (m_items and m_group are two copies of one fact,
\* restored by different cases of PutDataInPreviousState()).
GroupsConsistent ==
    pc = "idle" =>
        /\ \A g \in Group \cap board : members[g] = {i \in Leaf \cap board : parent[i] = g}
        /\ \A i \in Leaf \cap board : parent[i] \in board \cup {None}

\* While the user edits, the members of a group of the board are on the board and
\* known to the connectivity, none of them is generated, and a commit that is about to
\* be pushed removes none of them but with the group: the commits, undo, redo and the
\* group tools each keep m_items up to date by themselves.
GroupsEditable ==
    pc \in {"idle", "staging", "committing"} =>
        \A g \in Group \cap board : \A i \in members[g] :
            /\ i \in board \cap Connectable
            /\ "teardrops" \in Tools => i \notin Teardrop
            /\ pc = "committing" /\ ~IsStaged(g, "REMOVE") => ~IsStaged(i, "REMOVE")

\* The group that has been entered is on the board, whatever was undone.
EnteredGroupOnBoard == pc = "idle" => enteredGroup \in board \cup {None}

\* The two lists together never keep more commands than the limit, and they
\* are as long as the history the user expects.
HistoryWithinLimit ==
    /\ pc = "idle" => Len(undoList) = Len(past) /\ Len(redoList) = Len(future)
    /\ MaxUndo > 0 => Len(undoList) + Len(redoList) <= MaxUndo

\* "Each group must contain at least one item" (board.h:331-338).
GroupsNotEmpty == pc = "idle" => \A g \in Group \cap board : members[g] # {}

\* "Item in the undo buffer does not exist" (undo_redo.cpp:306-307) is never met.
HistoryItemsExist == pc = "put" /\ idx \in 1 .. Len(list) => Exists(list[idx])

\* An operation that has been begun comes to its end.
OperationsEnd ==
    pc \in {"stale", "lines", "propagate", "update", "late", "revert", "put"} ~> pc = "idle"

==============================================================================
