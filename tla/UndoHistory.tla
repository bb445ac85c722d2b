----------------------------- MODULE UndoHistory -----------------------------
(***************************************************************************)
(* What the undo and redo lists of the PCB editor promise to the user: a   *)
(* linear history of documents.  `past' holds the documents one can go     *)
(* back to (oldest first), `future' those one can return to (the next one  *)
(* last).  pcbnew/pcb_base_edit_frame.h:135-139 states the promise: undo   *)
(* and redo put the data "in the previous state, i.e. the state memorized" *)
(* by the command.                                                         *)
(*                                                                         *)
(* This module knows nothing of items, pickers, commits or groups;         *)
(* BoardCommit.tla is shown to implement it.                               *)
(***************************************************************************)
EXTENDS Naturals, Sequences, SequencesExt

CONSTANTS
    Document,     \* the documents
    MaxUndo       \* the number of undoable commands that are kept, 0: all; a natural number

VARIABLES
    present,      \* the document
    past, future,
    last          \* the last command that was given

hvars == <<present, past, future, last>>

HTypeOK ==
    /\ present \in Document
    /\ past \in Seq(Document)
    /\ future \in Seq(Document)
    /\ last \in {"none", "edit", "amend", "undo", "redo", "rollback"}

\* The newest MaxUndo documents of a list.
Newest(docs) ==
    IF MaxUndo > 0 /\ Len(docs) > MaxUndo
    THEN SubSeq(docs, Len(docs) - MaxUndo + 1, Len(docs))
    ELSE docs

HInit ==
    /\ present \in Document
    /\ past = << >>
    /\ future = << >>
    /\ last = "none"

\* A command: the document changes, what was undone can no longer be redone.
Edit ==
    /\ present' \in Document
    /\ past' = Newest(Append(past, present))
    /\ future' = << >>
    /\ last' = "edit"

\* A command that is joined to the one before it: both are undone at once.
Amend ==
    /\ past # << >>
    /\ present' \in Document
    /\ future' = << >>
    /\ UNCHANGED past
    /\ last' = "amend"

Undo ==
    /\ past # << >>
    /\ present' = Last(past)
    /\ past' = Front(past)
    /\ future' = Newest(Append(future, present))
    /\ last' = "undo"

Redo ==
    /\ future # << >>
    /\ present' = Last(future)
    /\ future' = Front(future)
    /\ past' = Newest(Append(past, present))
    /\ last' = "redo"

\* The last command is withdrawn: it is undone and cannot be redone.
Rollback ==
    /\ past # << >>
    /\ present' = Last(past)
    /\ past' = Front(past)
    /\ UNCHANGED future
    /\ last' = "rollback"

HNext == Edit \/ Amend \/ Undo \/ Redo \/ Rollback

HSpec == HInit /\ [][HNext]_hvars

------------------------------------------------------------------------------
\* What can be undone and what can be redone are together never more than the
\* limit: PushCommandToUndoList() and PushCommandToRedoList() apply it to each
\* of the two lists alone.
HistoryDepth == MaxUndo > 0 => Len(past) + Len(future) <= MaxUndo
==============================================================================
