------------------------- MODULE UndoHistory_proofs -------------------------
(***************************************************************************)
(* Type correctness and the depth of the history of UndoHistory.tla, for   *)
(* every set of documents and every limit.                                 *)
(***************************************************************************)
EXTENDS UndoHistory, SequenceTheorems, TLAPS

\* Keeping the newest entries of a list gives a list, no longer than it was and
\* no longer than the limit: PushCommandToUndoList(), PushCommandToRedoList().
LEMMA NewestBound ==
    ASSUME MaxUndo \in Nat, NEW docs \in Seq(Document)
    PROVE  /\ Newest(docs) \in Seq(Document)
           /\ Len(Newest(docs)) <= Len(docs)
           /\ MaxUndo > 0 => Len(Newest(docs)) <= MaxUndo
  BY DEF Newest

\* The list without its last entry: RestoreCopyFromUndoList() takes it off.
LEMMA FrontLast ==
    ASSUME NEW docs \in Seq(Document), docs # << >>
    PROVE  /\ Front(docs) \in Seq(Document)
           /\ Len(Front(docs)) = Len(docs) - 1
           /\ Last(docs) \in Document
<1>1. Len(docs) \in Nat \ {0}
  BY EmptySeq
<1>2. docs[Len(docs)] \in Document
  BY <1>1
<1>3. SubSeq(docs, 1, Len(docs) - 1) \in Seq(Document)
  BY <1>1
<1>4. Len(SubSeq(docs, 1, Len(docs) - 1)) = Len(docs) - 1
  BY <1>1
<1> QED  BY <1>2, <1>3, <1>4 DEF Front, Last

\* One document more in a list, and the newest of them: the length is at most
\* one more, and at most the limit.
LEMMA NewestAppend ==
    ASSUME MaxUndo \in Nat, NEW docs \in Seq(Document), NEW doc \in Document
    PROVE  /\ Newest(Append(docs, doc)) \in Seq(Document)
           /\ Len(Newest(Append(docs, doc))) \in Nat
           /\ Len(Newest(Append(docs, doc))) <= Len(docs) + 1
           /\ MaxUndo > 0 => Len(Newest(Append(docs, doc))) <= MaxUndo
<1>1. Append(docs, doc) \in Seq(Document) /\ Len(Append(docs, doc)) = Len(docs) + 1
  OBVIOUS
<1>2. Newest(Append(docs, doc)) \in Seq(Document)
  BY <1>1, NewestBound
<1>3. /\ Len(Newest(Append(docs, doc))) <= Len(docs) + 1
      /\ MaxUndo > 0 => Len(Newest(Append(docs, doc))) <= MaxUndo
  BY <1>1, NewestBound
<1> QED  BY <1>2, <1>3

\* The history is a document and two lists of documents, whatever commands are
\* given: the types of HTypeOK.
THEOREM HistoryTypeCorrect ==
    ASSUME MaxUndo \in Nat
    PROVE  HSpec => []HTypeOK
<1>1. HInit => HTypeOK
  BY DEF HInit, HTypeOK
<1>2. HTypeOK /\ [HNext]_hvars => HTypeOK'
  <2> SUFFICES ASSUME HTypeOK, [HNext]_hvars  PROVE HTypeOK'
    OBVIOUS
  <2> USE DEF HTypeOK
  <2>1. /\ Newest(Append(past, present)) \in Seq(Document)
        /\ Newest(Append(future, present)) \in Seq(Document)
    BY NewestAppend
  <2>2. CASE Edit
    BY <2>1, <2>2 DEF Edit
  <2>3. CASE Amend
    BY <2>3 DEF Amend
  <2>4. CASE Undo
    BY <2>1, <2>4, FrontLast DEF Undo
  <2>5. CASE Redo
    BY <2>1, <2>5, FrontLast DEF Redo
  <2>6. CASE Rollback
    BY <2>6, FrontLast DEF Rollback
  <2>7. CASE UNCHANGED hvars
    BY <2>7 DEF hvars
  <2> QED  BY <2>2, <2>3, <2>4, <2>5, <2>6, <2>7 DEF HNext
<1> QED  BY <1>1, <1>2, PTL DEF HSpec

\* What can be undone and what can be redone are together never more than the
\* limit that PushCommandToUndoList() and PushCommandToRedoList() apply to each
\* list alone, because a command moves from one list to the other.
THEOREM HistoryDepthHolds ==
    ASSUME MaxUndo \in Nat
    PROVE  HSpec => []HistoryDepth
<1>1. HInit => HistoryDepth
  BY DEF HInit, HistoryDepth
<1>2. HTypeOK /\ HistoryDepth /\ [HNext]_hvars => HistoryDepth'
  <2> SUFFICES ASSUME HTypeOK, HistoryDepth, [HNext]_hvars, MaxUndo > 0
               PROVE  Len(past') + Len(future') <= MaxUndo
    BY DEF HistoryDepth
  <2>1. /\ MaxUndo \in Nat /\ Len(past) \in Nat /\ Len(future) \in Nat
        /\ Len(past) + Len(future) <= MaxUndo
    BY DEF HTypeOK, HistoryDepth
  <2>2. /\ Len(Newest(Append(past, present))) \in Nat
        /\ Len(Newest(Append(past, present))) <= Len(past) + 1
        /\ Len(Newest(Append(past, present))) <= MaxUndo
    BY NewestAppend DEF HTypeOK
  <2>3. /\ Len(Newest(Append(future, present))) \in Nat
        /\ Len(Newest(Append(future, present))) <= Len(future) + 1
    BY NewestAppend DEF HTypeOK
  <2>4. past # << >> => Len(Front(past)) = Len(past) - 1
    BY FrontLast DEF HTypeOK
  <2>5. future # << >> => Len(Front(future)) = Len(future) - 1
    BY FrontLast DEF HTypeOK
  <2>6. CASE Edit
    <3>1. Len(future') = 0
      BY <2>6 DEF Edit
    <3> QED  BY <2>1, <2>2, <2>6, <3>1 DEF Edit
  <2>7. CASE Amend
    <3>1. Len(future') = 0
      BY <2>7 DEF Amend
    <3> QED  BY <2>1, <2>7, <3>1 DEF Amend
  <2>8. CASE Undo
    BY <2>1, <2>3, <2>4, <2>8 DEF Undo
  <2>9. CASE Redo
    BY <2>1, <2>2, <2>5, <2>9 DEF Redo
  <2>10. CASE Rollback
    BY <2>1, <2>4, <2>10 DEF Rollback
  <2>11. CASE UNCHANGED hvars
    BY <2>1, <2>11 DEF hvars
  <2> QED  BY <2>6, <2>7, <2>8, <2>9, <2>10, <2>11 DEF HNext
<1> QED  BY <1>1, <1>2, HistoryTypeCorrect, PTL DEF HSpec
=============================================================================
