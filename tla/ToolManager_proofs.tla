------------------------- MODULE ToolManager_proofs -------------------------
(* Theorems about ToolManager.tla.                                           *)
EXTENDS ToolManager, SequenceFacts

\* Whatever can be on the call stack.
AnyFrame == EventFrames \cup BodyFrames \cup ShutdownFrames

-----------------------------------------------------------------------------
(* Frames and the call stack.                                                *)

\* A frame has the fields of its kind.
LEMMA FrameKinds ==
    ASSUME NEW f \in AnyFrame
    PROVE  /\ f.kind \in {"event", "body", "shutdown"}
           /\ f.kind = "event" => f \in EventFrames
           /\ f.kind = "body" => f \in BodyFrames
           /\ f.kind = "shutdown" => f \in ShutdownFrames
  BY DEF AnyFrame, EventFrames, BodyFrames, ShutdownFrames

LEMMA NewEventFrame ==
    ASSUME NEW e \in Event, NEW how \in {"process", "invoke", "action", "sync", "queued"},
           NEW saved \in Tool \cup {None}
    PROVE  EventFrame(e, how, saved) \in EventFrames
  BY DEF EventFrame, EventFrames

LEMMA NewBody ==
    ASSUME NEW t \in Tool, NEW co \in 1 .. MaxContexts, NEW fresh \in BOOLEAN, NEW resumed \in BOOLEAN
    PROVE  Body(t, co, fresh, resumed) \in BodyFrames
  BY DEF Body, BodyFrames

\* The five things that happen to the call stack; the running frame is the last.
Pushed(f) ==
    /\ calls' \in Seq(AnyFrame) /\ Len(calls') = Len(calls) + 1
    /\ \A i \in 1 .. Len(calls) : calls'[i] = calls[i]
    /\ calls'[Len(calls) + 1] = f
Changed(f) ==
    /\ calls' \in Seq(AnyFrame) /\ Len(calls') = Len(calls)
    /\ \A i \in 1 .. (Len(calls) - 1) : calls'[i] = calls[i]
    /\ calls'[Len(calls)] = f
ChangedAndPushed(f, g) ==
    /\ calls' \in Seq(AnyFrame) /\ Len(calls') = Len(calls) + 1
    /\ \A i \in 1 .. (Len(calls) - 1) : calls'[i] = calls[i]
    /\ calls'[Len(calls)] = f /\ calls'[Len(calls) + 1] = g
Ended ==
    /\ calls' \in Seq(AnyFrame) /\ Len(calls') = Len(calls) - 1
    /\ \A i \in 1 .. (Len(calls) - 1) : calls'[i] = calls[i]
Returned(f) ==
    /\ calls' \in Seq(AnyFrame) /\ Len(calls') = Len(calls) - 1
    /\ \A i \in 1 .. (Len(calls) - 2) : calls'[i] = calls[i]
    /\ calls'[Len(calls) - 1] = f

LEMMA TopFrame ==
    ASSUME ToolsTypeOK, calls # << >>
    PROVE  /\ calls \in Seq(AnyFrame)
           /\ Len(calls) \in Nat \ {0} /\ Len(calls) \in DOMAIN calls /\ DOMAIN calls = 1 .. Len(calls)
           /\ Top = calls[Len(calls)] /\ Top \in AnyFrame
           /\ \A i \in DOMAIN calls : calls[i] \in AnyFrame
  BY DEF ToolsTypeOK, Top, Last, AnyFrame

Replaced(D, s, f, r) ==
    /\ r \in Seq(D) /\ Len(r) = Len(s) /\ r[Len(s)] = f
    /\ \A i \in 1 .. (Len(s) - 1) : r[i] = s[i]

LEMMA TopReplaced ==
    ASSUME NEW D, NEW s \in Seq(D), s # << >>, NEW f \in D
    PROVE  Replaced(D, s, f, Append(Front(s), f))
<1> DEFINE r == Append(Front(s), f)
<1>1. Front(s) \in Seq(D) /\ Len(Front(s)) = Len(s) - 1 /\ Len(s) \in Nat \ {0}
  BY FrontLast, EmptySeq
<1>2. \A i \in 1 .. (Len(s) - 1) : Front(s)[i] = s[i]
  BY FrontAt
<1>3. r \in Seq(D) /\ Len(r) = Len(s) /\ r[Len(s)] = f
  BY <1>1
<1>4. \A i \in 1 .. (Len(s) - 1) : r[i] = Front(s)[i]
  BY <1>1
<1> HIDE DEF r
<1>5. \A i \in 1 .. (Len(s) - 1) : r[i] = s[i]
  BY <1>2, <1>4
<1> QED  BY <1>3, <1>5 DEF r, Replaced

LEMMA Push ==
    ASSUME ToolsTypeOK, NEW f \in AnyFrame, calls' = Append(calls, f)
    PROVE  Pushed(f)
  BY DEF ToolsTypeOK, Pushed, AnyFrame

LEMMA Change ==
    ASSUME ToolsTypeOK, calls # << >>, NEW f \in AnyFrame, calls' = WithTop(f)
    PROVE  Changed(f)
<1>1. calls \in Seq(AnyFrame)
  BY TopFrame
<1>2. Replaced(AnyFrame, calls, f, calls')
  BY <1>1, TopReplaced DEF WithTop
<1> QED  BY <1>2 DEF Changed, Replaced

LEMMA ChangeAndPush ==
    ASSUME ToolsTypeOK, calls # << >>, NEW f \in AnyFrame, NEW g \in AnyFrame,
           calls' = Append(WithTop(f), g)
    PROVE  ChangedAndPushed(f, g)
<1> DEFINE r == WithTop(f)
<1>1. Replaced(AnyFrame, calls, f, r)
  <2>1. calls \in Seq(AnyFrame)
    BY TopFrame
  <2> QED  BY <2>1, TopReplaced DEF WithTop
<1>2. calls' = Append(r, g) /\ Len(calls) \in Nat \ {0}
  BY TopFrame
<1> HIDE DEF r
<1> QED  BY <1>1, <1>2 DEF ChangedAndPushed, Replaced

LEMMA End ==
    ASSUME ToolsTypeOK, calls # << >>, calls' = Front(calls)
    PROVE  Ended
  BY TopFrame, FrontLast, FrontAt DEF Ended

LEMMA Return ==
    ASSUME ToolsTypeOK, Len(calls) > 1, NEW f \in AnyFrame,
           calls' = Append(Front(Front(calls)), f)
    PROVE  Returned(f)
<1> DEFINE r == Front(calls)
<1>1. calls # << >> /\ Len(calls) \in Nat
  BY EmptySeq DEF ToolsTypeOK
<1>2. r \in Seq(AnyFrame) /\ Len(r) = Len(calls) - 1
  BY <1>1, TopFrame, FrontLast
<1>3. \A i \in 1 .. (Len(calls) - 1) : r[i] = calls[i]
  BY <1>1, TopFrame, FrontAt
<1>4. calls' = Append(Front(r), f)
  OBVIOUS
<1> HIDE DEF r
<1>5. r # << >>
  BY <1>1, <1>2, EmptySeq
<1>6. /\ calls' \in Seq(AnyFrame) /\ Len(calls') = Len(r) /\ calls'[Len(r)] = f
      /\ \A i \in 1 .. (Len(r) - 1) : calls'[i] = r[i]
  BY <1>2, <1>4, <1>5, TopReplaced DEF Replaced
<1> QED  BY <1>1, <1>2, <1>3, <1>6 DEF Returned

-----------------------------------------------------------------------------
(* What the actions do to the call stack.                                    *)

\* processEvent() begins.
EventPushed(e) == \E how, saved : Pushed(EventFrame(e, how, saved))

LEMMA PushEventPushes ==
    ASSUME ToolsTypeOK, NEW e \in Event, NEW how \in {"process", "invoke", "action", "sync", "queued"},
           calls' = PushEvent(calls, e, how)
    PROVE  EventPushed(e)
<1>1. activeState \in Tool \cup {None}
  BY DEF ToolsTypeOK
<1>2. EventFrame(e, how, activeState) \in AnyFrame
  BY <1>1, NewEventFrame DEF AnyFrame
<1>3. Pushed(EventFrame(e, how, activeState))
  BY <1>2, Push DEF PushEvent
<1> QED  BY <1>3 DEF EventPushed

LEMMA UserEventPushes ==
    ASSUME ToolsTypeOK, UserEvent
    PROVE  \E e \in Event : e.type # "activate" /\ EventPushed(e)
  BY PushEventPushes DEF UserEvent

LEMMA RunNowPushes ==
    ASSUME ToolsTypeOK, RunNow
    PROVE  \E e \in Event : e.type # "activate" /\ EventPushed(e)
  BY PushEventPushes DEF RunNow

LEMMA ProcessQueuedPushes ==
    ASSUME ToolsTypeOK, ProcessQueued
    PROVE  Head(queue) \in Event /\ EventPushed(Head(queue))
<1>1. Head(queue) \in Event
  BY DEF ToolsTypeOK, ProcessQueued
<1> QED  BY <1>1, PushEventPushes DEF ProcessQueued

\* dispatchInternal() or processEvent() goes on.
MovedOn(pc) ==
    /\ calls # << >> /\ Top \in EventFrames
    /\ Changed([Top EXCEPT !.pc = pc])

LEMMA TopEvent ==
    ASSUME ToolsTypeOK, NEW pc, InEvent(pc)
    PROVE  calls # << >> /\ Top \in EventFrames /\ Top = calls[Len(calls)] /\ Top.pc = pc
  BY TopFrame, FrameKinds DEF InEvent

LEMMA TopBody ==
    ASSUME ToolsTypeOK, InBody
    PROVE  calls # << >> /\ Top \in BodyFrames /\ Top = calls[Len(calls)]
  BY TopFrame, FrameKinds DEF InBody

LEMMA NobodyWaitsMoves ==
    ASSUME ToolsTypeOK, NobodyWaits
    PROVE  MovedOn("starts")
<1>1. calls # << >> /\ Top \in EventFrames
  BY TopEvent DEF NobodyWaits
<1>2. [Top EXCEPT !.pc = "starts"] \in AnyFrame
  BY <1>1 DEF EventFrames, AnyFrame
<1> QED  BY <1>1, <1>2, Change DEF NobodyWaits, MovedOn

LEMMA NobodyStartsMoves ==
    ASSUME ToolsTypeOK, NobodyStarts
    PROVE  MovedOn(AfterDispatch(Top.event))
<1>1. calls # << >> /\ Top \in EventFrames
  BY TopEvent DEF NobodyStarts
<1>2. [Top EXCEPT !.pc = AfterDispatch(Top.event)] \in AnyFrame
  BY <1>1 DEF EventFrames, AnyFrame, AfterDispatch
<1> QED  BY <1>1, <1>2, Change DEF NobodyStarts, MovedOn

\* A handler is woken up, or starts.
WakingFrame(i, t, co) ==
    [Top EXCEPT !.at = i, !.woken = @ \cup {<<t, co>>}, !.again = @ \/ <<t, co>> \in Top.woken]

LEMMA WakingPushes ==
    ASSUME ToolsTypeOK, InEvent("tools"), NEW i \in DOMAIN active,
           NEW t \in Tool, NEW co \in 1 .. MaxContexts,
           calls' = Append(WithTop(WakingFrame(i, t, co)), Body(t, co, FALSE, TRUE))
    PROVE  /\ WakingFrame(i, t, co) \in EventFrames
           /\ ChangedAndPushed(WakingFrame(i, t, co), Body(t, co, FALSE, TRUE))
<1>1. calls # << >> /\ Top \in EventFrames
  BY TopEvent
<1>2. <<t, co>> \in Coroutine /\ i \in Nat
  BY DEF Coroutine, ToolsTypeOK
<1>3. Top.again \in BOOLEAN /\ Top.woken \in SUBSET Coroutine
  BY <1>1 DEF EventFrames
<1> DEFINE again == Top.again \/ <<t, co>> \in Top.woken
           woken == Top.woken \cup {<<t, co>>}
           f == [Top EXCEPT !.at = i, !.woken = woken, !.again = again]
<1>4. again \in BOOLEAN
  BY <1>3
<1>5. woken \in SUBSET Coroutine
  BY <1>2, <1>3
<1>6. f = WakingFrame(i, t, co)
  BY DEF WakingFrame
<1>7. f \in EventFrames
  <2> HIDE DEF again, woken
  <2> QED  BY <1>1, <1>2, <1>4, <1>5 DEF EventFrames
<1> HIDE DEF f
<1>8. Body(t, co, FALSE, TRUE) \in AnyFrame /\ f \in AnyFrame
  BY <1>7, NewBody DEF AnyFrame
<1>9. ChangedAndPushed(f, Body(t, co, FALSE, TRUE))
  BY <1>1, <1>6, <1>8, ChangeAndPush
<1> QED  BY <1>6, <1>7, <1>9

StartingFrame(t, sync) ==
    [Top EXCEPT !.sync = sync, !.rest = IF Top.event.type = "message" THEN @ \ {t} ELSE {}]
StartingBody(t) == Body(t, NextContext(t), Top.event.type # "activate", FALSE)

LEMMA StartingPushes ==
    ASSUME ToolsTypeOK, InEvent("starts"), NEW t \in Tool, NextContext(t) \in 1 .. MaxContexts,
           NEW sync \in {None, <<t, NextContext(t)>>},
           calls' = Append(WithTop(StartingFrame(t, sync)), StartingBody(t))
    PROVE  /\ StartingFrame(t, sync) \in EventFrames
           /\ ChangedAndPushed(StartingFrame(t, sync), StartingBody(t))
<1>1. calls # << >> /\ Top \in EventFrames
  BY TopEvent
<1>2. sync \in Coroutine \cup {None}
  BY DEF Coroutine
<1>3. (IF Top.event.type = "message" THEN Top.rest \ {t} ELSE {}) \in SUBSET Tool
  BY <1>1 DEF EventFrames
<1>4. StartingFrame(t, sync) \in EventFrames
  <2> DEFINE rest == IF Top.event.type = "message" THEN Top.rest \ {t} ELSE {}
  <2>1. StartingFrame(t, sync) = [Top EXCEPT !.sync = sync, !.rest = rest]
    BY DEF StartingFrame
  <2>2. rest \in SUBSET Tool
    BY <1>3
  <2> HIDE DEF rest
  <2> QED  BY <1>1, <1>2, <2>1, <2>2 DEF EventFrames
<1>5. StartingBody(t) \in AnyFrame /\ StartingFrame(t, sync) \in AnyFrame
  <2>1. (Top.event.type # "activate") \in BOOLEAN
    OBVIOUS
  <2> QED  BY <1>4, <2>1, NewBody DEF AnyFrame, StartingBody
<1> QED  BY <1>1, <1>4, <1>5, ChangeAndPush

\* Activate(): the activation is dispatched at once.
ActivatingBody == [Top EXCEPT !.fresh = FALSE]
Activation(t) == [type |-> "activate", tool |-> t]

LEMMA ActivatePushes ==
    ASSUME ToolsTypeOK, Activate
    PROVE  /\ Top \in BodyFrames /\ Activation(Top.tool) \in Event
           /\ \E how, saved :
                /\ EventFrame(Activation(Top.tool), how, saved) \in EventFrames
                /\ ChangedAndPushed(ActivatingBody, EventFrame(Activation(Top.tool), how, saved))
<1>1. calls # << >> /\ Top \in BodyFrames
  BY TopBody DEF Activate
<1>2. Activation(Top.tool) \in Event /\ activeState \in Tool \cup {None}
  BY <1>1 DEF BodyFrames, Event, Activation, ToolsTypeOK
<1>3. EventFrame(Activation(Top.tool), "invoke", activeState) \in EventFrames
  BY <1>2, NewEventFrame
<1>4. ActivatingBody \in AnyFrame
  BY <1>1 DEF BodyFrames, AnyFrame, ActivatingBody
<1>5. calls' = Append(WithTop(ActivatingBody), EventFrame(Activation(Top.tool), "invoke", activeState))
  BY DEF Activate, PushEvent, ActivatingBody, Activation
<1>6. ChangedAndPushed(ActivatingBody, EventFrame(Activation(Top.tool), "invoke", activeState))
  BY <1>1, <1>3, <1>4, <1>5, ChangeAndPush DEF AnyFrame
<1> QED  BY <1>1, <1>2, <1>3, <1>6

\* The handler waits.
LEMMA ResumedType ==
    ASSUME NEW f \in AnyFrame, NEW at \in Nat, NEW pass
    PROVE  /\ Resumed(f, at, pass) \in AnyFrame
           /\ f.kind # "event" => Resumed(f, at, pass) = f
<1>1. CASE f.kind = "event"
  <2>1. f \in EventFrames
    BY <1>1, FrameKinds
  <2>2. [f EXCEPT !.at = at] \in EventFrames /\ [f EXCEPT !.pc = AfterDispatch(f.event)] \in EventFrames
    BY <2>1 DEF EventFrames, AfterDispatch
  <2> QED  BY <1>1, <2>2 DEF Resumed, AnyFrame
<1> QED  BY <1>1 DEF Resumed

WaitingFrame(pass) == IF Below.kind = "event" THEN Resumed(Below, Below.at + 1, pass) ELSE Below

LEMMA WaitReturns ==
    ASSUME ToolsTypeOK, Wait, Len(calls) > 1
    PROVE  \E pass \in BOOLEAN :
             /\ Returned(WaitingFrame(pass))
             /\ state' = [state EXCEPT ![Top.tool].waiting = TRUE, ![Top.tool].pass = pass]
<1>1. calls # << >> /\ Top \in BodyFrames /\ Len(calls) \in Nat /\ Len(calls) > 1
  BY TopBody, TopFrame DEF Wait
<1>2. Below \in AnyFrame
  BY <1>1, TopFrame DEF Below
<1>3. Top.tool \in Tool
  BY <1>1 DEF BodyFrames
<1>4. state[Top.tool] \in Context
  BY <1>3 DEF ToolsTypeOK
<1>5. Flags \subseteq BOOLEAN
  BY <1>4 DEF Flags, Context
<1>6. PICK pass \in Flags :
        /\ state' = [state EXCEPT ![Top.tool].waiting = TRUE, ![Top.tool].pass = pass]
        /\ calls' = Append(Front(Front(calls)), WaitingFrame(pass))
  BY DEF Wait, WaitingFrame
<1>7. WaitingFrame(pass) \in AnyFrame
  <2>1. CASE Below.kind = "event"
    <3>1. Below.at + 1 \in Nat
      BY <1>2, <2>1, FrameKinds DEF EventFrames
    <3> QED  BY <1>2, <2>1, <3>1, ResumedType DEF WaitingFrame
  <2> QED  BY <1>2, <2>1 DEF WaitingFrame
<1>8. Returned(WaitingFrame(pass))
  BY <1>1, <1>6, <1>7, Return
<1> QED  BY <1>5, <1>6, <1>8

\* Iterators that move, and doRunAction() that need not wait any more.
ShiftedAt(f) ==
    IF f.kind = "event" /\ f.pc = "tools" /\ f.at # Erased THEN [f EXCEPT !.at = @ + 1] ELSE f
ClosedAt(f, k) ==
    IF f.kind = "event" /\ f.pc = "tools"
    THEN [f EXCEPT !.at = IF @ = k THEN Erased ELSE IF @ > k THEN @ - 1 ELSE @] ELSE f
Unsynced(f, co) ==
    IF f.kind = "event" /\ f.sync = co THEN [f EXCEPT !.sync = None] ELSE f

IsShifted(s, r) ==
    /\ r \in Seq(AnyFrame) /\ Len(r) = Len(s) /\ \A i \in 1 .. Len(s) : r[i] = ShiftedAt(s[i])
IsClosed(s, k, r) ==
    /\ r \in Seq(AnyFrame) /\ Len(r) = Len(s) /\ \A i \in 1 .. Len(s) : r[i] = ClosedAt(s[i], k)
IsUnsynced(s, co, r) ==
    /\ r \in Seq(AnyFrame) /\ Len(r) = Len(s) /\ \A i \in 1 .. Len(s) : r[i] = Unsynced(s[i], co)

LEMMA FramesMoved ==
    ASSUME NEW f \in AnyFrame
    PROVE  /\ ShiftedAt(f) \in AnyFrame
           /\ \A k \in Nat : ClosedAt(f, k) \in AnyFrame
           /\ \A co : Unsynced(f, co) \in AnyFrame
<1>1. CASE f.kind = "event"
  <2>1. f \in EventFrames /\ f.at \in Nat
    BY <1>1, FrameKinds DEF EventFrames
  <2>2. [f EXCEPT !.at = @ + 1] \in EventFrames /\ [f EXCEPT !.sync = None] \in EventFrames
    BY <2>1 DEF EventFrames
  <2>3. ASSUME NEW k \in Nat  PROVE ClosedAt(f, k) \in AnyFrame
    <3> DEFINE at == IF f.at = k THEN Erased ELSE IF f.at > k THEN f.at - 1 ELSE f.at
    <3>1. at \in Nat
      BY <2>1 DEF Erased
    <3>2. [f EXCEPT !.at = at] \in EventFrames
      <4> HIDE DEF at
      <4> QED  BY <2>1, <3>1 DEF EventFrames
    <3> QED  BY <2>1, <3>2 DEF ClosedAt, AnyFrame
  <2> QED  BY <2>1, <2>2, <2>3 DEF ShiftedAt, Unsynced, AnyFrame
<1> QED  BY <1>1 DEF ShiftedAt, ClosedAt, Unsynced

LEMMA ShiftedFrames ==
    ASSUME NEW s \in Seq(AnyFrame)
    PROVE  IsShifted(s, Shifted(s))
<1>1. Shifted(s) = [i \in 1 .. Len(s) |-> ShiftedAt(s[i])]
  BY DEF Shifted, ShiftedAt
<1>2. \A i \in 1 .. Len(s) : ShiftedAt(s[i]) \in AnyFrame
  BY FramesMoved
<1>3. Len(s) \in Nat
  OBVIOUS
<1> QED  BY <1>1, <1>2, <1>3, TableType DEF IsShifted

LEMMA ClosedFrames ==
    ASSUME NEW s \in Seq(AnyFrame), NEW k \in Nat
    PROVE  IsClosed(s, k, Closed(s, k))
<1>1. Closed(s, k) = [i \in 1 .. Len(s) |-> ClosedAt(s[i], k)]
  BY DEF Closed, ClosedAt
<1>2. \A i \in 1 .. Len(s) : ClosedAt(s[i], k) \in AnyFrame
  <2> TAKE i \in 1 .. Len(s)
  <2>1. s[i] \in AnyFrame
    OBVIOUS
  <2> QED  BY <2>1, FramesMoved
<1>3. Len(s) \in Nat
  OBVIOUS
<1> QED  BY <1>1, <1>2, <1>3, TableType DEF IsClosed

LEMMA UnsyncedFrames ==
    ASSUME NEW s \in Seq(AnyFrame), NEW co
    PROVE  IsUnsynced(s, co, NoSync(s, co))
<1>1. NoSync(s, co) = [i \in 1 .. Len(s) |-> Unsynced(s[i], co)]
  BY DEF NoSync, Unsynced
<1>2. \A i \in 1 .. Len(s) : Unsynced(s[i], co) \in AnyFrame
  <2> TAKE i \in 1 .. Len(s)
  <2>1. s[i] \in AnyFrame
    OBVIOUS
  <2> QED  BY <2>1, FramesMoved
<1>3. Len(s) \in Nat
  OBVIOUS
<1> QED  BY <1>1, <1>2, <1>3, TableType DEF IsUnsynced

\* runTool(): the tool's node is put at the front of the list.
Again(t) == t \in ToSet(active) /\ Len(active) > 1
MovedTo(f, t) ==
    IF Again(t)
    THEN IF FirstIndex(t) = 1 THEN f ELSE ShiftedAt(ClosedAt(f, FirstIndex(t)))
    ELSE ShiftedAt(f)

LEMMA FirstIndexIs ==
    ASSUME ToolsTypeOK, NEW t \in ToSet(active)
    PROVE  /\ FirstIndex(t) \in DOMAIN active /\ FirstIndex(t) \in Nat \ {0}
           /\ active[FirstIndex(t)] = t
           /\ \A j \in 1 .. (FirstIndex(t) - 1) : active[j] # t
<1> DEFINE S == {i \in DOMAIN active : active[i] = t}
<1>1. DOMAIN active = 1 .. Len(active) /\ Len(active) \in Nat
  BY DEF ToolsTypeOK
<1>2. PICK i \in DOMAIN active : active[i] = t
  BY DEF ToSet
<1>3. S \in SUBSET Nat /\ i \in S
  BY <1>1, <1>2
<1>4. PICK m \in S : \A j \in S : m <= j
  <2> HIDE DEF S
  <2> QED  BY <1>3, SmallestNat
<1>5. m \in DOMAIN active /\ active[m] = t /\ \A j \in 1 .. (m - 1) : active[j] # t
  <2>1. m \in DOMAIN active /\ active[m] = t /\ m \in 1 .. Len(active)
    BY <1>1, <1>4
  <2>2. ASSUME NEW j \in 1 .. (m - 1)  PROVE active[j] # t
    <3>1. j \in DOMAIN active /\ ~(m <= j)
      BY <1>1, <2>1
    <3> QED  BY <1>4, <3>1
  <2> QED  BY <2>1, <2>2
<1>6. /\ FirstIndex(t) \in DOMAIN active /\ active[FirstIndex(t)] = t
      /\ \A j \in 1 .. (FirstIndex(t) - 1) : active[j] # t
  BY <1>5 DEF FirstIndex
<1> QED  BY <1>1, <1>6

LEMMA RunToolMoves ==
    ASSUME ToolsTypeOK, RunTool
    PROVE  /\ calls # << >> /\ Top \in EventFrames
           /\ calls' \in Seq(AnyFrame) /\ Len(calls') = Len(calls)
           /\ calls'[Len(calls)] = [Top EXCEPT !.pc = "queue"]
           /\ \A i \in 1 .. (Len(calls) - 1) : calls'[i] = MovedTo(calls[i], Top.event.tool)
<1> DEFINE t == Top.event.tool
           f == [Top EXCEPT !.pc = "queue"]
           next == WithTop(f)
           k == FirstIndex(t)
<1>1. calls # << >> /\ Top \in EventFrames
  BY TopEvent DEF RunTool
<1>2. f \in AnyFrame /\ f.kind = "event" /\ f.pc = "queue"
  BY <1>1 DEF EventFrames, AnyFrame
<1>3. Replaced(AnyFrame, calls, f, next)
  <2>1. calls \in Seq(AnyFrame)
    BY <1>1, TopFrame
  <2> HIDE DEF f
  <2> QED  BY <1>1, <1>2, <2>1, TopReplaced DEF WithTop
<1>4. calls' = IF Again(t) THEN IF k = 1 THEN next ELSE Shifted(Closed(next, k)) ELSE Shifted(next)
  BY DEF RunTool, Again
<1>5. Len(calls) \in Nat \ {0}
  BY <1>1, TopFrame
<1> HIDE DEF f, next
<1>6. next \in Seq(AnyFrame) /\ Len(next) = Len(calls) /\ next[Len(calls)] = f
      /\ \A i \in 1 .. (Len(calls) - 1) : next[i] = calls[i]
  BY <1>3 DEF Replaced
<1>7. ShiftedAt(f) = f /\ \A m : ClosedAt(f, m) = f
  BY <1>2 DEF ShiftedAt, ClosedAt
<1>8. CASE Again(t) /\ k = 1
  BY <1>1, <1>4, <1>5, <1>6, <1>8 DEF MovedTo, f
<1>9. CASE Again(t) /\ k # 1
  <2>1. k \in Nat
    BY <1>9, FirstIndexIs DEF Again
  <2> DEFINE closed == Closed(next, k)
  <2>2. IsClosed(next, k, closed)
    BY <1>6, <2>1, ClosedFrames
  <2>3. closed \in Seq(AnyFrame)
    BY <2>2 DEF IsClosed
  <2>4. IsShifted(closed, Shifted(closed))
    BY <2>3, ShiftedFrames
  <2> HIDE DEF closed, k, t
  <2>5. calls' = Shifted(closed)
    BY <1>4, <1>9 DEF closed
  <2>6. /\ calls' \in Seq(AnyFrame) /\ Len(calls') = Len(calls)
        /\ \A i \in 1 .. Len(calls) : calls'[i] = ShiftedAt(ClosedAt(next[i], k))
    BY <1>5, <1>6, <2>2, <2>4, <2>5 DEF IsClosed, IsShifted
  <2>7. calls'[Len(calls)] = f
    BY <1>5, <1>6, <1>7, <2>6
  <2>8. \A i \in 1 .. (Len(calls) - 1) : calls'[i] = ShiftedAt(ClosedAt(calls[i], k))
    BY <1>5, <1>6, <2>6
  <2>9. \A g : MovedTo(g, t) = ShiftedAt(ClosedAt(g, k))
    BY <1>9 DEF MovedTo, k
  <2> QED  BY <1>1, <2>6, <2>7, <2>8, <2>9 DEF f, t
<1>10. CASE ~Again(t)
  <2>1. calls' = Shifted(next)
    BY <1>4, <1>10
  <2>2. IsShifted(next, calls')
    BY <1>6, <2>1, ShiftedFrames
  <2> HIDE DEF t
  <2>3. /\ calls' \in Seq(AnyFrame) /\ Len(calls') = Len(calls)
        /\ \A i \in 1 .. Len(calls) : calls'[i] = ShiftedAt(next[i])
    BY <1>6, <2>2 DEF IsShifted
  <2>4. \A g : MovedTo(g, t) = ShiftedAt(g)
    BY <1>10 DEF MovedTo
  <2> QED  BY <1>1, <1>5, <1>6, <1>7, <2>3, <2>4 DEF f, t
<1> QED  BY <1>8, <1>9, <1>10

\* finishTool(): where dispatchInternal() goes on, and what is left on the stack.
PlaceAfter(t) == IF t \in ToSet(active) THEN FirstIndex(t) ELSE Len(active) + 1
LeftBelow(f, t, co) ==
    IF TakenOff(t) THEN ClosedAt(Unsynced(f, <<t, co>>), PlaceAfter(t)) ELSE Unsynced(f, <<t, co>>)

LEMMA PlaceIsNat ==
    ASSUME ToolsTypeOK, NEW t
    PROVE  PlaceAfter(t) \in Nat \ {0}
<1>1. Len(active) \in Nat
  BY DEF ToolsTypeOK
<1> QED  BY <1>1, FirstIndexIs DEF PlaceAfter

LEMMA PoppedType ==
    ASSUME ToolsTypeOK, NEW t \in Tool, NEW pass \in BOOLEAN
    PROVE  Popped(t, pass) \in Context
<1>1. state[t] \in Context /\ stack[t] \in Seq(Context)
  BY DEF ToolsTypeOK
<1>2. CASE stack[t] = << >>
  <2>1. 0 \in 0 .. MaxContexts
    BY ToolManagerAssumption
  <2>2. [state[t] EXCEPT !.co = 0, !.ready = TRUE, !.pass = pass] \in Context
    BY <1>1, <2>1 DEF Context
  <2> QED  BY <1>2, <2>2 DEF Popped
<1>3. CASE stack[t] # << >>
  <2>1. Last(stack[t]) \in Context
    BY <1>1, <1>3, FrontLast
  <2> QED  BY <1>3, <2>1 DEF Popped, Context
<1> QED  BY <1>2, <1>3

FinishReturns(t, co, pass) ==
    /\ calls' \in Seq(AnyFrame) /\ Len(calls') = Len(calls) - 1
    /\ calls'[Len(calls) - 1] =
            Resumed(Unsynced(Below, <<t, co>>), PlaceAfter(t), Popped(t, pass).pass)
    /\ \A i \in 1 .. (Len(calls) - 2) : calls'[i] = LeftBelow(calls[i], t, co)

LEMMA FinishEffect ==
    ASSUME ToolsTypeOK, Finish, Len(calls) > 1
    PROVE  \E pass \in BOOLEAN :
             /\ FinishReturns(Top.tool, Top.co, pass)
             /\ state' = [state EXCEPT ![Top.tool] = Popped(Top.tool, pass)]
<1> DEFINE t == Top.tool
           co == Top.co
           k == PlaceAfter(t)
           front == Front(calls)
           frames == NoSync(front, <<t, co>>)
<1>1. calls # << >> /\ Top \in BodyFrames /\ Len(calls) \in Nat /\ Len(calls) > 1
  BY TopBody, TopFrame DEF Finish
<1>2. t \in Tool /\ k \in Nat
  BY <1>1, PlaceIsNat DEF BodyFrames
<1>3. Flags \subseteq BOOLEAN
  <2>1. state[t] \in Context
    BY <1>2 DEF ToolsTypeOK
  <2> QED  BY <2>1 DEF Flags, Context
<1>4. PICK pass \in Flags :
        /\ state' = [state EXCEPT ![t] = Popped(t, pass)]
        /\ calls' = Append(IF TakenOff(t) THEN Closed(Front(frames), k) ELSE Front(frames),
                           Resumed(Last(frames), k, Popped(t, pass).pass))
  BY DEF Finish, PlaceAfter
<1>5. front \in Seq(AnyFrame) /\ Len(front) = Len(calls) - 1
  BY <1>1, TopFrame, FrontLast
<1>6. \A i \in 1 .. (Len(calls) - 1) : front[i] = calls[i]
  BY <1>1, TopFrame, FrontAt
<1>7. IsUnsynced(front, <<t, co>>, frames)
  BY <1>5, UnsyncedFrames
<1> DEFINE pc == <<t, co>>
           rest == Front(frames)
           f == Resumed(Last(frames), k, Popped(t, pass).pass)
<1> HIDE DEF frames, front, k
<1>8. /\ frames \in Seq(AnyFrame) /\ Len(frames) = Len(calls) - 1
      /\ \A i \in 1 .. (Len(calls) - 1) : frames[i] = Unsynced(calls[i], pc)
  BY <1>5, <1>6, <1>7 DEF IsUnsynced
<1>9. frames # << >>
  BY <1>1, <1>8, EmptySeq
<1>10. Last(frames) = Unsynced(Below, pc) /\ Last(frames) \in AnyFrame
  <2>1. Last(frames) = frames[Len(calls) - 1] /\ Last(frames) \in AnyFrame
    BY <1>8, <1>9, FrontLast DEF Last
  <2>2. Below = calls[Len(calls) - 1] /\ Len(calls) - 1 \in 1 .. (Len(calls) - 1)
    BY <1>1 DEF Below
  <2> QED  BY <1>8, <2>1, <2>2
<1>11. rest \in Seq(AnyFrame) /\ Len(rest) = Len(calls) - 2
  <2>1. Front(frames) \in Seq(AnyFrame) /\ Len(Front(frames)) = Len(frames) - 1
    BY <1>8, <1>9, FrontLast
  <2> QED  BY <1>1, <1>8, <2>1
<1>12. \A i \in 1 .. (Len(calls) - 2) : rest[i] = Unsynced(calls[i], pc)
  <2> TAKE i \in 1 .. (Len(calls) - 2)
  <2>1. i \in 1 .. (Len(frames) - 1) /\ i \in 1 .. (Len(calls) - 1)
    BY <1>1, <1>8
  <2>2. rest[i] = frames[i]
    BY <1>8, <1>9, <2>1, FrontAt
  <2> QED  BY <1>8, <2>1, <2>2
<1>13. f \in AnyFrame
  BY <1>2, <1>10, ResumedType
<1> HIDE DEF rest, pc, f
<1>14. ASSUME NEW r, r \in Seq(AnyFrame), Len(r) = Len(rest), calls' = Append(r, f)
       PROVE  /\ calls' \in Seq(AnyFrame) /\ Len(calls') = Len(calls) - 1
              /\ calls'[Len(calls) - 1] = f
              /\ \A i \in 1 .. (Len(calls) - 2) : calls'[i] = r[i]
  BY <1>1, <1>11, <1>13, <1>14
<1>15. CASE TakenOff(t)
  <2> DEFINE r == Closed(rest, k)
  <2>1. IsClosed(rest, k, r)
    BY <1>2, <1>11, ClosedFrames
  <2>2. calls' = Append(r, f)
    BY <1>4, <1>15 DEF rest, f
  <2> HIDE DEF r
  <2>3. r \in Seq(AnyFrame) /\ Len(r) = Len(rest)
    BY <2>1 DEF IsClosed
  <2>4. \A i \in 1 .. (Len(calls) - 2) : r[i] = ClosedAt(Unsynced(calls[i], pc), k)
    BY <1>11, <1>12, <2>1 DEF IsClosed
  <2>5. \A i \in 1 .. (Len(calls) - 2) : calls'[i] = LeftBelow(calls[i], t, co)
    BY <1>14, <1>15, <2>2, <2>3, <2>4 DEF LeftBelow, pc, k
  <2> QED  BY <1>3, <1>4, <1>10, <1>14, <2>2, <2>3, <2>5 DEF FinishReturns, f, pc, k
<1>16. CASE ~TakenOff(t)
  <2>2. calls' = Append(rest, f)
    BY <1>4, <1>16 DEF rest, f
  <2>5. \A i \in 1 .. (Len(calls) - 2) : calls'[i] = LeftBelow(calls[i], t, co)
    BY <1>11, <1>12, <1>14, <1>16, <2>2 DEF LeftBelow, pc
  <2> QED  BY <1>3, <1>4, <1>10, <1>11, <1>14, <2>2, <2>5 DEF FinishReturns, f, pc, k
<1> QED  BY <1>15, <1>16

-----------------------------------------------------------------------------
(* Contexts and coroutines.                                                  *)

\* The shape of the call stack: a handler is on top of what dispatched to it, and
\* dispatchInternal() has only a handler that it woke up on top of it; runTool() is
\* called for activations.
Activates(f) == f.kind = "event" /\ f.pc = "activate" => f.event.type = "activate"
FramesChained ==
    \A i \in DOMAIN calls :
        /\ Activates(calls[i])
        /\ calls[i].kind = "body" => i > 1 /\ calls[i - 1].kind # "body"
        /\ calls[i].kind = "shutdown" => i = 1
        /\ calls[i].kind = "event" /\ calls[i].pc = "tools" /\ i # Len(calls) => calls[i + 1].kind = "body"

ContextsCounted ==
    \A t \in Tool : state[t].co = Len(stack[t]) + 1 \/ (state[t].co = 0 /\ stack[t] = << >>)
CurrentRunsOrWaits ==
    \A t \in Tool : \A c \in Nat :
        c = state[t].co => (state[t].waiting <=> c # 0 /\ ~OnCallStack(t, c))
OthersRunOrWait ==
    \A t \in Tool : \A k \in DOMAIN stack[t] :
        stack[t][k].co = k /\ (stack[t][k].waiting <=> ~OnCallStack(t, k))
\* The handlers of a tool are on the call stack in the order of their contexts,
\* and with one of them all that were started later.
HandlersOrdered ==
    \A i, j \in Bodies : calls[i].tool = calls[j].tool /\ i < j => calls[i].co < calls[j].co
LaterOnesRun ==
    \A t \in Tool : \A c \in 1 .. MaxContexts : OnCallStack(t, c) =>
        c <= state[t].co /\ \A k \in c .. state[t].co : OnCallStack(t, k)
ContextsAgree ==
    /\ ContextsCounted /\ CurrentRunsOrWaits /\ OthersRunOrWait
    /\ HandlersOrdered /\ LaterOnesRun

\* Bodies and contexts have these types.
LEMMA BodyTypes ==
    ASSUME ToolsTypeOK, NEW i \in Bodies
    PROVE  /\ i \in 1 .. Len(calls) /\ i \in Nat /\ Len(calls) \in Nat
           /\ calls[i].tool \in Tool /\ calls[i].co \in 1 .. MaxContexts /\ calls[i].co \in Nat
           /\ calls[i] \in BodyFrames
<1>1. calls[i] \in AnyFrame /\ calls[i].kind = "body" /\ i \in 1 .. Len(calls) /\ Len(calls) \in Nat
  BY DEF Bodies, ToolsTypeOK, AnyFrame
<1>2. calls[i] \in BodyFrames
  BY <1>1, FrameKinds
<1> QED  BY <1>1, <1>2, ToolManagerAssumption DEF BodyFrames

LEMMA ContextTypes ==
    ASSUME ToolsTypeOK, NEW t \in Tool
    PROVE  /\ state[t] \in Context /\ state[t].co \in 0 .. MaxContexts /\ state[t].co \in Nat
           /\ state[t].waiting \in BOOLEAN
           /\ stack[t] \in Seq(Context) /\ Len(stack[t]) \in Nat /\ DOMAIN stack[t] = 1 .. Len(stack[t])
           /\ \A k \in DOMAIN stack[t] : stack[t][k] \in Context
<1>1. state[t] \in Context /\ stack[t] \in Seq(Context)
  BY DEF ToolsTypeOK
<1>2. state[t].co \in 0 .. MaxContexts /\ state[t].waiting \in BOOLEAN
  BY <1>1 DEF Context
<1>3. state[t].co \in Nat
  BY <1>2, ToolManagerAssumption
<1> QED  BY <1>1, <1>2, <1>3

\* No handler of its tool runs if the current one waits.
LEMMA WaitingAlone ==
    ASSUME ToolsTypeOK, ContextsAgree, NEW t \in Tool, state[t].waiting
    PROVE  /\ state[t].co \in 1 .. MaxContexts
           /\ \A i \in Bodies : calls[i].tool # t
<1>1. state[t].co \in 1 .. MaxContexts
  BY ContextTypes, ToolManagerAssumption DEF ContextsAgree, CurrentRunsOrWaits
<1>2. ASSUME NEW i \in Bodies, calls[i].tool = t  PROVE FALSE
  <2>1. calls[i].co \in 1 .. MaxContexts /\ calls[i].co \in Nat /\ state[t].co \in Nat
    BY BodyTypes, ContextTypes
  <2>2. OnCallStack(t, calls[i].co)
    BY <1>2 DEF OnCallStack
  <2>3. OnCallStack(t, state[t].co)
    BY <2>1, <2>2 DEF ContextsAgree, LaterOnesRun
  <2> QED  BY <2>1, <2>3 DEF ContextsAgree, CurrentRunsOrWaits
<1> QED  BY <1>1, <1>2

\* The running handler is its tool's current one.
LEMMA RunningIsCurrent ==
    ASSUME ToolsTypeOK, ContextsAgree, InBody
    PROVE  /\ Len(calls) \in Bodies /\ Top.tool \in Tool
           /\ Top.co = state[Top.tool].co /\ Top.co \in 1 .. MaxContexts /\ Top.co \in Nat
<1>1. Len(calls) \in Bodies /\ Top = calls[Len(calls)]
  BY TopFrame DEF InBody, Bodies
<1>2. Top.tool \in Tool /\ Top.co \in 1 .. MaxContexts /\ Top.co \in Nat
  BY <1>1, BodyTypes
<1>3. state[Top.tool].co \in Nat /\ OnCallStack(Top.tool, Top.co)
  BY <1>1, <1>2, ContextTypes DEF OnCallStack
<1>4. Top.co <= state[Top.tool].co /\ OnCallStack(Top.tool, state[Top.tool].co)
  BY <1>2, <1>3 DEF ContextsAgree, LaterOnesRun
<1>5. PICK i \in Bodies : calls[i].tool = Top.tool /\ calls[i].co = state[Top.tool].co
  BY <1>4 DEF OnCallStack
<1>6. i \in Nat /\ i <= Len(calls) /\ Len(calls) \in Nat /\ calls[i].co \in Nat
  BY <1>5, BodyTypes
<1>7. i < Len(calls) => calls[i].co < Top.co
  BY <1>1, <1>5 DEF ContextsAgree, HandlersOrdered
<1>8. Top.co = state[Top.tool].co
  BY <1>1, <1>2, <1>3, <1>4, <1>5, <1>6, <1>7
<1> QED  BY <1>1, <1>2, <1>8

\* A handler that runs is once on the call stack.
LEMMA HandlersOnce ==
    ASSUME ToolsTypeOK, ContextsAgree, NEW i \in Bodies, NEW j \in Bodies,
           calls[i].tool = calls[j].tool, calls[i].co = calls[j].co
    PROVE  i = j
<1>1. i \in Nat /\ j \in Nat /\ calls[i].co \in Nat
  BY BodyTypes
<1>2. ~(i < j) /\ ~(j < i)
  BY <1>1 DEF ContextsAgree, HandlersOrdered
<1> QED  BY <1>1, <1>2

LEMMA AgreeingContexts ==
    ASSUME ToolsTypeOK, ContextsAgree
    PROVE  CoroutineRunsOrWaits
<1>1. \A i, j \in Bodies : calls[i].tool = calls[j].tool /\ calls[i].co = calls[j].co => i = j
  BY HandlersOnce
<1>2. InBody => Top.co = state[Top.tool].co
  BY RunningIsCurrent
<1>3. \A t \in Tool : state[t].waiting <=> state[t].co # 0 /\ ~OnCallStack(t, state[t].co)
  BY ContextTypes DEF ContextsAgree, CurrentRunsOrWaits
<1> QED  BY <1>1, <1>2, <1>3
         DEF CoroutineRunsOrWaits, ContextsAgree, ContextsCounted, OthersRunOrWait

-----------------------------------------------------------------------------
(* What the actions do to the handlers on the call stack and to contexts.    *)

SameBodies ==
    /\ Bodies' = Bodies
    /\ \A i \in Bodies : calls'[i].tool = calls[i].tool /\ calls'[i].co = calls[i].co
SameContexts ==
    /\ stack' = stack
    /\ \A t \in Tool : state'[t].co = state[t].co /\ state'[t].waiting = state[t].waiting
BodyAdded(t, co) ==
    /\ Bodies' = Bodies \cup {Len(calls) + 1}
    /\ \A i \in Bodies : calls'[i].tool = calls[i].tool /\ calls'[i].co = calls[i].co
    /\ calls'[Len(calls) + 1].tool = t /\ calls'[Len(calls) + 1].co = co
BodyRemoved ==
    /\ Len(calls) \in Bodies /\ Bodies' = Bodies \ {Len(calls)}
    /\ \A i \in Bodies \ {Len(calls)} : calls'[i].tool = calls[i].tool /\ calls'[i].co = calls[i].co

LEMMA SameContextsAgree ==
    ASSUME ToolsTypeOK, ContextsAgree, SameBodies, SameContexts
    PROVE  ContextsAgree'
<1>1. \A t \in Tool : \A k : OnCallStack(t, k)' <=> OnCallStack(t, k)
  BY DEF OnCallStack, SameBodies
<1>2. ContextsCounted' /\ CurrentRunsOrWaits'
  BY <1>1 DEF ContextsAgree, ContextsCounted, CurrentRunsOrWaits, SameContexts
<1>3. OthersRunOrWait'
  BY <1>1 DEF ContextsAgree, OthersRunOrWait, SameContexts
<1>4. HandlersOrdered'
  BY DEF ContextsAgree, HandlersOrdered, SameBodies
<1>5. LaterOnesRun'
  BY <1>1 DEF ContextsAgree, LaterOnesRun, SameContexts
<1> QED  BY <1>2, <1>3, <1>4, <1>5 DEF ContextsAgree

LEMMA AddedOnCallStack ==
    ASSUME ToolsTypeOK, NEW t, NEW co, BodyAdded(t, co), NEW u, NEW k
    PROVE  OnCallStack(u, k)' <=> OnCallStack(u, k) \/ (u = t /\ k = co)
  BY DEF BodyAdded, OnCallStack

LEMMA RemovedOnCallStack ==
    ASSUME ToolsTypeOK, ContextsAgree, BodyRemoved, NEW u, NEW k
    PROVE  OnCallStack(u, k)' <=>
             OnCallStack(u, k) /\ ~(u = calls[Len(calls)].tool /\ k = calls[Len(calls)].co)
<1>1. \A i \in Bodies : calls[i].tool = calls[Len(calls)].tool /\ calls[i].co = calls[Len(calls)].co
                            => i = Len(calls)
  BY HandlersOnce DEF BodyRemoved
<1> QED  BY <1>1 DEF BodyRemoved, OnCallStack

LEMMA AddedOrdered ==
    ASSUME ToolsTypeOK, ContextsAgree, NEW t \in Tool, NEW co \in Nat, BodyAdded(t, co),
           \A i \in Bodies : calls[i].tool = t => calls[i].co < co
    PROVE  HandlersOrdered'
<1>1. Len(calls) \in Nat /\ \A i \in Bodies : i \in Nat /\ i <= Len(calls)
  BY BodyTypes DEF ToolsTypeOK
<1>2. SUFFICES ASSUME NEW i \in Bodies', NEW j \in Bodies', calls'[i].tool = calls'[j].tool, i < j
               PROVE  calls'[i].co < calls'[j].co
  BY DEF HandlersOrdered
<1>3. i \in Bodies
  BY <1>1, <1>2 DEF BodyAdded
<1>4. CASE j \in Bodies
  BY <1>2, <1>3, <1>4 DEF BodyAdded, ContextsAgree, HandlersOrdered
<1>5. CASE j = Len(calls) + 1
  BY <1>2, <1>3, <1>5 DEF BodyAdded
<1> QED  BY <1>4, <1>5 DEF BodyAdded

LEMMA RemovedOrdered ==
    ASSUME ContextsAgree, BodyRemoved
    PROVE  HandlersOrdered'
  BY DEF ContextsAgree, HandlersOrdered, BodyRemoved

\* The current handler of a tool is woken up.
LEMMA WokenAgree ==
    ASSUME ToolsTypeOK, ContextsAgree, NEW t \in Tool, state[t].waiting, BodyAdded(t, state[t].co),
           stack' = stack, state'[t].waiting = FALSE,
           \A u \in Tool : /\ state'[u].co = state[u].co
                           /\ u # t => state'[u].waiting = state[u].waiting
    PROVE  ContextsAgree'
<1>1. state[t].co \in 1 .. MaxContexts /\ state[t].co \in Nat /\ \A i \in Bodies : calls[i].tool # t
  BY WaitingAlone, ContextTypes
<1>2. \A u, k : OnCallStack(u, k)' <=> OnCallStack(u, k) \/ (u = t /\ k = state[t].co)
  BY AddedOnCallStack
<1>3. \A k : ~OnCallStack(t, k)
  BY <1>1 DEF OnCallStack
<1>4. ContextsCounted'
  BY DEF ContextsAgree, ContextsCounted
<1>5. CurrentRunsOrWaits'
  BY <1>1, <1>2 DEF ContextsAgree, CurrentRunsOrWaits
<1>6. OthersRunOrWait'
  <2>1. SUFFICES ASSUME NEW u \in Tool, NEW k \in DOMAIN stack[u]
                 PROVE  stack[u][k].co = k /\ (stack[u][k].waiting <=> ~OnCallStack(u, k)')
    BY DEF OthersRunOrWait
  <2>2. ~(u = t /\ k = state[t].co)
    <3>1. ASSUME u = t  PROVE state[t].co = Len(stack[t]) + 1
      BY <1>1 DEF ContextsAgree, ContextsCounted
    <3>2. k \in 1 .. Len(stack[u]) /\ Len(stack[u]) \in Nat
      BY ContextTypes
    <3> QED  BY <3>1, <3>2
  <2> QED  BY <1>2, <2>2 DEF ContextsAgree, OthersRunOrWait
<1>7. HandlersOrdered'
  BY <1>1, AddedOrdered
<1>8. LaterOnesRun'
  <2>1. SUFFICES ASSUME NEW u \in Tool, NEW c \in 1 .. MaxContexts, OnCallStack(u, c)'
                 PROVE  c <= state[u].co /\ \A k \in c .. state[u].co : OnCallStack(u, k)'
    BY DEF LaterOnesRun
  <2>2. CASE u # t
    BY <1>2, <2>1, <2>2 DEF ContextsAgree, LaterOnesRun
  <2>3. CASE u = t
    BY <1>1, <1>2, <1>3, <2>1, <2>3
  <2> QED  BY <2>2, <2>3
<1> QED  BY <1>4, <1>5, <1>6, <1>7, <1>8 DEF ContextsAgree

\* A handler starts in a context of its own.
LEMMA StartedAgree ==
    ASSUME ToolsTypeOK, ContextsAgree, NEW t \in Tool, StartContext(t), BodyAdded(t, NextContext(t))
    PROVE  ContextsAgree'
<1> DEFINE n == NextContext(t)
<1>1. /\ state[t].co \in Nat /\ Len(stack[t]) \in Nat /\ stack[t] \in Seq(Context) /\ state[t] \in Context
      /\ state \in [Tool -> Context] /\ stack \in [Tool -> Seq(Context)]
  BY ContextTypes DEF ToolsTypeOK
<1>2. n \in Nat /\ n = state[t].co + 1 /\ n >= 1
  BY <1>1 DEF ContextsAgree, ContextsCounted, NextContext
<1>3. \A u \in Tool : u # t => state'[u] = state[u] /\ stack'[u] = stack[u]
  BY <1>1 DEF StartContext
<1>4. state'[t].co = n /\ state'[t].waiting = FALSE
  <2>1. CASE state[t].co = 0
    <3>1. state[t].waiting = FALSE
      BY <2>1, ContextTypes DEF ContextsAgree, CurrentRunsOrWaits
    <3>2. state' = [state EXCEPT ![t].co = 1, ![t].ready = FALSE]
      BY <2>1 DEF StartContext
    <3>3. state'[t] = [state[t] EXCEPT !.co = 1, !.ready = FALSE]
      BY <1>1, <3>2
    <3>4. state'[t].co = 1 /\ state'[t].waiting = state[t].waiting
      BY <1>1, <3>3 DEF Context
    <3>5. n = 1
      BY <1>2, <2>1
    <3> QED  BY <3>1, <3>4, <3>5
  <2>2. CASE state[t].co # 0
    BY <1>1, <2>2 DEF StartContext, Context
  <2> QED  BY <2>1, <2>2
<1>5. stack'[t] = IF state[t].co = 0 THEN stack[t] ELSE Append(stack[t], state[t])
  BY <1>1 DEF StartContext
<1>52. state[t].co # 0 =>
        /\ DOMAIN stack'[t] = 1 .. (Len(stack[t]) + 1)
        /\ \A k \in 1 .. Len(stack[t]) : stack'[t][k] = stack[t][k]
        /\ stack'[t][Len(stack[t]) + 1] = state[t]
  BY <1>1, <1>5
<1> HIDE DEF n
<1>6. \A u, k : OnCallStack(u, k)' <=> OnCallStack(u, k) \/ (u = t /\ k = n)
  BY AddedOnCallStack DEF n
<1>7. \A i \in Bodies : calls[i].tool = t => calls[i].co < n
  <2> TAKE i \in Bodies
  <2>1. ASSUME calls[i].tool = t  PROVE calls[i].co < n
    <3>1. calls[i].co \in 1 .. MaxContexts /\ calls[i].co \in Nat /\ OnCallStack(t, calls[i].co)
      BY <2>1, BodyTypes DEF OnCallStack
    <3>2. calls[i].co <= state[t].co
      BY <3>1 DEF ContextsAgree, LaterOnesRun
    <3> QED  BY <1>1, <1>2, <3>1, <3>2
  <2> QED  BY <2>1
<1>8. \A k : OnCallStack(t, k) => k \in Nat /\ k < n
  <2>1. \A i \in Bodies : calls[i].co \in Nat
    BY BodyTypes
  <2> QED  BY <1>7, <2>1 DEF OnCallStack
<1>9. ContextsCounted'
  <2>1. ASSUME NEW u \in Tool
        PROVE  state'[u].co = Len(stack'[u]) + 1 \/ (state'[u].co = 0 /\ stack'[u] = << >>)
    <3>1. CASE u = t
      <4>1. state[t].co = Len(stack[t]) + 1 \/ (state[t].co = 0 /\ stack[t] = << >>)
        BY DEF ContextsAgree, ContextsCounted
      <4>2. CASE state[t].co = 0
        BY <1>1, <1>2, <1>4, <1>5, <3>1, <4>1, <4>2
      <4>3. CASE state[t].co # 0
        <5>1. Len(stack'[t]) = Len(stack[t]) + 1
          BY <1>1, <1>5, <4>3
        <5> QED  BY <1>1, <1>2, <1>4, <3>1, <4>1, <4>3, <5>1
      <4> QED  BY <4>2, <4>3
    <3> QED  BY <1>3, <3>1 DEF ContextsAgree, ContextsCounted
  <2> QED  BY <2>1 DEF ContextsCounted
<1>10. CurrentRunsOrWaits'
  <2>1. ASSUME NEW u \in Tool, NEW c \in Nat, c = state'[u].co
        PROVE  state'[u].waiting <=> c # 0 /\ ~OnCallStack(u, c)'
    <3>1. CASE u = t
      BY <1>2, <1>4, <1>6, <2>1, <3>1
    <3>2. CASE u # t
      BY <1>3, <1>6, <2>1, <3>2 DEF ContextsAgree, CurrentRunsOrWaits
    <3> QED  BY <3>1, <3>2
  <2> QED  BY <2>1 DEF CurrentRunsOrWaits
<1>11. OthersRunOrWait'
  <2>1. SUFFICES ASSUME NEW u \in Tool, NEW k \in DOMAIN stack'[u]
                 PROVE  stack'[u][k].co = k /\ (stack'[u][k].waiting <=> ~OnCallStack(u, k)')
    BY DEF OthersRunOrWait
  <2>2. k \in DOMAIN stack[u] \/ (u = t /\ state[t].co # 0 /\ k = Len(stack[t]) + 1)
    <3>1. DOMAIN stack[t] = 1 .. Len(stack[t])
      BY ContextTypes
    <3>2. CASE u = t /\ state[t].co # 0
      <4>1. k \in 1 .. (Len(stack[t]) + 1)
        BY <1>52, <2>1, <3>2
      <4> QED  BY <1>1, <3>1, <3>2, <4>1
    <3>3. CASE ~(u = t /\ state[t].co # 0)
      <4>1. stack'[u] = stack[u]
        BY <1>3, <1>5, <3>3
      <4> QED  BY <2>1, <4>1
    <3> QED  BY <3>2, <3>3
  <2>3. CASE k \in DOMAIN stack[u]
    <3>1. stack'[u][k] = stack[u][k]
      <4>1. DOMAIN stack[t] = 1 .. Len(stack[t])
        BY ContextTypes
      <4> QED  BY <1>3, <1>5, <1>52, <2>3, <4>1
    <3>2. u = t => k # n
      BY <1>1, <1>2, <2>3 DEF ContextsAgree, ContextsCounted
    <3> QED  BY <1>6, <2>3, <3>1, <3>2 DEF ContextsAgree, OthersRunOrWait
  <2>4. CASE u = t /\ state[t].co # 0 /\ k = Len(stack[t]) + 1
    <3>1. stack'[t][k] = state[t]
      BY <1>1, <1>5, <2>4
    <3>2. state[t].co = k
      BY <2>4 DEF ContextsAgree, ContextsCounted
    <3>3. k # n /\ k \in Nat
      BY <1>1, <1>2, <3>2
    <3>4. state[t].waiting <=> ~OnCallStack(t, k)
      BY <1>1, <2>4, <3>2, <3>3 DEF ContextsAgree, CurrentRunsOrWaits
    <3> QED  BY <1>6, <2>4, <3>1, <3>2, <3>3, <3>4
  <2> QED  BY <2>2, <2>3, <2>4
<1>12. HandlersOrdered'
  BY <1>2, <1>7, AddedOrdered DEF n
<1>13. LaterOnesRun'
  <2>1. SUFFICES ASSUME NEW u \in Tool, NEW c \in 1 .. MaxContexts, OnCallStack(u, c)'
                 PROVE  c <= state'[u].co /\ \A k \in c .. state'[u].co : OnCallStack(u, k)'
    BY DEF LaterOnesRun
  <2>2. CASE u # t
    BY <1>3, <1>6, <2>1, <2>2 DEF ContextsAgree, LaterOnesRun
  <2>3. CASE u = t /\ c = n
    BY <1>2, <1>4, <1>6, <2>3
  <2>4. CASE u = t /\ c # n
    <3>1. OnCallStack(t, c)
      BY <1>6, <2>1, <2>4
    <3>2. c \in Nat /\ c <= state[t].co /\ \A k \in c .. state[t].co : OnCallStack(t, k)
      BY <1>8, <3>1 DEF ContextsAgree, LaterOnesRun
    <3>3. \A k \in c .. n : k \in c .. state[t].co \/ k = n
      BY <1>1, <1>2, <3>2
    <3> QED  BY <1>1, <1>2, <1>4, <1>6, <2>4, <3>2, <3>3
  <2> QED  BY <2>2, <2>3, <2>4
<1> QED  BY <1>9, <1>10, <1>11, <1>12, <1>13 DEF ContextsAgree

\* The running handler waits; no other one of its tool is on the call stack.
LEMMA WaitingAgree ==
    ASSUME ToolsTypeOK, ContextsAgree, InBody, BodyRemoved, ~Nested, stack' = stack,
           state'[Top.tool].waiting = TRUE,
           \A u \in Tool : /\ state'[u].co = state[u].co
                           /\ u # Top.tool => state'[u].waiting = state[u].waiting
    PROVE  ContextsAgree'
<1> DEFINE t == Top.tool
           n == Top.co
<1>1. /\ t \in Tool /\ n = state[t].co /\ n \in 1 .. MaxContexts /\ n \in Nat
      /\ Top = calls[Len(calls)] /\ Len(calls) \in Nat
  BY RunningIsCurrent, TopBody, TopFrame
<1> HIDE DEF t, n
<1>2. \A i \in Bodies : i # Len(calls) => calls[i].tool # t
  <2> TAKE i \in Bodies
  <2>1. i \in Nat /\ i <= Len(calls)
    BY BodyTypes
  <2> QED  BY <1>1, <2>1 DEF Nested, t
<1>3. \A u, k : OnCallStack(u, k)' <=> OnCallStack(u, k) /\ ~(u = t /\ k = n)
  BY <1>1, RemovedOnCallStack DEF t, n
<1>4. \A k : OnCallStack(t, k) <=> k = n
  BY <1>1, <1>2 DEF OnCallStack, BodyRemoved, t, n
<1>5. ContextsCounted' /\ HandlersOrdered'
  BY RemovedOrdered DEF ContextsAgree, ContextsCounted
<1>6. CurrentRunsOrWaits'
  <2>1. SUFFICES ASSUME NEW u \in Tool, NEW c \in Nat, c = state[u].co
                 PROVE  state'[u].waiting <=> c # 0 /\ ~OnCallStack(u, c)'
    BY DEF CurrentRunsOrWaits
  <2>2. CASE u = t
    BY <1>1, <1>3, <2>1, <2>2 DEF t
  <2>3. CASE u # t
    BY <1>3, <2>1, <2>3 DEF ContextsAgree, CurrentRunsOrWaits, t
  <2> QED  BY <2>2, <2>3
<1>7. OthersRunOrWait'
  <2>1. SUFFICES ASSUME NEW u \in Tool, NEW k \in DOMAIN stack[u]
                 PROVE  stack[u][k].co = k /\ (stack[u][k].waiting <=> ~OnCallStack(u, k)')
    BY DEF OthersRunOrWait
  <2>2. ~(u = t /\ k = n)
    <3>1. n = Len(stack[t]) + 1
      BY <1>1 DEF ContextsAgree, ContextsCounted
    <3>2. k \in 1 .. Len(stack[u]) /\ Len(stack[u]) \in Nat
      BY ContextTypes
    <3> QED  BY <3>1, <3>2
  <2> QED  BY <1>3, <2>2 DEF ContextsAgree, OthersRunOrWait
<1>8. LaterOnesRun'
  <2>1. SUFFICES ASSUME NEW u \in Tool, NEW c \in 1 .. MaxContexts, OnCallStack(u, c)'
                 PROVE  c <= state[u].co /\ \A k \in c .. state[u].co : OnCallStack(u, k)'
    BY DEF LaterOnesRun
  <2>2. u # t
    BY <1>3, <1>4, <2>1
  <2> QED  BY <1>3, <2>1, <2>2 DEF ContextsAgree, LaterOnesRun
<1> QED  BY <1>5, <1>6, <1>7, <1>8 DEF ContextsAgree

\* The running handler returns, and the context below it is restored.
LEMMA FinishedAgree ==
    ASSUME ToolsTypeOK, ContextsAgree, InBody, BodyRemoved, NEW pass \in BOOLEAN,
           NEW t, t = Top.tool, NEW n, n = Top.co,
           stack' = [stack EXCEPT ![t] = IF @ = << >> THEN @ ELSE Front(@)],
           state' = [state EXCEPT ![t] = Popped(t, pass)]
    PROVE  ContextsAgree'
<1>1. /\ t \in Tool /\ n = state[t].co /\ n \in 1 .. MaxContexts /\ n \in Nat /\ n # 0
      /\ Top = calls[Len(calls)] /\ Len(calls) \in Nat
  BY RunningIsCurrent, TopBody, TopFrame
<1>2. /\ state[t] \in Context /\ stack[t] \in Seq(Context) /\ Len(stack[t]) \in Nat
      /\ n = Len(stack[t]) + 1
  BY <1>1, ContextTypes DEF ContextsAgree, ContextsCounted
<1>3. \A u, k : OnCallStack(u, k)' <=> OnCallStack(u, k) /\ ~(u = t /\ k = n)
  BY <1>1, RemovedOnCallStack
<1>4. \A u \in Tool : u # t => state'[u] = state[u] /\ stack'[u] = stack[u]
  BY DEF ToolsTypeOK
<1>5. state'[t] = Popped(t, pass) /\ stack'[t] = IF stack[t] = << >> THEN << >> ELSE Front(stack[t])
  BY <1>1 DEF ToolsTypeOK
<1>6. \A k : OnCallStack(t, k) => k \in 1 .. n
  <2>1. ASSUME NEW i \in Bodies, calls[i].tool = t  PROVE calls[i].co \in 1 .. n
    <3>1. calls[i].co \in 1 .. MaxContexts /\ OnCallStack(t, calls[i].co) /\ calls[i].co \in Nat
      BY <2>1, BodyTypes DEF OnCallStack
    <3>2. calls[i].co <= n
      BY <1>1, <3>1 DEF ContextsAgree, LaterOnesRun
    <3> QED  BY <1>1, <3>1, <3>2
  <2> QED  BY <2>1 DEF OnCallStack
<1>7. \A k : OnCallStack(t, k)' => k \in 1 .. (n - 1)
  <2>1. ASSUME NEW k, OnCallStack(t, k)'  PROVE k \in 1 .. n /\ k # n
    BY <1>3, <1>6, <2>1
  <2>2. \A k \in 1 .. n : k # n => k \in 1 .. (n - 1)
    BY <1>1
  <2> QED  BY <2>1, <2>2
<1>8. CASE stack[t] = << >>
  <2>1. n = 1 /\ \A k : ~OnCallStack(t, k)'
    BY <1>2, <1>7, <1>8
  <2>2. state'[t].co = 0 /\ state'[t].waiting = FALSE /\ stack'[t] = << >>
    <3>1. OnCallStack(t, n)
      BY <1>1 DEF OnCallStack, BodyRemoved
    <3>2. ~state[t].waiting
      BY <1>1, <3>1 DEF ContextsAgree, CurrentRunsOrWaits
    <3>3. state[t].waiting \in BOOLEAN
      BY <1>1, ContextTypes
    <3>4. state'[t] = [state[t] EXCEPT !.co = 0, !.ready = TRUE, !.pass = pass]
      BY <1>5, <1>8 DEF Popped
    <3>5. state'[t].co = 0 /\ state'[t].waiting = state[t].waiting
      <4>1. ASSUME NEW c \in Context, NEW d, d = [c EXCEPT !.co = 0, !.ready = TRUE, !.pass = pass]
            PROVE  d.co = 0 /\ d.waiting = c.waiting
        BY <4>1 DEF Context
      <4> QED  BY <1>2, <3>4, <4>1
    <3> QED  BY <1>5, <1>8, <3>2, <3>3, <3>5
  <2>3. ContextsCounted'
    BY <1>4, <2>2 DEF ContextsAgree, ContextsCounted
  <2>4. CurrentRunsOrWaits'
    <3>1. SUFFICES ASSUME NEW u \in Tool, NEW c \in Nat, c = state'[u].co
                   PROVE  state'[u].waiting <=> c # 0 /\ ~OnCallStack(u, c)'
      BY DEF CurrentRunsOrWaits
    <3>2. CASE u = t
      BY <2>2, <3>1, <3>2
    <3>3. CASE u # t
      BY <1>3, <1>4, <3>1, <3>3 DEF ContextsAgree, CurrentRunsOrWaits
    <3> QED  BY <3>2, <3>3
  <2>5. OthersRunOrWait'
    BY <1>3, <1>4, <2>2 DEF ContextsAgree, OthersRunOrWait
  <2>6. LaterOnesRun'
    <3>1. SUFFICES ASSUME NEW u \in Tool, NEW c \in 1 .. MaxContexts, OnCallStack(u, c)'
                   PROVE  c <= state'[u].co /\ \A k \in c .. state'[u].co : OnCallStack(u, k)'
      BY DEF LaterOnesRun
    <3>2. u # t
      BY <2>1, <3>1
    <3> QED  BY <1>3, <1>4, <3>1, <3>2 DEF ContextsAgree, LaterOnesRun
  <2> QED  BY <2>3, <2>4, <2>5, <2>6, RemovedOrdered DEF ContextsAgree
<1>9. CASE stack[t] # << >>
  <2> DEFINE m == Len(stack[t])
  <2>1. m \in Nat /\ m # 0 /\ n = m + 1 /\ m \in DOMAIN stack[t]
    BY <1>2, <1>9, EmptySeq
  <2>2. /\ stack'[t] \in Seq(Context) /\ Len(stack'[t]) = m - 1
        /\ \A k \in 1 .. (m - 1) : stack'[t][k] = stack[t][k]
    <3>1. stack'[t] = Front(stack[t])
      BY <1>5, <1>9
    <3>2. Front(stack[t]) \in Seq(Context) /\ Len(Front(stack[t])) = m - 1
      BY <1>2, <1>9, FrontLast
    <3>3. \A k \in 1 .. (m - 1) : Front(stack[t])[k] = stack[t][k]
      BY <1>2, <1>9, FrontAt
    <3> QED  BY <3>1, <3>2, <3>3
  <2>3. stack[t][m].co = m /\ (stack[t][m].waiting <=> ~OnCallStack(t, m)) /\ stack[t][m] \in Context
    BY <1>1, <2>1, ContextTypes DEF ContextsAgree, OthersRunOrWait
  <2>4. state'[t].co = m /\ state'[t].waiting = stack[t][m].waiting
    BY <1>5, <1>9, <2>3 DEF Popped, Last, Context
  <2> HIDE DEF m
  <2>5. ContextsCounted'
    <3>1. state'[t].co = Len(stack'[t]) + 1
      BY <2>1, <2>2, <2>4
    <3> QED  BY <1>4, <3>1 DEF ContextsAgree, ContextsCounted
  <2>6. CurrentRunsOrWaits'
    <3>1. SUFFICES ASSUME NEW u \in Tool, NEW c \in Nat, c = state'[u].co
                   PROVE  state'[u].waiting <=> c # 0 /\ ~OnCallStack(u, c)'
      BY DEF CurrentRunsOrWaits
    <3>2. CASE u = t
      BY <1>3, <2>1, <2>3, <2>4, <3>1, <3>2
    <3>3. CASE u # t
      BY <1>3, <1>4, <3>1, <3>3 DEF ContextsAgree, CurrentRunsOrWaits
    <3> QED  BY <3>2, <3>3
  <2>7. OthersRunOrWait'
    <3>1. SUFFICES ASSUME NEW u \in Tool, NEW k \in DOMAIN stack'[u]
                   PROVE  stack'[u][k].co = k /\ (stack'[u][k].waiting <=> ~OnCallStack(u, k)')
      BY DEF OthersRunOrWait
    <3>2. CASE u = t
      <4>1. k \in 1 .. (m - 1) /\ k # n /\ k \in DOMAIN stack[t] /\ stack'[t][k] = stack[t][k]
        <5>1. DOMAIN stack[t] = 1 .. m
          BY <1>1, ContextTypes DEF m
        <5> QED  BY <2>1, <2>2, <3>1, <3>2, <5>1
      <4> QED  BY <1>1, <1>3, <3>2, <4>1 DEF ContextsAgree, OthersRunOrWait
    <3>3. CASE u # t
      BY <1>3, <1>4, <3>1, <3>3 DEF ContextsAgree, OthersRunOrWait
    <3> QED  BY <3>2, <3>3
  <2>8. LaterOnesRun'
    <3>1. SUFFICES ASSUME NEW u \in Tool, NEW c \in 1 .. MaxContexts, OnCallStack(u, c)'
                   PROVE  c <= state'[u].co /\ \A k \in c .. state'[u].co : OnCallStack(u, k)'
      BY DEF LaterOnesRun
    <3>2. CASE u = t
      <4>1. c \in 1 .. m /\ OnCallStack(t, c)
        <5>1. c \in 1 .. (n - 1) /\ OnCallStack(t, c)
          BY <1>3, <1>7, <3>1, <3>2
        <5> QED  BY <2>1, <5>1
      <4>2. \A k \in c .. n : OnCallStack(t, k)
        BY <1>1, <4>1 DEF ContextsAgree, LaterOnesRun
      <4> QED  BY <1>3, <2>1, <2>4, <3>2, <4>1, <4>2
    <3>3. CASE u # t
      BY <1>3, <1>4, <3>1, <3>3 DEF ContextsAgree, LaterOnesRun
    <3> QED  BY <3>2, <3>3
  <2> QED  BY <2>5, <2>6, <2>7, <2>8, RemovedOrdered DEF ContextsAgree
<1> QED  BY <1>8, <1>9

-----------------------------------------------------------------------------
(* The shape of the call stack.                                              *)

\* dispatchInternal() waits for a handler that it woke up.
Dispatching(f) == f.kind = "event" /\ f.pc = "tools"

LEMMA CallTypes ==
    ASSUME ToolsTypeOK
    PROVE  /\ calls \in Seq(AnyFrame) /\ Len(calls) \in Nat /\ DOMAIN calls = 1 .. Len(calls)
           /\ calls = << >> <=> Len(calls) = 0
           /\ calls # << >> => Top = calls[Len(calls)]
           /\ \A i \in DOMAIN calls : calls[i] \in AnyFrame
  BY EmptySeq DEF ToolsTypeOK, AnyFrame, Top, Last

\* A frame stays what it is; dispatchInternal() may have ended.
SameShape(f, g) ==
    /\ g.kind = f.kind
    /\ Dispatching(g) => Dispatching(f)
    /\ f.kind = "body" => g.tool = f.tool /\ g.co = f.co
    /\ Activates(f) => Activates(g)
Kept(m) ==
    /\ calls' \in Seq(AnyFrame) /\ m <= Len(calls) /\ m <= Len(calls')
    /\ \A i \in 1 .. m : SameShape(calls[i], calls'[i])

LEMMA ShapeKept ==
    ASSUME ToolsTypeOK, FramesChained, Kept(Len(calls'))
    PROVE  /\ FramesChained' /\ Bodies' = Bodies \cap 1 .. Len(calls')
           /\ \A i \in Bodies' : calls'[i].tool = calls[i].tool /\ calls'[i].co = calls[i].co
<1>1. /\ Len(calls) \in Nat /\ Len(calls') \in Nat /\ Len(calls') <= Len(calls)
      /\ DOMAIN calls = 1 .. Len(calls) /\ DOMAIN calls' = 1 .. Len(calls')
  BY CallTypes DEF Kept
<1>2. \A i \in 1 .. Len(calls') : SameShape(calls[i], calls'[i]) /\ i \in DOMAIN calls
  BY <1>1 DEF Kept
<1>3. FramesChained'
  <2>1. SUFFICES ASSUME NEW i \in 1 .. Len(calls')
                 PROVE  /\ Activates(calls'[i])
                        /\ calls'[i].kind = "body" => i > 1 /\ calls'[i - 1].kind # "body"
                        /\ calls'[i].kind = "shutdown" => i = 1
                        /\ Dispatching(calls'[i]) /\ i # Len(calls') => calls'[i + 1].kind = "body"
    BY <1>1 DEF FramesChained, Dispatching
  <2>2. SameShape(calls[i], calls'[i]) /\ i \in DOMAIN calls
    BY <1>2
  <2>3. ASSUME calls'[i].kind = "body"  PROVE i > 1 /\ calls'[i - 1].kind # "body"
    <3>1. i > 1 /\ calls[i - 1].kind # "body"
      BY <2>2, <2>3 DEF FramesChained, SameShape
    <3>2. i - 1 \in 1 .. Len(calls')
      BY <1>1, <3>1
    <3> QED  BY <1>2, <3>1, <3>2 DEF SameShape
  <2>4. Activates(calls'[i]) /\ (calls'[i].kind = "shutdown" => i = 1)
    BY <2>2 DEF FramesChained, SameShape
  <2>5. ASSUME Dispatching(calls'[i]), i # Len(calls')  PROVE calls'[i + 1].kind = "body"
    <3>1. i + 1 \in 1 .. Len(calls') /\ i # Len(calls)
      <4>1. Len(calls) \in Nat /\ Len(calls') \in Nat /\ Len(calls') <= Len(calls) /\ i # Len(calls')
        BY <1>1, <2>5
      <4>2. \A m, k \in Nat : \A j \in 1 .. k : k <= m /\ j # k => j + 1 \in 1 .. k /\ j # m
        OBVIOUS
      <4> QED  BY <4>1, <4>2
    <3>2. calls[i + 1].kind = "body"
      BY <2>2, <2>5, <3>1 DEF FramesChained, SameShape, Dispatching
    <3> QED  BY <1>2, <3>1, <3>2 DEF SameShape
  <2> QED  BY <2>3, <2>4, <2>5
<1>4. \A i : i \in Bodies' <=> i \in Bodies \cap 1 .. Len(calls')
  BY <1>1, <1>2 DEF Bodies, SameShape
<1>5. \A i \in Bodies' : calls'[i].tool = calls[i].tool /\ calls'[i].co = calls[i].co
  BY <1>1, <1>2 DEF Bodies, SameShape
<1> QED  BY <1>3, <1>4, <1>5

LEMMA ShapeGrown ==
    ASSUME ToolsTypeOK, FramesChained, Kept(Len(calls)), NEW f, NEW n, n = Len(calls) + 1,
           Len(calls') = n, calls'[n] = f,
           f.kind = "body" => n > 1 /\ calls'[Len(calls)].kind # "body",
           f.kind = "shutdown" => calls = << >>,
           n > 1 => (Dispatching(calls'[Len(calls)]) => f.kind = "body"),
           Activates(f)
    PROVE  /\ FramesChained' /\ Bodies' = Bodies \cup (IF f.kind = "body" THEN {n} ELSE {})
           /\ \A i \in Bodies : calls'[i].tool = calls[i].tool /\ calls'[i].co = calls[i].co
<1>1. /\ Len(calls) \in Nat /\ n \in Nat /\ n = Len(calls) + 1
      /\ DOMAIN calls = 1 .. Len(calls) /\ DOMAIN calls' = 1 .. n
  BY CallTypes DEF Kept
<1>2. \A i \in 1 .. Len(calls) : SameShape(calls[i], calls'[i]) /\ i \in DOMAIN calls
  BY <1>1 DEF Kept
<1>3. FramesChained'
  <2>1. SUFFICES ASSUME NEW i \in 1 .. n
                 PROVE  /\ Activates(calls'[i])
                        /\ calls'[i].kind = "body" => i > 1 /\ calls'[i - 1].kind # "body"
                        /\ calls'[i].kind = "shutdown" => i = 1
                        /\ Dispatching(calls'[i]) /\ i # n => calls'[i + 1].kind = "body"
    BY <1>1 DEF FramesChained, Dispatching
  <2>2. CASE i = n
    <3>1. f.kind = "shutdown" => n = 1
      BY <1>1, CallTypes
    <3>2. n > 1 => n - 1 = Len(calls)
      BY <1>1
    <3> QED  BY <2>2, <3>1, <3>2
  <2>3. CASE i \in 1 .. Len(calls)
    <3>1. SameShape(calls[i], calls'[i]) /\ i \in DOMAIN calls
      BY <1>2, <2>3
    <3>2. ASSUME calls'[i].kind = "body"  PROVE i > 1 /\ calls'[i - 1].kind # "body"
      <4>1. i > 1 /\ calls[i - 1].kind # "body"
        BY <3>1, <3>2 DEF FramesChained, SameShape
      <4>2. i - 1 \in 1 .. Len(calls)
        BY <1>1, <2>3, <4>1
      <4> QED  BY <1>2, <4>1, <4>2 DEF SameShape
    <3>3. Activates(calls'[i]) /\ (calls'[i].kind = "shutdown" => i = 1)
      BY <3>1 DEF FramesChained, SameShape
    <3>4. ASSUME Dispatching(calls'[i]), i # n  PROVE calls'[i + 1].kind = "body"
      <4>1. CASE i = Len(calls)
        <5>1. n > 1 /\ i + 1 = n
          BY <1>1, <2>3, <4>1
        <5> QED  BY <3>4, <4>1, <5>1
      <4>2. CASE i # Len(calls)
        <5>1. i + 1 \in 1 .. Len(calls)
          <6>1. \A k \in Nat : \A j \in 1 .. k : j # k => j + 1 \in 1 .. k
            OBVIOUS
          <6>2. Len(calls) \in Nat
            BY <1>1
          <6> QED  BY <2>3, <4>2, <6>1, <6>2
        <5>2. calls[i + 1].kind = "body"
          BY <3>1, <3>4, <4>2 DEF FramesChained, SameShape, Dispatching
        <5> QED  BY <1>2, <5>1, <5>2 DEF SameShape
      <4> QED  BY <4>1, <4>2
    <3> QED  BY <3>2, <3>3, <3>4
  <2> QED  BY <1>1, <2>2, <2>3
<1>4. \A i : i \in Bodies' <=> i \in Bodies \cup (IF f.kind = "body" THEN {n} ELSE {})
  <2>1. \A i : i \in 1 .. n <=> i \in 1 .. Len(calls) \/ i = n
    BY <1>1
  <2> QED  BY <1>1, <1>2, <2>1 DEF Bodies, SameShape
<1>5. \A i \in Bodies : calls'[i].tool = calls[i].tool /\ calls'[i].co = calls[i].co
  BY <1>1, <1>2 DEF Bodies, SameShape
<1> QED  BY <1>3, <1>4, <1>5

LEMMA BodiesInside ==
    ASSUME ToolsTypeOK
    PROVE  Bodies \subseteq 1 .. Len(calls) /\ Len(calls) \in Nat
  BY CallTypes DEF Bodies

\* processEvent() begins, called from outside, by a handler or for a posted event.
LEMMA EventPushedShape ==
    ASSUME ToolsTypeOK, FramesChained, NEW e, EventPushed(e),
           calls # << >> => ~Dispatching(Top)
    PROVE  FramesChained' /\ SameBodies
<1>1. PICK f : Pushed(f) /\ f.kind = "event" /\ f.pc = "tools" /\ Activates(f)
  BY DEF EventPushed, EventFrame, Activates
<1>2. Kept(Len(calls))
  BY <1>1, CallTypes DEF Pushed, Kept, SameShape
<1>3. Len(calls) + 1 > 1 => ~Dispatching(calls'[Len(calls)])
  BY <1>1, CallTypes DEF Pushed
<1> QED  BY <1>1, <1>2, <1>3, ShapeGrown DEF Pushed, SameBodies

\* A frame of processEvent() changes, and perhaps those below it.
LEMMA ChangedShape ==
    ASSUME ToolsTypeOK, FramesChained, NEW f \in EventFrames, f.pc # "tools", Activates(f),
           calls # << >>, Top \in EventFrames, Len(calls') = Len(calls), calls' \in Seq(AnyFrame),
           calls'[Len(calls)] = f,
           \A i \in 1 .. (Len(calls) - 1) : SameShape(calls[i], calls'[i])
    PROVE  FramesChained' /\ SameBodies
<1>1. Len(calls) \in Nat /\ Top = calls[Len(calls)]
  BY CallTypes
<1>2. SameShape(Top, f)
  BY DEF SameShape, Dispatching, EventFrames
<1>3. Kept(Len(calls'))
  <2>1. \A i \in 1 .. Len(calls) : i \in 1 .. (Len(calls) - 1) \/ i = Len(calls)
    BY <1>1
  <2> QED  BY <1>1, <1>2, <2>1 DEF Kept
<1>4. Bodies \cap 1 .. Len(calls) = Bodies
  BY BodiesInside
<1> QED  BY <1>3, <1>4, ShapeKept DEF SameBodies

LEMMA MovedOnShape ==
    ASSUME ToolsTypeOK, FramesChained, NEW pc \in {"starts", "activate", "queue"}, MovedOn(pc),
           pc = "activate" => Top.event.type = "activate"
    PROVE  FramesChained' /\ SameBodies
<1> DEFINE f == [Top EXCEPT !.pc = pc]
<1>1. f \in EventFrames /\ f.pc # "tools" /\ Activates(f)
  BY DEF MovedOn, EventFrames, Activates
<1>2. \A i \in 1 .. (Len(calls) - 1) : SameShape(calls[i], calls'[i])
  BY DEF MovedOn, Changed, SameShape
<1>3. calls # << >> /\ Top \in EventFrames /\ Changed(f)
  BY DEF MovedOn
<1> HIDE DEF f
<1> QED  BY <1>1, <1>2, <1>3, ChangedShape DEF Changed

LEMMA MovedSameShape ==
    ASSUME NEW f \in AnyFrame
    PROVE  /\ SameShape(f, ShiftedAt(f))
           /\ \A k : SameShape(f, ClosedAt(f, k)) /\ ClosedAt(f, k).kind = f.kind
           /\ \A co : SameShape(f, Unsynced(f, co))
           /\ \A k \in Nat : SameShape(f, ShiftedAt(ClosedAt(f, k)))
           /\ \A co : \A k \in Nat : SameShape(f, ClosedAt(Unsynced(f, co), k))
<1>1. ASSUME NEW g \in AnyFrame
      PROVE  /\ SameShape(g, ShiftedAt(g)) /\ \A k : SameShape(g, ClosedAt(g, k))
             /\ \A co : SameShape(g, Unsynced(g, co))
  <2>1. CASE g.kind = "event"
    <3>1. g \in EventFrames
      BY <2>1, FrameKinds
    <3>2. \A a : /\ [g EXCEPT !.at = a].kind = "event" /\ [g EXCEPT !.at = a].pc = g.pc
                 /\ [g EXCEPT !.at = a].event = g.event
      BY <3>1 DEF EventFrames
    <3>3. /\ [g EXCEPT !.sync = None].kind = "event" /\ [g EXCEPT !.sync = None].pc = g.pc
          /\ [g EXCEPT !.sync = None].event = g.event
      BY <3>1 DEF EventFrames
    <3> QED  BY <2>1, <3>2, <3>3
             DEF ShiftedAt, ClosedAt, Unsynced, SameShape, Dispatching, Activates
  <2>2. CASE g.kind # "event"
    BY <2>2 DEF ShiftedAt, ClosedAt, Unsynced, SameShape
  <2> QED  BY <2>1, <2>2
<1>2. \A f1, g1, h1 : SameShape(f1, g1) /\ SameShape(g1, h1) => SameShape(f1, h1)
  BY DEF SameShape
<1>3. \A k \in Nat : ClosedAt(f, k) \in AnyFrame
  BY FramesMoved
<1>4. \A co : Unsynced(f, co) \in AnyFrame
  BY FramesMoved
<1>5. \A k \in Nat : SameShape(f, ShiftedAt(ClosedAt(f, k)))
  BY <1>1, <1>2, <1>3
<1>6. \A co : \A k \in Nat : SameShape(f, ClosedAt(Unsynced(f, co), k))
  BY <1>1, <1>2, <1>4
<1> QED  BY <1>1, <1>5, <1>6 DEF SameShape

LEMMA RunToolShape ==
    ASSUME ToolsTypeOK, FramesChained, RunTool
    PROVE  FramesChained' /\ SameBodies
<1> DEFINE f == [Top EXCEPT !.pc = "queue"]
           t == Top.event.tool
<1>1. /\ calls # << >> /\ Top \in EventFrames
      /\ calls' \in Seq(AnyFrame) /\ Len(calls') = Len(calls) /\ calls'[Len(calls)] = f
      /\ \A i \in 1 .. (Len(calls) - 1) : calls'[i] = MovedTo(calls[i], t)
  BY RunToolMoves
<1>2. f \in EventFrames /\ f.pc # "tools" /\ Activates(f)
  BY <1>1 DEF EventFrames, Activates
<1>3. ASSUME NEW i \in 1 .. (Len(calls) - 1)  PROVE SameShape(calls[i], calls'[i])
  <2>1. calls[i] \in AnyFrame
    BY CallTypes
  <2>2. Again(t) => FirstIndex(t) \in Nat
    BY FirstIndexIs DEF Again
  <2>3. SameShape(calls[i], calls[i])
    BY DEF SameShape
  <2>4. SameShape(calls[i], MovedTo(calls[i], t))
    <3> HIDE DEF t
    <3> QED  BY <2>1, <2>2, <2>3, MovedSameShape DEF MovedTo
  <2> QED  BY <1>1, <2>4
<1> HIDE DEF f, t
<1> QED  BY <1>1, <1>2, <1>3, ChangedShape

\* A handler is woken up or starts on top of dispatchInternal().
LEMMA HandlerPushedShape ==
    ASSUME ToolsTypeOK, FramesChained, NEW f \in AnyFrame, NEW b \in BodyFrames,
           calls # << >>, Top.kind # "body", SameShape(Top, f), ChangedAndPushed(f, b)
    PROVE  FramesChained' /\ BodyAdded(b.tool, b.co)
<1>1. b.kind = "body" /\ f.kind # "body" /\ Activates(b)
  BY DEF BodyFrames, SameShape, Activates
<1>2. Len(calls) \in Nat /\ Len(calls) + 1 > 1 /\ Top = calls[Len(calls)]
  BY CallTypes
<1>3. Kept(Len(calls))
  <2>1. \A i \in 1 .. Len(calls) : i \in 1 .. (Len(calls) - 1) \/ i = Len(calls)
    BY <1>2
  <2>2. \A i \in 1 .. (Len(calls) - 1) : SameShape(calls[i], calls'[i])
    BY DEF ChangedAndPushed, SameShape
  <2>3. calls' \in Seq(AnyFrame) /\ Len(calls) <= Len(calls') /\ calls'[Len(calls)] = f
    BY <1>2 DEF ChangedAndPushed
  <2> QED  BY <1>2, <2>1, <2>2, <2>3 DEF Kept
<1>4. calls'[Len(calls)] = f /\ calls'[Len(calls) + 1] = b /\ Len(calls') = Len(calls) + 1
  BY DEF ChangedAndPushed
<1> QED  BY <1>1, <1>2, <1>3, <1>4, ShapeGrown DEF BodyAdded

LEMMA ActivateShape ==
    ASSUME ToolsTypeOK, FramesChained, Activate
    PROVE  FramesChained' /\ SameBodies
<1>1. PICK how, saved :
        ChangedAndPushed(ActivatingBody, EventFrame(Activation(Top.tool), how, saved))
  BY ActivatePushes
<1> DEFINE f == EventFrame(Activation(Top.tool), how, saved)
<1>2. f.kind = "event" /\ Top \in BodyFrames /\ Activates(f)
  BY ActivatePushes DEF EventFrame, Activates
<1>3. SameShape(Top, ActivatingBody) /\ ActivatingBody.kind = "body"
  BY <1>2 DEF ActivatingBody, SameShape, BodyFrames, Dispatching, Activates
<1> HIDE DEF f
<1>4. calls # << >>
  BY DEF Activate, InBody
<1>5. Len(calls) \in Nat /\ Top = calls[Len(calls)]
  BY <1>4, CallTypes
<1>6. calls'[Len(calls)] = ActivatingBody /\ calls'[Len(calls) + 1] = f /\ Len(calls') = Len(calls) + 1
  BY <1>1 DEF ChangedAndPushed, f
<1>7. Kept(Len(calls))
  <2>1. \A i \in 1 .. Len(calls) : i \in 1 .. (Len(calls) - 1) \/ i = Len(calls)
    BY <1>5
  <2>2. \A i \in 1 .. (Len(calls) - 1) : SameShape(calls[i], calls'[i])
    BY <1>1 DEF ChangedAndPushed, SameShape
  <2>3. calls' \in Seq(AnyFrame) /\ Len(calls) <= Len(calls')
    BY <1>1, <1>5 DEF ChangedAndPushed
  <2> QED  BY <1>3, <1>5, <1>6, <2>1, <2>2, <2>3 DEF Kept
<1>8. ~Dispatching(calls'[Len(calls)])
  BY <1>3, <1>6 DEF Dispatching
<1> QED  BY <1>2, <1>6, <1>7, <1>8, ShapeGrown DEF SameBodies

\* The top of the call stack returns.
LEMMA ReturnShape ==
    ASSUME ToolsTypeOK, FramesChained, calls # << >>, calls' \in Seq(AnyFrame),
           Len(calls') = Len(calls) - 1,
           \A i \in 1 .. (Len(calls) - 1) : SameShape(calls[i], calls'[i])
    PROVE  FramesChained' /\ IF Top.kind = "body" THEN BodyRemoved ELSE SameBodies
<1>1. Len(calls) \in Nat \ {0} /\ Top = calls[Len(calls)]
  BY TopFrame
<1>2. Kept(Len(calls'))
  BY <1>1 DEF Kept
<1>3. Len(calls) \in Bodies <=> Top.kind = "body"
  BY <1>1, CallTypes DEF Bodies
<1>4. \A i \in Bodies : i \in 1 .. Len(calls') <=> i # Len(calls)
  BY <1>1, BodiesInside
<1>5. Bodies' = Bodies \ {Len(calls)}
  BY <1>2, <1>4, ShapeKept
<1> QED  BY <1>2, <1>3, <1>5, ShapeKept DEF BodyRemoved, SameBodies

LEMMA EndedShape ==
    ASSUME ToolsTypeOK, FramesChained, calls # << >>, Top.kind # "body", calls' = Front(calls)
    PROVE  FramesChained' /\ SameBodies
<1>1. Ended
  BY End
<1>2. \A i \in 1 .. (Len(calls) - 1) : SameShape(calls[i], calls'[i])
  BY <1>1 DEF Ended, SameShape
<1> QED  BY <1>1, <1>2, ReturnShape DEF Ended

\* A handler waits or ends on top of another frame.
LEMMA HandlerOnTop ==
    ASSUME ToolsTypeOK, FramesChained, InBody
    PROVE  /\ Len(calls) \in Nat /\ Len(calls) > 1 /\ calls # << >> /\ Top.kind = "body"
           /\ Below = calls[Len(calls) - 1] /\ Below \in AnyFrame /\ Below.kind # "body"
           /\ Top = calls[Len(calls)] /\ Top \in BodyFrames
<1>1. Len(calls) \in DOMAIN calls /\ Top = calls[Len(calls)] /\ Top.kind = "body" /\ Top \in BodyFrames
      /\ calls # << >> /\ Len(calls) \in Nat
  BY TopBody, TopFrame DEF InBody
<1>2. Len(calls) > 1 /\ Below.kind # "body"
  BY <1>1 DEF FramesChained, Below
<1>3. Below \in AnyFrame
  BY <1>1, <1>2, CallTypes DEF Below
<1> QED  BY <1>1, <1>2, <1>3 DEF Below

LEMMA ResumedShape ==
    ASSUME NEW f \in AnyFrame, NEW at, NEW pass
    PROVE  SameShape(f, Resumed(f, at, pass))
<1>1. CASE f.kind = "event"
  <2>1. f \in EventFrames
    BY <1>1, FrameKinds
  <2>2. /\ [f EXCEPT !.at = at].kind = "event" /\ [f EXCEPT !.at = at].pc = f.pc
        /\ [f EXCEPT !.at = at].event = f.event
    BY <2>1 DEF EventFrames
  <2>3. LET g == [f EXCEPT !.pc = AfterDispatch(f.event)]
        IN g.kind = "event" /\ g.event = f.event /\ g.pc = AfterDispatch(f.event)
    BY <2>1 DEF EventFrames
  <2> QED  BY <1>1, <2>2, <2>3 DEF Resumed, SameShape, Dispatching, Activates, AfterDispatch
<1> QED  BY <1>1 DEF Resumed, SameShape

LEMMA WaitShape ==
    ASSUME ToolsTypeOK, FramesChained, Wait
    PROVE  FramesChained' /\ BodyRemoved
<1>1. InBody
  BY DEF Wait
<1>2. PICK pass \in BOOLEAN : Returned(WaitingFrame(pass))
  BY <1>1, HandlerOnTop, WaitReturns
<1>3. SameShape(Below, WaitingFrame(pass))
  BY <1>1, HandlerOnTop, ResumedShape DEF WaitingFrame, SameShape
<1>4. \A i \in 1 .. (Len(calls) - 1) : SameShape(calls[i], calls'[i])
  <2>1. \A i \in 1 .. (Len(calls) - 1) : i \in 1 .. (Len(calls) - 2) \/ i = Len(calls) - 1
    BY <1>1, HandlerOnTop
  <2> QED  BY <1>1, <1>2, <1>3, <2>1, HandlerOnTop DEF Returned, SameShape
<1> QED  BY <1>1, <1>2, <1>4, HandlerOnTop, ReturnShape DEF Returned

LEMMA FinishShape ==
    ASSUME ToolsTypeOK, FramesChained, Finish
    PROVE  FramesChained' /\ BodyRemoved
<1> DEFINE t == Top.tool
           co == Top.co
<1>1. InBody
  BY DEF Finish
<1>2. PICK pass \in BOOLEAN : FinishReturns(t, co, pass)
  BY <1>1, HandlerOnTop, FinishEffect
<1> HIDE DEF t, co
<1>3. \A g1, g2, g3 : SameShape(g1, g2) /\ SameShape(g2, g3) => SameShape(g1, g3)
  BY DEF SameShape
<1>4. PlaceAfter(t) \in Nat
  BY PlaceIsNat
<1>5. SameShape(Below, calls'[Len(calls) - 1])
  <2>1. Below \in AnyFrame /\ Unsynced(Below, <<t, co>>) \in AnyFrame
    BY <1>1, HandlerOnTop, FramesMoved
  <2>2. SameShape(Below, Unsynced(Below, <<t, co>>))
    BY <2>1, MovedSameShape
  <2>3. SameShape(Unsynced(Below, <<t, co>>), calls'[Len(calls) - 1])
    BY <1>2, <2>1, ResumedShape DEF FinishReturns
  <2> QED  BY <1>3, <2>2, <2>3
<1>6. ASSUME NEW i \in 1 .. (Len(calls) - 2)  PROVE SameShape(calls[i], calls'[i])
  <2>1. calls[i] \in AnyFrame
    BY CallTypes
  <2>2. SameShape(calls[i], LeftBelow(calls[i], t, co))
    BY <1>4, <2>1, MovedSameShape DEF LeftBelow
  <2> QED  BY <1>2, <2>2 DEF FinishReturns
<1>7. \A i \in 1 .. (Len(calls) - 1) : SameShape(calls[i], calls'[i])
  <2>1. \A i \in 1 .. (Len(calls) - 1) : i \in 1 .. (Len(calls) - 2) \/ i = Len(calls) - 1
    BY <1>1, HandlerOnTop
  <2>2. Below = calls[Len(calls) - 1]
    BY <1>1, HandlerOnTop
  <2> QED  BY <1>5, <1>6, <2>1, <2>2
<1> QED  BY <1>1, <1>2, <1>7, HandlerOnTop, ReturnShape DEF FinishReturns

-----------------------------------------------------------------------------
(* Contexts, coroutines and types under every action.                        *)

ContextInv == ToolsTypeOK /\ FramesChained /\ ContextsAgree

LEMMA MainToolsListed == SetToSeq(MainTool) \in Seq(Tool)
<1>1. SetToSeq(MainTool) \in [1 .. Len(SetToSeq(MainTool)) -> MainTool] /\ Len(SetToSeq(MainTool)) \in Nat
  BY ToolManagerAssumption, SetInOrder
<1>2. SetToSeq(MainTool) \in [1 .. Len(SetToSeq(MainTool)) -> Tool]
  BY <1>1, ToolManagerAssumption
<1> QED  BY <1>1, <1>2, TableType

LEMMA InitContexts == Init => ContextInv
<1> SUFFICES ASSUME Init  PROVE ContextInv
  OBVIOUS
<1>1. 0 \in 0 .. MaxContexts /\ 1 \in 0 .. MaxContexts
  BY ToolManagerAssumption
<1>2. NoContext \in Context /\ MainWaits \in Context
  BY <1>1 DEF NoContext, MainWaits, Context
<1>3. \A t \in Tool : /\ stack[t] = << >>
                      /\ t \in MainTool => state[t].co = 1 /\ state[t].waiting = TRUE
                      /\ t \notin MainTool => state[t].co = 0 /\ state[t].waiting = FALSE
  <2>1. /\ MainWaits.co = 1 /\ MainWaits.waiting = TRUE
        /\ NoContext.co = 0 /\ NoContext.waiting = FALSE
    BY DEF NoContext, MainWaits
  <2> QED  BY <2>1 DEF Init, NewStates
<1>4. calls = << >> /\ Bodies = {}
  BY DEF Init, Bodies
<1>5. ToolsTypeOK
  <2>1. state \in [Tool -> Context] /\ stack \in [Tool -> Seq(Context)]
    BY <1>2 DEF Init, NewStates
  <2>2. active \in Seq(Tool)
    BY MainToolsListed DEF Init
  <2>3. calls \in Seq(EventFrames \cup BodyFrames \cup ShutdownFrames) /\ queue \in Seq(Event)
    BY DEF Init
  <2> QED  BY <2>1, <2>2, <2>3 DEF ToolsTypeOK, Init
<1>6. FramesChained
  BY <1>4 DEF FramesChained
<1>7. \A t, c : ~OnCallStack(t, c)
  BY <1>4 DEF OnCallStack
<1>8. ContextsCounted /\ CurrentRunsOrWaits
  <2>1. ContextsCounted
    BY <1>3 DEF ContextsCounted
  <2>2. CurrentRunsOrWaits
    <3>1. SUFFICES ASSUME NEW t \in Tool, NEW c \in Nat, c = state[t].co
                   PROVE  state[t].waiting <=> c # 0 /\ ~OnCallStack(t, c)
      BY DEF CurrentRunsOrWaits
    <3>2. CASE t \in MainTool
      BY <1>3, <1>7, <3>1, <3>2
    <3>3. CASE t \notin MainTool
      BY <1>3, <1>7, <3>1, <3>3
    <3> QED  BY <3>2, <3>3
  <2> QED  BY <2>1, <2>2
<1>9. OthersRunOrWait /\ HandlersOrdered /\ LaterOnesRun
  BY <1>3, <1>4, <1>7 DEF OthersRunOrWait, HandlersOrdered, LaterOnesRun
<1> QED  BY <1>5, <1>6, <1>8, <1>9 DEF ContextInv, ContextsAgree

LEMMA NewFrameContexts == NewFrame => ContextInv'
<1>1. NewFrame => Init'
  BY DEF NewFrame, Init
<1>2. Init' => ContextInv'
  BY InitContexts, PTL
<1> QED  BY <1>1, <1>2

LEMMA CallsTyped ==
    ASSUME ToolsTypeOK
    PROVE  /\ state \in [Tool -> Context] /\ stack \in [Tool -> Seq(Context)]
           /\ active \in Seq(Tool) /\ activeState \in Tool \cup {None}
           /\ queue \in Seq(Event) /\ shuttingDown \in BOOLEAN
           /\ calls \in Seq(AnyFrame)
  BY DEF ToolsTypeOK, AnyFrame

\* Actions that begin an event.
LEMMA EventPushedContexts ==
    ASSUME ContextInv, NEW e, EventPushed(e), calls # << >> => ~Dispatching(Top),
           UNCHANGED <<contexts, active, activeState, shuttingDown>>, queue' \in Seq(Event)
    PROVE  ContextInv'
<1>1. FramesChained' /\ SameBodies
  BY EventPushedShape DEF ContextInv
<1>2. SameContexts
  BY DEF SameContexts, contexts
<1>3. ContextsAgree'
  BY <1>1, <1>2, SameContextsAgree DEF ContextInv
<1>4. calls' \in Seq(AnyFrame)
  BY DEF EventPushed, Pushed
<1>5. ToolsTypeOK'
  BY <1>4, CallsTyped DEF ContextInv, ToolsTypeOK, contexts, AnyFrame
<1> QED  BY <1>1, <1>3, <1>5 DEF ContextInv

LEMMA UserEventContexts ==
    ASSUME ContextInv, UserEvent
    PROVE  ContextInv'
<1>1. calls # << >> => ~Dispatching(Top)
  BY DEF UserEvent, FromOutside, InEvent, Dispatching
<1>2. PICK e : EventPushed(e)
  BY UserEventPushes DEF ContextInv
<1>3. queue' \in Seq(Event)
  BY DEF UserEvent, ContextInv, ToolsTypeOK
<1> QED  BY <1>1, <1>2, <1>3, EventPushedContexts DEF UserEvent

LEMMA RunNowContexts ==
    ASSUME ContextInv, RunNow
    PROVE  ContextInv'
<1>1. ~Dispatching(Top)
  BY DEF RunNow, InBody, Dispatching
<1>2. PICK e : EventPushed(e)
  BY RunNowPushes DEF ContextInv
<1>3. queue' \in Seq(Event)
  BY DEF RunNow, ContextInv, ToolsTypeOK
<1> QED  BY <1>1, <1>2, <1>3, EventPushedContexts DEF RunNow

LEMMA ProcessQueuedContexts ==
    ASSUME ContextInv, ProcessQueued
    PROVE  ContextInv'
<1>1. ~Dispatching(Top)
  BY DEF ProcessQueued, InEvent, Dispatching
<1>2. EventPushed(Head(queue))
  BY ProcessQueuedPushes DEF ContextInv
<1>3. queue' \in Seq(Event)
  BY DEF ProcessQueued, ContextInv, ToolsTypeOK
<1> QED  BY <1>1, <1>2, <1>3, EventPushedContexts DEF ProcessQueued

\* Actions that leave handlers and contexts alone.
LEMMA QuietContexts ==
    ASSUME ContextInv, FramesChained' /\ SameBodies, SameContexts, ToolsTypeOK'
    PROVE  ContextInv'
  BY SameContextsAgree DEF ContextInv

LEMMA MovedOnContexts ==
    ASSUME ContextInv, NobodyWaits \/ NobodyStarts
    PROVE  ContextInv'
<1>1. PICK pc \in {"starts", "activate", "queue"} :
        MovedOn(pc) /\ (pc = "activate" => Top.event.type = "activate")
  BY NobodyWaitsMoves, NobodyStartsMoves DEF ContextInv, AfterDispatch
<1>2. FramesChained' /\ SameBodies
  BY <1>1, MovedOnShape DEF ContextInv
<1>3. calls' \in Seq(AnyFrame)
  BY <1>1 DEF MovedOn, Changed
<1>4. UNCHANGED <<state, stack, active, activeState, queue, shuttingDown>>
  BY DEF NobodyWaits, NobodyStarts, contexts
<1>5. ToolsTypeOK' /\ SameContexts
  BY <1>3, <1>4, CallsTyped DEF ContextInv, ToolsTypeOK, AnyFrame, SameContexts
<1> QED  BY <1>2, <1>5, QuietContexts

LEMMA EndEventContexts ==
    ASSUME ContextInv, EndEvent
    PROVE  ContextInv'
<1>1. calls # << >> /\ Top \in EventFrames /\ Top.kind # "body"
  BY TopEvent DEF EndEvent, ContextInv, EventFrames
<1>2. calls' = Front(calls)
  BY DEF EndEvent
<1>3. FramesChained' /\ SameBodies
  BY <1>1, <1>2, EndedShape DEF ContextInv
<1>4. calls' \in Seq(AnyFrame)
  BY <1>1, <1>2, End DEF Ended, ContextInv
<1>5. activeState' \in Tool \cup {None}
  <2>1. Top.how \in {"process", "invoke", "action", "sync", "queued"} /\ Top.saved \in Tool \cup {None}
    BY <1>1 DEF EventFrames
  <2>2. activeState \in Tool \cup {None} /\ active \in Seq(Tool)
    BY CallsTyped DEF ContextInv
  <2>3. active # << >> => Head(active) \in Tool
    BY <2>2
  <2> QED  BY <2>1, <2>2, <2>3 DEF EndEvent
<1>6. UNCHANGED <<state, stack, active, queue, shuttingDown>>
  BY DEF EndEvent, contexts
<1>7. ToolsTypeOK' /\ SameContexts
  BY <1>4, <1>5, <1>6, CallsTyped DEF ContextInv, ToolsTypeOK, AnyFrame, SameContexts
<1> QED  BY <1>3, <1>7, QuietContexts

LEMMA RunToolContexts ==
    ASSUME ContextInv, RunTool
    PROVE  ContextInv'
<1> DEFINE t == Top.event.tool
<1>1. FramesChained' /\ SameBodies
  BY RunToolShape DEF ContextInv
<1>2. calls' \in Seq(AnyFrame)
  BY RunToolMoves DEF ContextInv
<1>3. t \in Tool
  <2>1. Top \in EventFrames /\ Top.pc = "activate" /\ Top.kind = "event"
    BY TopEvent DEF RunTool, ContextInv, EventFrames
  <2>2. Top.event.type = "activate" /\ Top.event \in Event
    <3>1. Activates(Top)
      BY TopFrame DEF RunTool, InEvent, ContextInv, FramesChained
    <3> QED  BY <2>1, <3>1 DEF Activates, EventFrames
  <2> QED  BY <2>2 DEF Event
<1>4. state \in [Tool -> Context] /\ active \in Seq(Tool) /\ activeState \in Tool \cup {None}
  BY CallsTyped DEF ContextInv
<1> HIDE DEF t
<1>5. state' = [state EXCEPT ![t].ready = TRUE]
  BY DEF RunTool, t
<1>6. state' \in [Tool -> Context] /\ \A u \in Tool : state'[u].co = state[u].co /\ state'[u].waiting = state[u].waiting
  BY <1>3, <1>4, <1>5 DEF Context
<1>7. active' \in Seq(Tool) /\ activeState' \in Tool \cup {None}
  <2>1. CASE t \in ToSet(active) /\ Len(active) > 1
    <3>1. FirstIndex(t) \in 1 .. Len(active)
      BY <1>4, <2>1, FirstIndexIs DEF ContextInv
    <3>2. RemoveAt(active, FirstIndex(t)) \in Seq(Tool)
      BY <1>4, <3>1, TakeOut DEF RemoveAt
    <3>3. active' = <<t>> \o RemoveAt(active, FirstIndex(t)) /\ activeState' = activeState
      BY <2>1 DEF RunTool, t
    <3>4. <<t>> \in Seq(Tool)
      BY <1>3
    <3> QED  BY <1>4, <3>2, <3>3, <3>4
  <2>2. CASE ~(t \in ToSet(active) /\ Len(active) > 1)
    <3>1. active' = <<t>> \o active /\ activeState' = t
      BY <2>2 DEF RunTool, t
    <3> QED  BY <1>3, <1>4, <3>1
  <2> QED  BY <2>1, <2>2
<1>8. UNCHANGED <<stack, queue, shuttingDown>>
  BY DEF RunTool
<1>9. ToolsTypeOK' /\ SameContexts
  BY <1>2, <1>6, <1>7, <1>8, CallsTyped DEF ContextInv, ToolsTypeOK, AnyFrame, SameContexts
<1> QED  BY <1>1, <1>9, QuietContexts

LEMMA PostContexts ==
    ASSUME ContextInv, Post
    PROVE  ContextInv'
<1>1. /\ UNCHANGED <<state, stack, active, activeState, shuttingDown, calls>> /\ queue' \in Seq(Event)
      /\ ToolsTypeOK'
  BY DEF Post, ContextInv, ToolsTypeOK, contexts
<1>2. FramesChained' /\ SameBodies /\ SameContexts
  BY <1>1 DEF ContextInv, FramesChained, SameBodies, SameContexts, Bodies
<1> QED  BY <1>1, <1>2, QuietContexts

LEMMA ActivateContexts ==
    ASSUME ContextInv, Activate
    PROVE  ContextInv'
<1>1. FramesChained' /\ SameBodies
  BY ActivateShape DEF ContextInv
<1>2. calls' \in Seq(AnyFrame)
  BY ActivatePushes DEF ContextInv, ChangedAndPushed
<1>3. UNCHANGED <<state, stack, active, activeState, queue, shuttingDown>>
  BY DEF Activate, contexts
<1>4. ToolsTypeOK' /\ SameContexts
  BY <1>2, <1>3, CallsTyped DEF ContextInv, ToolsTypeOK, AnyFrame, SameContexts
<1> QED  BY <1>1, <1>4, QuietContexts

\* Actions that put a handler on the call stack.
LEMMA WakeToolContexts ==
    ASSUME ContextInv, WakeTool
    PROVE  ContextInv'
<1>1. PICK i \in DOMAIN active :
        /\ InEvent("tools") /\ Top.at # Erased /\ i >= Top.at /\ WaitingAt(i)
        /\ state' = [state EXCEPT ![active[i]].waiting = FALSE, ![active[i]].pass = PassedByDefault(Top.event)]
        /\ activeState' = active[i]
        /\ calls' = Append(WithTop(WakingFrame(i, active[i], state[active[i]].co)),
                           Body(active[i], state[active[i]].co, FALSE, TRUE))
        /\ UNCHANGED <<stack, active, queue, shuttingDown>>
  BY DEF WakeTool, WakingFrame
<1>2. active[i] \in Tool
  BY CallsTyped DEF ContextInv
<1>3. PICK t \in Tool : t = active[i]
  BY <1>2
<1>4. PICK co : co = state[t].co
  OBVIOUS
<1>5. state[t].waiting /\ co \in 1 .. MaxContexts
  BY <1>1, <1>3, <1>4, WaitingAlone DEF ContextInv, WaitingAt
<1> DEFINE f == WakingFrame(i, t, co)
           b == Body(t, co, FALSE, TRUE)
<1>6. f \in EventFrames /\ ChangedAndPushed(f, b)
  BY <1>1, <1>3, <1>4, <1>5, WakingPushes DEF ContextInv
<1>7. b \in BodyFrames /\ b.tool = t /\ b.co = co
  BY <1>5, NewBody DEF Body
<1>8. calls # << >> /\ Top \in EventFrames /\ Top.kind # "body"
  BY <1>1, TopEvent DEF ContextInv, EventFrames
<1>9. SameShape(Top, f)
  <2>1. f.kind = Top.kind /\ f.pc = Top.pc /\ f.event = Top.event
    BY <1>8 DEF WakingFrame, EventFrames
  <2> QED  BY <1>8, <2>1 DEF SameShape, Dispatching, Activates
<1> HIDE DEF f, b
<1>10. FramesChained' /\ BodyAdded(t, co)
  BY <1>6, <1>7, <1>8, <1>9, HandlerPushedShape DEF ContextInv, AnyFrame
<1>11. state \in [Tool -> Context] /\ active \in Seq(Tool) /\ PassedByDefault(Top.event) \in BOOLEAN
  BY CallsTyped DEF ContextInv, PassedByDefault
<1>12. PICK pass \in BOOLEAN : pass = PassedByDefault(Top.event)
  BY <1>11
<1>13. state' = [state EXCEPT ![t].waiting = FALSE, ![t].pass = pass]
  BY <1>1, <1>3, <1>12
<1>14. /\ state' \in [Tool -> Context] /\ state'[t].waiting = FALSE
       /\ \A u \in Tool : /\ state'[u].co = state[u].co
                          /\ u # t => state'[u].waiting = state[u].waiting
  <2>1. [state[t] EXCEPT !.waiting = FALSE, !.pass = pass] \in Context
    BY <1>11 DEF Context
  <2>2. /\ state'[t].waiting = FALSE /\ state'[t].co = state[t].co
        /\ \A u \in Tool : u # t => state'[u] = state[u]
    BY <1>11, <1>13 DEF Context
  <2>3. state' \in [Tool -> Context]
    BY <1>11, <1>13, <2>1
  <2> QED  BY <2>2, <2>3
<1>15. stack' = stack
  BY <1>1
<1>16. ContextsAgree'
  BY <1>4, <1>5, <1>10, <1>14, <1>15, WokenAgree DEF ContextInv
<1>17. calls' \in Seq(AnyFrame)
  BY <1>6 DEF ChangedAndPushed
<1>18. ToolsTypeOK'
  BY <1>1, <1>2, <1>14, <1>17, CallsTyped DEF ContextInv, ToolsTypeOK, AnyFrame
<1> QED  BY <1>10, <1>16, <1>18 DEF ContextInv

LEMMA StartHandlerContexts ==
    ASSUME ContextInv, StartHandler
    PROVE  ContextInv'
<1>1. PICK t \in Tool :
        /\ InEvent("starts") /\ Startable(t) /\ StartContext(t) /\ activeState' = t
        /\ \E sync \in {None, <<t, NextContext(t)>>} :
             calls' = Append(WithTop(StartingFrame(t, sync)), StartingBody(t))
        /\ UNCHANGED <<active, queue, shuttingDown>>
  BY DEF StartHandler, StartingFrame, StartingBody
<1>2. PICK sync \in {None, <<t, NextContext(t)>>} :
        calls' = Append(WithTop(StartingFrame(t, sync)), StartingBody(t))
  BY <1>1
<1>3. /\ state[t] \in Context /\ stack[t] \in Seq(Context) /\ Len(stack[t]) \in Nat
      /\ state \in [Tool -> Context] /\ stack \in [Tool -> Seq(Context)]
  BY ContextTypes, CallsTyped DEF ContextInv
<1>4. NextContext(t) \in 1 .. MaxContexts /\ NextContext(t) \in 0 .. MaxContexts
  BY <1>1, <1>3, ToolManagerAssumption DEF Startable, NextContext
<1> DEFINE f == StartingFrame(t, sync)
           b == StartingBody(t)
<1>6. f \in EventFrames /\ ChangedAndPushed(f, b)
  BY <1>1, <1>2, <1>4, StartingPushes DEF ContextInv
<1>7. b \in BodyFrames /\ b.tool = t /\ b.co = NextContext(t)
  BY <1>4, NewBody DEF StartingBody, Body
<1>8. calls # << >> /\ Top \in EventFrames /\ Top.kind # "body"
  BY <1>1, TopEvent DEF ContextInv, EventFrames
<1>9. SameShape(Top, f)
  <2>1. f.kind = Top.kind /\ f.pc = Top.pc /\ f.event = Top.event
    BY <1>8 DEF StartingFrame, EventFrames
  <2> QED  BY <1>8, <2>1 DEF SameShape, Dispatching, Activates
<1> HIDE DEF f, b
<1>10. FramesChained' /\ BodyAdded(t, NextContext(t))
  BY <1>6, <1>7, <1>8, <1>9, HandlerPushedShape DEF ContextInv, AnyFrame
<1>11. ContextsAgree'
  BY <1>1, <1>10, StartedAgree DEF ContextInv
<1>12. state' \in [Tool -> Context] /\ stack' \in [Tool -> Seq(Context)]
  <2>1. CASE state[t].co = 0
    <3>1. 1 \in 0 .. MaxContexts
      BY ToolManagerAssumption
    <3>2. [state[t] EXCEPT !.co = 1, !.ready = FALSE] \in Context
      BY <1>3, <3>1 DEF Context
    <3>3. /\ state' = [state EXCEPT ![t].co = 1, ![t].ready = FALSE]
          /\ UNCHANGED stack
      BY <1>1, <2>1 DEF StartContext
    <3> QED  BY <1>3, <3>2, <3>3
  <2>2. CASE state[t].co # 0
    <3> DEFINE n == NextContext(t)
    <3>1. [state[t] EXCEPT !.co = n, !.waiting = FALSE, !.ready = FALSE, !.shutdown = FALSE] \in Context
      <4> HIDE DEF n
      <4>1. n \in 0 .. MaxContexts
        BY <1>4 DEF n
      <4> QED  BY <1>3, <4>1 DEF Context
    <3>2. state' = [state EXCEPT ![t].co = n, ![t].waiting = FALSE, ![t].ready = FALSE, ![t].shutdown = FALSE]
      BY <1>1, <2>2 DEF StartContext
    <3>3. stack' = [stack EXCEPT ![t] = Append(@, state[t])]
      BY <1>1, <2>2 DEF StartContext
    <3> HIDE DEF n
    <3>4. state' \in [Tool -> Context]
      BY <1>3, <3>1, <3>2
    <3>5. stack' \in [Tool -> Seq(Context)]
      BY <1>3, <3>3
    <3> QED  BY <3>4, <3>5
  <2> QED  BY <2>1, <2>2
<1>13. calls' \in Seq(AnyFrame)
  BY <1>6 DEF ChangedAndPushed
<1>14. ToolsTypeOK'
  BY <1>1, <1>12, <1>13, CallsTyped DEF ContextInv, ToolsTypeOK, AnyFrame
<1> QED  BY <1>10, <1>11, <1>14 DEF ContextInv

\* Actions that take a handler from the call stack.
LEMMA WaitContexts ==
    ASSUME ContextInv, Wait
    PROVE  ContextInv'
<1>1. InBody /\ ~Nested /\ Len(calls) > 1
  BY HandlerOnTop DEF Wait, ContextInv
<1>2. FramesChained' /\ BodyRemoved
  BY WaitShape DEF ContextInv
<1>3. PICK pass \in BOOLEAN :
        /\ Returned(WaitingFrame(pass))
        /\ state' = [state EXCEPT ![Top.tool].waiting = TRUE, ![Top.tool].pass = pass]
  BY <1>1, WaitReturns DEF ContextInv
<1>4. PICK t \in Tool : t = Top.tool
  BY <1>1, RunningIsCurrent DEF ContextInv
<1>5. state \in [Tool -> Context]
  BY CallsTyped DEF ContextInv
<1>6. state' = [state EXCEPT ![t].waiting = TRUE, ![t].pass = pass]
  BY <1>3, <1>4
<1>7. /\ state' \in [Tool -> Context] /\ state'[t].waiting = TRUE
      /\ \A u \in Tool : /\ state'[u].co = state[u].co
                         /\ u # t => state'[u].waiting = state[u].waiting
  <2>1. [state[t] EXCEPT !.waiting = TRUE, !.pass = pass] \in Context
    BY <1>5 DEF Context
  <2>2. /\ state'[t].waiting = TRUE /\ state'[t].co = state[t].co
        /\ \A u \in Tool : u # t => state'[u] = state[u]
    BY <1>5, <1>6 DEF Context
  <2>3. state' \in [Tool -> Context]
    BY <1>5, <1>6, <2>1
  <2> QED  BY <2>2, <2>3
<1>8. UNCHANGED <<stack, active, activeState, queue, shuttingDown>>
  BY DEF Wait
<1>9. ContextsAgree'
  BY <1>1, <1>2, <1>4, <1>7, <1>8, WaitingAgree DEF ContextInv
<1>10. calls' \in Seq(AnyFrame)
  BY <1>3 DEF Returned
<1>11. ToolsTypeOK'
  BY <1>7, <1>8, <1>10, CallsTyped DEF ContextInv, ToolsTypeOK, AnyFrame
<1> QED  BY <1>2, <1>9, <1>11 DEF ContextInv

LEMMA FinishContexts ==
    ASSUME ContextInv, Finish
    PROVE  ContextInv'
<1>1. InBody /\ Len(calls) > 1
  BY HandlerOnTop DEF Finish, ContextInv
<1>2. FramesChained' /\ BodyRemoved
  BY FinishShape DEF ContextInv
<1>3. PICK t \in Tool : t = Top.tool
  BY <1>1, RunningIsCurrent DEF ContextInv
<1>4. PICK n : n = Top.co
  OBVIOUS
<1>5. PICK pass \in BOOLEAN :
        FinishReturns(t, n, pass) /\ state' = [state EXCEPT ![t] = Popped(t, pass)]
  BY <1>1, <1>3, <1>4, FinishEffect DEF ContextInv
<1>6. stack' = [stack EXCEPT ![t] = IF @ = << >> THEN @ ELSE Front(@)]
  BY <1>3 DEF Finish
<1>7. ContextsAgree'
  BY <1>1, <1>2, <1>3, <1>4, <1>5, <1>6, FinishedAgree DEF ContextInv
<1>8. state \in [Tool -> Context] /\ stack \in [Tool -> Seq(Context)] /\ active \in Seq(Tool)
  BY CallsTyped DEF ContextInv
<1>9. state' \in [Tool -> Context]
  BY <1>5, <1>8, PoppedType DEF ContextInv
<1>10. stack' \in [Tool -> Seq(Context)]
  <2>1. stack[t] # << >> => Front(stack[t]) \in Seq(Context)
    BY <1>8, FrontLast
  <2> QED  BY <1>6, <1>8, <2>1
<1>11. active' \in Seq(Tool)
  <2>1. CASE TakenOff(t)
    <3>1. FirstIndex(t) \in 1 .. Len(active) /\ t \in ToSet(active)
      BY <1>8, <2>1, FirstIndexIs DEF TakenOff, ContextInv
    <3>2. active' = RemoveAt(active, FirstIndex(t))
      BY <1>3, <2>1, <3>1 DEF Finish
    <3> QED  BY <1>8, <3>1, <3>2, TakeOut DEF RemoveAt
  <2>2. CASE ~TakenOff(t)
    BY <1>3, <1>8, <2>2 DEF Finish
  <2> QED  BY <2>1, <2>2
<1>12. UNCHANGED <<queue, shuttingDown>> /\ activeState' \in Tool \cup {None}
  BY CallsTyped DEF Finish, ContextInv
<1>13. calls' \in Seq(AnyFrame)
  BY <1>5 DEF FinishReturns
<1>14. ToolsTypeOK'
  BY <1>9, <1>10, <1>11, <1>12, <1>13, CallsTyped DEF ContextInv, ToolsTypeOK, AnyFrame
<1> QED  BY <1>2, <1>7, <1>14 DEF ContextInv

\* The end of a frame.
LEMMA ShutdownAllToolsContexts ==
    ASSUME ContextInv, ShutdownAllTools
    PROVE  ContextInv'
<1> DEFINE f == ShutdownFrame(active)
<1>1. state \in [Tool -> Context] /\ active \in Seq(Tool) /\ calls = << >>
  BY CallsTyped DEF ContextInv, ShutdownAllTools
<1>2. f \in AnyFrame /\ f.kind = "shutdown" /\ Activates(f)
  BY <1>1 DEF ShutdownFrame, ShutdownFrames, AnyFrame, Activates
<1>3. calls' = <<f>>
  BY DEF ShutdownAllTools
<1> HIDE DEF f
<1>4. calls' \in Seq(AnyFrame) /\ Len(calls') = 1 /\ calls'[1] = f /\ Len(calls) = 0
  BY <1>1, <1>2, <1>3
<1>5. Kept(Len(calls))
  BY <1>4 DEF Kept
<1>6. FramesChained' /\ SameBodies
  <2>1. /\ Len(calls) + 1 = 1 /\ Len(calls') = Len(calls) + 1 /\ calls'[Len(calls) + 1] = f
        /\ ~(Len(calls) + 1 > 1) /\ f.kind # "body"
    BY <1>2, <1>4
  <2>2. /\ FramesChained'
        /\ Bodies' = Bodies \cup (IF f.kind = "body" THEN {Len(calls) + 1} ELSE {})
        /\ \A i \in Bodies : calls'[i].tool = calls[i].tool /\ calls'[i].co = calls[i].co
    <3> HIDE DEF ShutdownAllTools
    <3> QED  BY <1>1, <1>2, <1>5, <2>1, ShapeGrown DEF ContextInv
  <2> QED  BY <2>1, <2>2 DEF SameBodies
<1>7. /\ state' \in [Tool -> Context]
      /\ \A u \in Tool : state'[u].co = state[u].co /\ state'[u].waiting = state[u].waiting
  <2>1. state' = [t \in Tool |-> IF t \in ToSet(active) THEN [state[t] EXCEPT !.shutdown = TRUE] ELSE state[t]]
    BY DEF ShutdownAllTools
  <2>2. \A u \in Tool : [state[u] EXCEPT !.shutdown = TRUE] \in Context
    BY <1>1 DEF Context
  <2> QED  BY <1>1, <2>1, <2>2 DEF Context
<1>8. UNCHANGED <<stack, active, activeState, queue>> /\ shuttingDown' = TRUE
  BY DEF ShutdownAllTools
<1>9. ToolsTypeOK' /\ SameContexts
  BY <1>4, <1>7, <1>8, CallsTyped DEF ContextInv, ToolsTypeOK, AnyFrame, SameContexts
<1> QED  BY <1>6, <1>9, QuietContexts

ShutdownNext == [Top EXCEPT !.rest = Tail(@)]

LEMMA TopShutdown ==
    ASSUME ContextInv, calls # << >>, Top.kind = "shutdown"
    PROVE  /\ Top \in ShutdownFrames /\ Len(calls) = 1 /\ Top = calls[1] /\ Bodies = {}
           /\ Top.rest # << >> =>
                /\ Head(Top.rest) \in Tool /\ ShutdownNext \in AnyFrame
                /\ SameShape(Top, ShutdownNext) /\ ShutdownNext.kind = "shutdown"
<1>1. Top \in ShutdownFrames /\ Top = calls[Len(calls)] /\ Len(calls) \in DOMAIN calls
  BY TopFrame, FrameKinds DEF ContextInv
<1>2. Len(calls) = 1
  BY <1>1 DEF ContextInv, FramesChained
<1>3. Bodies = {}
  BY <1>1, <1>2, BodiesInside DEF Bodies, ContextInv
<1>4. ASSUME Top.rest # << >>
      PROVE  /\ Head(Top.rest) \in Tool /\ ShutdownNext \in AnyFrame
             /\ SameShape(Top, ShutdownNext) /\ ShutdownNext.kind = "shutdown"
  <2>1. Top.rest \in Seq(Tool)
    BY <1>1 DEF ShutdownFrames
  <2>2. Head(Top.rest) \in Tool /\ Tail(Top.rest) \in Seq(Tool)
    BY <1>4, <2>1
  <2>3. ShutdownNext \in ShutdownFrames /\ ShutdownNext.kind = "shutdown"
    BY <1>1, <2>2 DEF ShutdownFrames, ShutdownNext
  <2> QED  BY <1>1, <2>2, <2>3 DEF AnyFrame, SameShape, Dispatching, Activates
<1> QED  BY <1>1, <1>2, <1>3, <1>4

LEMMA ShutdownToolContexts ==
    ASSUME ContextInv, ShutdownTool
    PROVE  ContextInv'
<1>1. /\ calls # << >> /\ Top.kind = "shutdown" /\ Top.rest # << >> /\ Top.kind # "body"
      /\ UNCHANGED <<stack, active, queue, shuttingDown>>
  BY DEF ShutdownTool
<1>2. /\ Head(Top.rest) \in Tool /\ ShutdownNext \in AnyFrame
      /\ SameShape(Top, ShutdownNext) /\ Len(calls) = 1
  BY <1>1, TopShutdown
<1>3. PICK t \in Tool : t = Head(Top.rest)
  BY <1>2
<1>4. state \in [Tool -> Context] /\ active \in Seq(Tool)
  BY CallsTyped DEF ContextInv
<1>5. CASE t \in ToSet(active) /\ state[t].waiting
  <2>1. /\ state' = [state EXCEPT ![t].waiting = FALSE, ![t].shutdown = TRUE]
        /\ activeState' = t
        /\ calls' = Append(WithTop(ShutdownNext), Body(t, state[t].co, FALSE, TRUE))
    BY <1>3, <1>5 DEF ShutdownTool, ShutdownNext
  <2>2. PICK co : co = state[t].co
    OBVIOUS
  <2>3. co \in 1 .. MaxContexts
    BY <1>5, <2>2, WaitingAlone DEF ContextInv
  <2> DEFINE b == Body(t, co, FALSE, TRUE)
  <2>4. b \in BodyFrames /\ b.tool = t /\ b.co = co
    BY <2>3, NewBody DEF Body
  <2>5. calls' = Append(WithTop(ShutdownNext), b)
    BY <2>1, <2>2
  <2> HIDE DEF b
  <2>6. ChangedAndPushed(ShutdownNext, b)
    BY <1>1, <1>2, <2>4, <2>5, ChangeAndPush DEF AnyFrame, ContextInv
  <2>7. FramesChained' /\ BodyAdded(t, co)
    BY <1>1, <1>2, <2>4, <2>6, HandlerPushedShape DEF ContextInv
  <2>8. /\ state' \in [Tool -> Context] /\ state'[t].waiting = FALSE
        /\ \A u \in Tool : /\ state'[u].co = state[u].co
                           /\ u # t => state'[u].waiting = state[u].waiting
    <3>1. [state[t] EXCEPT !.waiting = FALSE, !.shutdown = TRUE] \in Context
      BY <1>4 DEF Context
    <3>2. /\ state'[t].waiting = FALSE /\ state'[t].co = state[t].co
          /\ \A u \in Tool : u # t => state'[u] = state[u]
      BY <1>4, <2>1 DEF Context
    <3>3. state' \in [Tool -> Context]
      BY <1>4, <2>1, <3>1
    <3> QED  BY <3>2, <3>3
  <2>9. ContextsAgree'
    BY <1>1, <1>5, <2>2, <2>7, <2>8, WokenAgree DEF ContextInv
  <2>10. calls' \in Seq(AnyFrame)
    BY <2>6 DEF ChangedAndPushed
  <2>11. ToolsTypeOK'
    BY <1>1, <2>1, <2>8, <2>10, CallsTyped DEF ContextInv, ToolsTypeOK, AnyFrame
  <2> QED  BY <2>7, <2>9, <2>11 DEF ContextInv
<1>6. CASE ~(t \in ToSet(active) /\ state[t].waiting)
  <2>1. calls' = WithTop(ShutdownNext) /\ UNCHANGED <<state, activeState>>
    BY <1>3, <1>6 DEF ShutdownTool, ShutdownNext
  <2>2. Changed(ShutdownNext)
    BY <1>1, <1>2, <2>1, Change DEF ContextInv
  <2>3. Kept(Len(calls')) /\ Len(calls') = Len(calls)
    BY <1>1, <1>2, <2>2, TopShutdown DEF Kept, Changed
  <2>4. FramesChained' /\ SameBodies
    BY <1>1, <2>3, TopShutdown, ShapeKept DEF ContextInv, SameBodies
  <2>5. calls' \in Seq(AnyFrame)
    BY <2>2 DEF Changed
  <2>6. ToolsTypeOK' /\ SameContexts
    BY <1>1, <2>1, <2>5, CallsTyped DEF ContextInv, ToolsTypeOK, AnyFrame, SameContexts
  <2> QED  BY <2>4, <2>6, QuietContexts
<1> QED  BY <1>5, <1>6

LEMMA EndShutdownContexts ==
    ASSUME ContextInv, EndShutdown
    PROVE  ContextInv'
<1>1. /\ calls # << >> /\ Top.kind = "shutdown" /\ calls' = << >>
      /\ UNCHANGED <<state, stack, active, activeState, queue, shuttingDown>>
  BY DEF EndShutdown, contexts
<1>2. FramesChained' /\ SameBodies
  BY <1>1, TopShutdown DEF FramesChained, SameBodies, Bodies
<1>3. ToolsTypeOK' /\ SameContexts
  BY <1>1, CallsTyped DEF ContextInv, ToolsTypeOK, SameContexts
<1> QED  BY <1>2, <1>3, QuietContexts

LEMMA ContextStep ==
    ASSUME ContextInv, [Next]_vars
    PROVE  ContextInv'
<1>1. CASE UNCHANGED vars
  BY <1>1 DEF vars, ContextInv, ToolsTypeOK, FramesChained, ContextsAgree, ContextsCounted,
              CurrentRunsOrWaits, OthersRunOrWait, HandlersOrdered, LaterOnesRun, OnCallStack, Bodies
<1>2. CASE UserEvent
  BY <1>2, UserEventContexts
<1>3. CASE Dispatch
  BY <1>3, WakeToolContexts, MovedOnContexts, StartHandlerContexts, RunToolContexts,
     ProcessQueuedContexts, EndEventContexts DEF Dispatch
<1>4. CASE Handler
  BY <1>4, RunNowContexts, PostContexts, ActivateContexts, WaitContexts, FinishContexts DEF Handler
<1>5. CASE Shutdown
  BY <1>5, ShutdownAllToolsContexts, ShutdownToolContexts, EndShutdownContexts,
     NewFrameContexts DEF Shutdown
<1> QED  BY <1>1, <1>2, <1>3, <1>4, <1>5 DEF Next

LEMMA ContextInvHolds == Spec => []ContextInv
<1>1. Init => ContextInv
  BY InitContexts
<1>2. ContextInv /\ [Next]_vars => ContextInv'
  BY ContextStep
<1> QED  BY <1>1, <1>2, PTL DEF Spec

\* The tools, their contexts, the list of active tools, the posted events and the
\* frames on the call stack keep their types: dispatching, runTool(), Push(),
\* Pop() and the iterators that move with their nodes leave no illegal value.
THEOREM ToolTypesHold == Spec => []ToolsTypeOK
<1>1. ContextInv => ToolsTypeOK
  BY DEF ContextInv
<1> QED  BY <1>1, ContextInvHolds, PTL

\* However deep dispatching nests, and however often tools restart and wait inside
\* of each other, a tool's contexts and its coroutines go together: Push() and
\* Pop() keep every context that waits, a handler waits if and only if it is not on
\* the call stack, and the one that runs is its tool's current one.
THEOREM CoroutinesRunOrWait == Spec => []CoroutineRunsOrWaits
<1>1. ContextInv => CoroutineRunsOrWaits
  BY AgreeingContexts DEF ContextInv
<1> QED  BY <1>1, ContextInvHolds, PTL

-----------------------------------------------------------------------------
(* The active tools.  From here on no tool posts the activation of another   *)
(* (Restarts = FALSE), and there is a selection tool (MainTool # {}).        *)

\* An activation that has not come to runTool() yet.
Pending(f) == f.kind = "event" /\ f.event.type = "activate" /\ f.pc # "queue"

\* Activate() has its event dispatched at once, by the handler that called it and
\* that is the only one of its tool up to there.
ActivationsHeld ==
    \A i \in DOMAIN calls : Pending(calls[i]) =>
        /\ i - 1 \in Bodies
        /\ calls[i - 1].tool = calls[i].event.tool /\ calls[i - 1].tool \notin MainTool
        /\ ~calls[i - 1].fresh /\ ~calls[i - 1].resumed
        /\ \A j \in Bodies : calls[j].tool = calls[i - 1].tool => j >= i - 1
NothingPosted == \A i \in DOMAIN queue : queue[i].type # "activate"
BodiesMarked == \A i \in Bodies : ~calls[i].fresh \/ ~calls[i].resumed

\* A tool is active from runTool() until its first handler ends.
Inactive(i) == calls[i].fresh \/ (i # Len(calls) /\ Pending(calls[i + 1]))
Activated(t) ==
    /\ state[t].co # 0
    /\ \A i \in Bodies : calls[i].tool = t /\ calls[i].co = 1 => ~Inactive(i)
ActiveOnceEach == \A i, j \in DOMAIN active : active[i] = active[j] => i = j
ActiveListed == \A t \in Tool : t \in ToSet(active) <=> Activated(t)

\* Until the frame is destroyed the selection tools stay active.
MainToolsStay ==
    ~shuttingDown =>
        /\ MainTool \subseteq ToSet(active)
        /\ \A t \in Tool : ~state[t].shutdown /\ \A k \in DOMAIN stack[t] : ~stack[t][k].shutdown
        /\ \A i \in DOMAIN calls : calls[i].kind # "shutdown"

\* Then each of the tools is woken up, and nothing else runs.
ShutdownAlone ==
    shuttingDown =>
        /\ Len(calls) <= 2
        /\ Len(calls) >= 1 => calls[1].kind = "shutdown"
        /\ Len(calls) = 2 => calls[2].kind = "body" /\ calls[2].resumed /\ ~calls[2].fresh

ActiveInv ==
    /\ ActivationsHeld /\ NothingPosted /\ BodiesMarked
    /\ ActiveOnceEach /\ ActiveListed /\ MainToolsStay /\ ShutdownAlone

\* What a frame means for the active tools.
Like(f, g) ==
    /\ g.kind = f.kind
    /\ f.kind = "body" => g = f
    /\ f.kind = "event" => g.event = f.event /\ (Pending(g) <=> Pending(f))

\* The next position, and the last one.
LEMMA NextInside ==
    ASSUME NEW m \in Nat, NEW j \in 1 .. m, j # m
    PROVE  j + 1 \in 1 .. m /\ j + 1 # m + 1 /\ j < m /\ j + 1 > 1
  OBVIOUS

LEMMA OneLess ==
    ASSUME NEW l \in Nat, NEW m \in Nat, m = l \/ m = l - 1
    PROVE  /\ \A i \in 1 .. l : i \in 1 .. m \/ i = m + 1
           /\ \A i \in 1 .. m : i \in 1 .. l /\ i \in Nat /\ i <= m /\ (i # m => i # l)
           /\ m # l => l = m + 1
  OBVIOUS

LEMMA LikeItself == \A f : Like(f, f)
  BY DEF Like

LEMMA LikeChain ==
    ASSUME NEW f, NEW g, NEW h, Like(f, g), Like(g, h)
    PROVE  Like(f, h)
  BY DEF Like

\* The frames of processEvent() that only their own variables tell apart.
LEMMA EventsAlike ==
    ASSUME NEW f \in EventFrames, NEW g, g.kind = "event", g.event = f.event,
           Pending(g) <=> Pending(f)
    PROVE  Like(f, g)
  BY DEF Like, EventFrames

LEMMA MovedAlike ==
    ASSUME NEW f \in AnyFrame, NEW k, NEW co
    PROVE  Like(f, ShiftedAt(f)) /\ Like(f, ClosedAt(f, k)) /\ Like(f, Unsynced(f, co))
<1>1. CASE f.kind = "event"
  <2>1. f \in EventFrames
    BY <1>1, FrameKinds
  <2>2. ASSUME NEW a
        PROVE  Like(f, [f EXCEPT !.at = a]) /\ Like(f, [f EXCEPT !.sync = a])
    BY <2>1, EventsAlike DEF EventFrames, Pending
  <2>3. Like(f, ShiftedAt(f))
    BY <2>2, LikeItself DEF ShiftedAt
  <2>4. Like(f, ClosedAt(f, k))
    BY <2>2, LikeItself DEF ClosedAt
  <2>5. Like(f, Unsynced(f, co))
    BY <2>2, LikeItself DEF Unsynced
  <2> QED  BY <2>3, <2>4, <2>5
<1> QED  BY <1>1, LikeItself DEF ShiftedAt, ClosedAt, Unsynced

LEMMA ResumedAlike ==
    ASSUME NEW f \in AnyFrame, NEW at, NEW pass
    PROVE  Like(f, Resumed(f, at, pass))
<1>1. CASE f.kind = "event" /\ f.pc = "tools"
  <2>1. f \in EventFrames
    BY <1>1, FrameKinds
  <2>2. Like(f, [f EXCEPT !.at = at])
    BY <2>1, EventsAlike DEF EventFrames, Pending
  <2>3. Like(f, [f EXCEPT !.pc = AfterDispatch(f.event)])
    <3>1. PICK g : g = [f EXCEPT !.pc = AfterDispatch(f.event)]
      OBVIOUS
    <3>2. g.kind = "event" /\ g.event = f.event /\ g.pc = AfterDispatch(f.event)
      BY <2>1, <3>1 DEF EventFrames
    <3>3. Pending(g) <=> Pending(f)
      BY <1>1, <3>2 DEF Pending, AfterDispatch
    <3> QED  BY <2>1, <3>1, <3>2, <3>3, EventsAlike
  <2> QED  BY <1>1, <2>2, <2>3 DEF Resumed
<1> QED  BY <1>1, LikeItself DEF Resumed

\* One more frame, which is not an activation.
LEMMA ActivityGrown ==
    ASSUME ToolsTypeOK, ActivationsHeld, BodiesMarked, NEW n \in Nat, n = Len(calls) + 1,
           calls' \in Seq(AnyFrame), Len(calls') = n,
           \A i \in 1 .. Len(calls) : Like(calls[i], calls'[i]),
           ~Pending(calls'[n]), calls'[n].kind = "body" => ~calls'[n].fresh \/ ~calls'[n].resumed
    PROVE  /\ ActivationsHeld' /\ BodiesMarked'
           /\ \A i \in Bodies : i \in Bodies' /\ calls'[i] = calls[i] /\ (Inactive(i)' <=> Inactive(i))
           /\ \A i \in Bodies' : i \in Bodies \/ i = n
           /\ n \in Bodies' <=> calls'[n].kind = "body"
           /\ Inactive(n)' <=> calls'[n].fresh
<1>1. /\ Len(calls) \in Nat /\ DOMAIN calls = 1 .. Len(calls) /\ DOMAIN calls' = 1 .. n
      /\ \A i \in 1 .. n : i \in 1 .. Len(calls) \/ i = n
      /\ \A i \in 1 .. Len(calls) : i \in 1 .. n /\ i # n /\ i \in Nat
      /\ n \in 1 .. n
  BY CallTypes
<1>2. \A i \in Bodies : i \in Bodies' /\ calls'[i] = calls[i] /\ i \in 1 .. Len(calls)
  BY <1>1 DEF Bodies, Like
<1>3. \A i \in Bodies' : i \in Bodies \/ i = n
  BY <1>1 DEF Bodies, Like
<1>4. ASSUME NEW i \in DOMAIN calls', Pending(calls'[i])
      PROVE  i \in DOMAIN calls /\ Pending(calls[i]) /\ calls'[i].event = calls[i].event
  BY <1>1, <1>4 DEF Like, Pending
<1>5. ActivationsHeld'
  <2>1. SUFFICES ASSUME NEW i \in DOMAIN calls', Pending(calls'[i])
                 PROVE  /\ i - 1 \in Bodies'
                        /\ calls'[i - 1].tool = calls'[i].event.tool /\ calls'[i - 1].tool \notin MainTool
                        /\ ~calls'[i - 1].fresh /\ ~calls'[i - 1].resumed
                        /\ \A j \in Bodies' : calls'[j].tool = calls'[i - 1].tool => j >= i - 1
    BY DEF ActivationsHeld, Pending
  <2>2. i \in 1 .. Len(calls) /\ Pending(calls[i]) /\ calls'[i].event = calls[i].event
    BY <1>1, <1>4, <2>1
  <2>3. /\ i - 1 \in Bodies
        /\ calls[i - 1].tool = calls[i].event.tool /\ calls[i - 1].tool \notin MainTool
        /\ ~calls[i - 1].fresh /\ ~calls[i - 1].resumed
        /\ \A j \in Bodies : calls[j].tool = calls[i - 1].tool => j >= i - 1
    BY <1>1, <2>2 DEF ActivationsHeld
  <2>4. i - 1 \in Bodies' /\ calls'[i - 1] = calls[i - 1]
    BY <1>2, <2>3
  <2>5. n >= i - 1
    BY <1>1, <2>2
  <2> QED  BY <1>2, <1>3, <2>2, <2>3, <2>4, <2>5
<1>6. BodiesMarked'
  BY <1>2, <1>3 DEF BodiesMarked, Bodies
<1>7. \A i \in Bodies : Inactive(i)' <=> Inactive(i)
  <2> TAKE i \in Bodies
  <2>1. i \in 1 .. Len(calls) /\ calls'[i] = calls[i] /\ i # n
    BY <1>1, <1>2
  <2>2. CASE i = Len(calls)
    BY <2>1, <2>2 DEF Inactive
  <2>3. CASE i # Len(calls)
    <3>1. i + 1 \in 1 .. Len(calls)
      <4>1. Len(calls) \in Nat
        BY <1>1
      <4> QED  BY <2>1, <2>3, <4>1, NextInside
    <3>2. Pending(calls'[i + 1]) <=> Pending(calls[i + 1])
      BY <3>1 DEF Like, Pending
    <3>3. i # Len(calls')
      BY <2>1
    <3> QED  BY <2>1, <2>3, <3>2, <3>3 DEF Inactive
  <2> QED  BY <2>2, <2>3
<1>8. n \in Bodies' <=> calls'[n].kind = "body"
  BY <1>1 DEF Bodies
<1>9. Inactive(n)' <=> calls'[n].fresh
  BY DEF Inactive
<1> QED  BY <1>2, <1>3, <1>5, <1>6, <1>7, <1>8, <1>9

\* The frames change, or all but the last one, which is not an activation.
LEMMA ActivityShrunk ==
    ASSUME ToolsTypeOK, ActivationsHeld, BodiesMarked, NEW m \in Nat,
           m = Len(calls) \/ (m = Len(calls) - 1 /\ ~Pending(calls[Len(calls)])),
           calls' \in Seq(AnyFrame), Len(calls') = m,
           \A i \in 1 .. m : Like(calls[i], calls'[i])
    PROVE  /\ ActivationsHeld' /\ BodiesMarked'
           /\ \A i \in Bodies' : i \in Bodies /\ i <= m /\ calls'[i] = calls[i] /\ (Inactive(i)' <=> Inactive(i))
           /\ \A i \in Bodies : i \in Bodies' \/ i = m + 1
<1>1. /\ Len(calls) \in Nat /\ DOMAIN calls = 1 .. Len(calls) /\ DOMAIN calls' = 1 .. m
      /\ \A i \in 1 .. Len(calls) : i \in 1 .. m \/ i = m + 1
      /\ \A i \in 1 .. m : i \in 1 .. Len(calls) /\ i \in Nat /\ i <= m /\ (i # m => i # Len(calls))
      /\ m # Len(calls) => ~Pending(calls[m + 1])
  <2>1. Len(calls) \in Nat /\ DOMAIN calls = 1 .. Len(calls) /\ DOMAIN calls' = 1 .. m
    <3>1. \A r \in Seq(AnyFrame) : DOMAIN r = 1 .. Len(r)
      OBVIOUS
    <3>2. Len(calls) \in Nat /\ DOMAIN calls = 1 .. Len(calls)
      BY CallTypes
    <3>3. DOMAIN calls' = 1 .. Len(calls')
      BY <3>1
    <3> QED  BY <3>2, <3>3
  <2>2. m = Len(calls) \/ m = Len(calls) - 1
    OBVIOUS
  <2>3. /\ \A i \in 1 .. Len(calls) : i \in 1 .. m \/ i = m + 1
        /\ \A i \in 1 .. m : i \in 1 .. Len(calls) /\ i \in Nat /\ i <= m /\ (i # m => i # Len(calls))
        /\ m # Len(calls) => Len(calls) = m + 1
    BY <2>1, <2>2, OneLess
  <2>4. m # Len(calls) => ~Pending(calls[Len(calls)])
    <3>1. m # Len(calls) => m = Len(calls) - 1 /\ ~Pending(calls[Len(calls)])
      OBVIOUS
    <3> QED  BY <3>1
  <2> QED  BY <2>1, <2>3, <2>4
<1>2. \A i \in Bodies' : i \in Bodies /\ calls'[i] = calls[i] /\ i \in 1 .. m
  BY <1>1 DEF Bodies, Like
<1>3. \A i \in Bodies : i \in Bodies' \/ i = m + 1
  BY <1>1 DEF Bodies, Like
<1>4. ActivationsHeld'
  <2>1. SUFFICES ASSUME NEW i \in DOMAIN calls', Pending(calls'[i])
                 PROVE  /\ i - 1 \in Bodies'
                        /\ calls'[i - 1].tool = calls'[i].event.tool /\ calls'[i - 1].tool \notin MainTool
                        /\ ~calls'[i - 1].fresh /\ ~calls'[i - 1].resumed
                        /\ \A j \in Bodies' : calls'[j].tool = calls'[i - 1].tool => j >= i - 1
    BY DEF ActivationsHeld, Pending
  <2>2. i \in 1 .. m /\ Pending(calls[i]) /\ calls'[i].event = calls[i].event
    <3>1. i \in 1 .. m
      BY <1>1
    <3>2. Like(calls[i], calls'[i])
      BY <3>1
    <3> QED  BY <2>1, <3>1, <3>2 DEF Like, Pending
  <2>3. /\ i - 1 \in Bodies
        /\ calls[i - 1].tool = calls[i].event.tool /\ calls[i - 1].tool \notin MainTool
        /\ ~calls[i - 1].fresh /\ ~calls[i - 1].resumed
        /\ \A j \in Bodies : calls[j].tool = calls[i - 1].tool => j >= i - 1
    BY <1>1, <2>2 DEF ActivationsHeld
  <2>4. i - 1 # m + 1
    BY <2>2
  <2>5. i - 1 \in Bodies' /\ calls'[i - 1] = calls[i - 1]
    BY <1>2, <1>3, <2>3, <2>4
  <2> QED  BY <1>2, <2>2, <2>3, <2>5
<1>5. BodiesMarked'
  BY <1>2 DEF BodiesMarked
<1>6. \A i \in Bodies' : Inactive(i)' <=> Inactive(i)
  <2> TAKE i \in Bodies'
  <2>1. i \in 1 .. m /\ calls'[i] = calls[i]
    BY <1>2
  <2>2. CASE i = m
    <3>1. i # Len(calls) => ~Pending(calls[i + 1])
      BY <1>1, <2>2
    <3>2. i = Len(calls')
      BY <2>2
    <3> QED  BY <2>1, <3>1, <3>2 DEF Inactive
  <2>3. CASE i # m
    <3>1. i + 1 \in 1 .. m
      BY <2>1, <2>3, NextInside
    <3>2. i # Len(calls) /\ i # Len(calls')
      BY <1>1, <2>1, <2>3
    <3>3. Pending(calls'[i + 1]) <=> Pending(calls[i + 1])
      BY <3>1 DEF Like, Pending
    <3> QED  BY <2>1, <3>2, <3>3 DEF Inactive
  <2> QED  BY <2>2, <2>3
<1> QED  BY <1>1, <1>2, <1>3, <1>4, <1>5, <1>6

\* Who is active stays the same.
LEMMA ActivatedKept ==
    ASSUME NEW t, state'[t].co # 0 <=> state[t].co # 0,
           \A i \in Bodies' : calls'[i].tool = t /\ calls'[i].co = 1 =>
               ~Inactive(i)' \/ (i \in Bodies /\ calls'[i] = calls[i] /\ Inactive(i)),
           \A i \in Bodies : calls[i].tool = t /\ calls[i].co = 1 =>
               ~Inactive(i) \/ (i \in Bodies' /\ calls'[i] = calls[i] /\ Inactive(i)')
    PROVE  Activated(t)' <=> Activated(t)
<1>1. ASSUME Activated(t)  PROVE Activated(t)'
  BY <1>1 DEF Activated
<1>2. ASSUME Activated(t)'  PROVE Activated(t)
  BY <1>2 DEF Activated
<1> QED  BY <1>1, <1>2

LEMMA QuietActive ==
    ASSUME ActiveInv, ActivationsHeld', BodiesMarked', NothingPosted', MainToolsStay', ShutdownAlone',
           active' = active, \A t \in Tool : Activated(t)' <=> Activated(t)
    PROVE  ActiveInv'
  BY DEF ActiveInv, ActiveOnceEach, ActiveListed

LEMMA MainToolsKept ==
    ASSUME MainToolsStay, shuttingDown' = shuttingDown, active' = active, stack' = stack,
           \A t \in Tool : state'[t].shutdown = state[t].shutdown,
           \A i \in DOMAIN calls' : calls'[i].kind # "shutdown" \/ (i \in DOMAIN calls /\ calls[i].kind = "shutdown")
    PROVE  MainToolsStay'
  BY DEF MainToolsStay

\* While a frame is destroyed no event is dispatched, and no handler starts.
LEMMA EventsRunOpen ==
    ASSUME ToolsTypeOK, ShutdownAlone, calls # << >>,
           Top.kind = "event" \/ (Top.kind = "body" /\ (Top.fresh \/ ~Top.resumed))
    PROVE  ~shuttingDown
<1>1. Top = calls[Len(calls)] /\ Len(calls) \in Nat /\ Len(calls) # 0
  BY CallTypes
<1>2. ASSUME shuttingDown  PROVE FALSE
  <2>1. /\ Len(calls) <= 2 /\ calls[1].kind = "shutdown"
        /\ Len(calls) = 2 => calls[2].kind = "body" /\ calls[2].resumed /\ ~calls[2].fresh
    BY <1>1, <1>2 DEF ShutdownAlone
  <2>2. Len(calls) = 1 \/ Len(calls) = 2
    <3>1. \A l \in Nat : l # 0 /\ l <= 2 => l = 1 \/ l = 2
      OBVIOUS
    <3>2. Len(calls) \in Nat /\ Len(calls) # 0 /\ Len(calls) <= 2
      BY <1>1, <2>1
    <3> QED  BY <3>1, <3>2
  <2>3. CASE Len(calls) = 1
    <3>1. Top = calls[1]
      BY <1>1, <2>3
    <3> QED  BY <2>1, <3>1
  <2>4. CASE Len(calls) = 2
    <3>1. Top = calls[2]
      BY <1>1, <2>4
    <3> QED  BY <2>1, <2>4, <3>1
  <2> QED  BY <2>2, <2>3, <2>4
<1> QED  BY <1>2

\* An event that is no activation is begun.
LEMMA EventPushedActive ==
    ASSUME ToolsTypeOK, ActiveInv, NEW e, e.type # "activate", EventPushed(e), ~shuttingDown,
           UNCHANGED <<state, stack, active, shuttingDown>>, NothingPosted'
    PROVE  ActiveInv'
<1>1. PICK f : Pushed(f) /\ f.kind = "event" /\ ~Pending(f)
  BY DEF EventPushed, EventFrame, Pending
<1>2. Len(calls) \in Nat /\ DOMAIN calls = 1 .. Len(calls)
  BY CallTypes
<1>3. PICK n \in Nat : n = Len(calls) + 1
  BY <1>2
<1>4. /\ calls' \in Seq(AnyFrame) /\ Len(calls') = n /\ calls'[n] = f
      /\ \A i \in 1 .. Len(calls) : calls'[i] = calls[i]
  BY <1>1, <1>3 DEF Pushed
<1>5. \A i \in 1 .. Len(calls) : Like(calls[i], calls'[i])
  BY <1>4, LikeItself
<1>6. ActivationsHeld /\ BodiesMarked
  BY DEF ActiveInv
<1>7. ~Pending(calls'[n]) /\ calls'[n].kind # "body"
  BY <1>1, <1>4
<1>8. /\ ActivationsHeld' /\ BodiesMarked'
      /\ \A i \in Bodies : i \in Bodies' /\ calls'[i] = calls[i] /\ (Inactive(i)' <=> Inactive(i))
      /\ \A i \in Bodies' : i \in Bodies
  BY <1>3, <1>4, <1>5, <1>6, <1>7, ActivityGrown
<1>9. \A t \in Tool : Activated(t)' <=> Activated(t)
  BY <1>8, ActivatedKept
<1>10. DOMAIN calls' = 1 .. n /\ \A i \in 1 .. n : i \in 1 .. Len(calls) \/ i = n
  BY <1>2, <1>3, <1>4
<1>11. MainToolsStay'
  BY <1>1, <1>2, <1>4, <1>10, MainToolsKept DEF ActiveInv
<1>12. ShutdownAlone'
  BY DEF ShutdownAlone
<1> QED  BY <1>8, <1>9, <1>11, <1>12, QuietActive

LEMMA UserEventActive ==
    ASSUME ToolsTypeOK, ActiveInv, UserEvent
    PROVE  ActiveInv'
<1>1. PICK e \in Event : e.type # "activate" /\ EventPushed(e)
  BY UserEventPushes
<1>2. ~shuttingDown /\ UNCHANGED <<state, stack, active, queue, shuttingDown>>
  BY DEF UserEvent, contexts
<1>3. NothingPosted'
  BY <1>2 DEF ActiveInv, NothingPosted
<1> QED  BY <1>1, <1>2, <1>3, EventPushedActive

LEMMA RunNowActive ==
    ASSUME ToolsTypeOK, ActiveInv, RunNow
    PROVE  ActiveInv'
<1>1. PICK e \in Event : e.type # "activate" /\ EventPushed(e)
  BY RunNowPushes
<1>2. ~shuttingDown /\ UNCHANGED <<state, stack, active, queue, shuttingDown>>
  BY DEF RunNow, contexts
<1>3. NothingPosted'
  BY <1>2 DEF ActiveInv, NothingPosted
<1> QED  BY <1>1, <1>2, <1>3, EventPushedActive

LEMMA ProcessQueuedActive ==
    ASSUME ToolsTypeOK, ActiveInv, ProcessQueued
    PROVE  ActiveInv'
<1>1. EventPushed(Head(queue))
  BY ProcessQueuedPushes
<1>2. queue # << >> /\ queue' = Tail(queue) /\ UNCHANGED <<state, stack, active, shuttingDown>>
  BY DEF ProcessQueued, contexts
<1>3. queue \in Seq(Event)
  BY DEF ToolsTypeOK
<1>4. Head(queue) = queue[1] /\ 1 \in DOMAIN queue /\ \A i \in DOMAIN queue' : i + 1 \in DOMAIN queue /\ queue'[i] = queue[i + 1]
  BY <1>2, <1>3
<1>5. NothingPosted' /\ Head(queue).type # "activate"
  BY <1>4 DEF ActiveInv, NothingPosted
<1>6. calls # << >> /\ Top.kind = "event"
  BY DEF ProcessQueued, InEvent
<1>7. ~shuttingDown
  BY <1>6, EventsRunOpen DEF ActiveInv
<1> QED  BY <1>1, <1>2, <1>5, <1>7, EventPushedActive

LEMMA PostActive ==
    ASSUME ToolsTypeOK, ActiveInv, Restarts = FALSE, Post
    PROVE  ActiveInv'
<1>1. UNCHANGED <<state, stack, active, shuttingDown, calls>>
  BY DEF Post, contexts
<1>2. PICK e \in Event : e.type # "activate" /\ queue' = Append(queue, e)
  BY DEF Post
<1>3. queue \in Seq(Event)
  BY DEF ToolsTypeOK
<1>4. \A i \in DOMAIN queue' : queue'[i] = e \/ (i \in DOMAIN queue /\ queue'[i] = queue[i])
  BY <1>2, <1>3
<1>5. NothingPosted'
  BY <1>2, <1>4 DEF ActiveInv, NothingPosted
<1>6. Bodies' = Bodies /\ \A i \in Bodies : Inactive(i)' <=> Inactive(i)
  BY <1>1 DEF Bodies, Inactive
<1>7. \A t \in Tool : Activated(t)' <=> Activated(t)
  BY <1>1, <1>6, ActivatedKept
<1>8. ActivationsHeld' /\ BodiesMarked' /\ MainToolsStay' /\ ShutdownAlone'
  BY <1>1, <1>6 DEF ActiveInv, ActivationsHeld, BodiesMarked, MainToolsStay, ShutdownAlone
<1> QED  BY <1>1, <1>5, <1>7, <1>8, QuietActive

\* The frames change but for their variables, or the running one ends; it is no
\* handler.
LEMMA FramesChangedActive ==
    ASSUME ToolsTypeOK, ActiveInv, NEW m \in Nat,
           m = Len(calls) \/ (m = Len(calls) - 1 /\ ~Pending(calls[Len(calls)]) /\ calls[Len(calls)].kind # "body"),
           calls' \in Seq(AnyFrame), Len(calls') = m,
           \A i \in 1 .. m : Like(calls[i], calls'[i]),
           UNCHANGED <<state, stack, active, queue, shuttingDown>>
    PROVE  ActiveInv'
<1>1. ActivationsHeld /\ BodiesMarked
  BY DEF ActiveInv
<1>2. m = Len(calls) \/ (m = Len(calls) - 1 /\ ~Pending(calls[Len(calls)]))
  OBVIOUS
<1>3. /\ ActivationsHeld' /\ BodiesMarked'
      /\ \A i \in Bodies' : i \in Bodies /\ i <= m /\ calls'[i] = calls[i] /\ (Inactive(i)' <=> Inactive(i))
      /\ \A i \in Bodies : i \in Bodies' \/ i = m + 1
  BY <1>1, <1>2, ActivityShrunk
<1>4. Len(calls) \in Nat /\ DOMAIN calls = 1 .. Len(calls) /\ DOMAIN calls' = 1 .. m
  <2>1. \A r \in Seq(AnyFrame) : DOMAIN r = 1 .. Len(r)
    OBVIOUS
  <2> QED  BY <2>1, CallTypes
<1>5. \A i \in Bodies : i \in Bodies'
  <2>1. SUFFICES ASSUME NEW i \in Bodies, i = m + 1  PROVE FALSE
    BY <1>3
  <2>2. i \in 1 .. Len(calls) /\ calls[i].kind = "body"
    BY <1>4 DEF Bodies
  <2>3. m # Len(calls)
    <3>1. \A l \in Nat : l + 1 \notin 1 .. l
      OBVIOUS
    <3>2. m + 1 \in 1 .. Len(calls)
      BY <2>1, <2>2
    <3> QED  BY <3>1, <3>2
  <2>4. Len(calls) = m + 1
    BY <1>2, <1>4, <2>3, OneLess
  <2>5. calls[Len(calls)].kind # "body"
    BY <2>3
  <2> QED  BY <2>1, <2>2, <2>4, <2>5
<1>6. \A t \in Tool : Activated(t)' <=> Activated(t)
  BY <1>3, <1>5, ActivatedKept
<1>7. \A i \in 1 .. m : i \in 1 .. Len(calls) /\ i \in Nat
  BY <1>2, <1>4, OneLess
<1>8. MainToolsStay'
  BY <1>4, <1>7, MainToolsKept DEF ActiveInv, Like
<1>9. NothingPosted'
  BY DEF ActiveInv, NothingPosted
<1>10. ShutdownAlone'
  <2>1. SUFFICES ASSUME shuttingDown
                 PROVE  /\ m <= 2 /\ (m >= 1 => calls'[1].kind = "shutdown")
                        /\ m = 2 => calls'[2].kind = "body" /\ calls'[2].resumed /\ ~calls'[2].fresh
    BY DEF ShutdownAlone
  <2>2. /\ Len(calls) <= 2 /\ (Len(calls) >= 1 => calls[1].kind = "shutdown")
        /\ Len(calls) = 2 => calls[2].kind = "body" /\ calls[2].resumed /\ ~calls[2].fresh
    BY <2>1 DEF ActiveInv, ShutdownAlone
  <2>3. \A l \in Nat : m = l \/ m = l - 1 => m <= l /\ (l <= 2 => m <= 2 /\ (m = 2 => l = 2)) /\ (m >= 1 => l >= 1)
    OBVIOUS
  <2>4. m <= 2 /\ (m >= 1 => Len(calls) >= 1) /\ (m = 2 => Len(calls) = 2)
    <3>1. Len(calls) \in Nat /\ Len(calls) <= 2
      BY <1>4, <2>2
    <3> QED  BY <1>2, <2>3, <3>1
  <2>5. m >= 1 => calls'[1].kind = "shutdown"
    <3>1. m >= 1 => 1 \in 1 .. m
      OBVIOUS
    <3> QED  BY <2>2, <2>4, <3>1 DEF Like
  <2>6. m = 2 => calls'[2] = calls[2]
    <3>1. m = 2 => 2 \in 1 .. m
      OBVIOUS
    <3> QED  BY <2>2, <2>4, <3>1 DEF Like
  <2> QED  BY <2>2, <2>4, <2>5, <2>6
<1> QED  BY <1>3, <1>6, <1>8, <1>9, <1>10, QuietActive

LEMMA ChangedAlike ==
    ASSUME ToolsTypeOK, calls # << >>, NEW f, Changed(f), Like(Top, f)
    PROVE  /\ calls' \in Seq(AnyFrame) /\ Len(calls') = Len(calls)
           /\ \A i \in 1 .. Len(calls) : Like(calls[i], calls'[i])
<1>1. Len(calls) \in Nat /\ Top = calls[Len(calls)]
  BY CallTypes
<1>2. \A i \in 1 .. Len(calls) : i \in 1 .. (Len(calls) - 1) \/ i = Len(calls)
  BY <1>1
<1>3. \A i \in 1 .. (Len(calls) - 1) : Like(calls[i], calls'[i])
  BY LikeItself DEF Changed
<1>4. Like(calls[Len(calls)], calls'[Len(calls)])
  BY <1>1 DEF Changed
<1> QED  BY <1>2, <1>3, <1>4 DEF Changed

LEMMA MovedOnActive ==
    ASSUME ToolsTypeOK, ActiveInv, NobodyWaits \/ NobodyStarts
    PROVE  ActiveInv'
<1>1. PICK pc : /\ MovedOn(pc) /\ Top.pc \in {"tools", "starts"}
                /\ pc = "starts" \/ pc = AfterDispatch(Top.event)
  BY NobodyWaitsMoves, NobodyStartsMoves DEF NobodyWaits, NobodyStarts, InEvent
<1>2. PICK f : f = [Top EXCEPT !.pc = pc]
  OBVIOUS
<1>3. calls # << >> /\ Top \in EventFrames /\ Changed(f)
  BY <1>1, <1>2 DEF MovedOn
<1>4. f.kind = "event" /\ f.event = Top.event /\ f.pc = pc /\ Top.kind = "event"
  BY <1>2, <1>3 DEF EventFrames
<1>5. Pending(f) <=> Pending(Top)
  BY <1>1, <1>4 DEF Pending, AfterDispatch
<1>6. Like(Top, f)
  BY <1>3, <1>4, <1>5, EventsAlike
<1>7. UNCHANGED <<state, stack, active, queue, shuttingDown>>
  BY DEF NobodyWaits, NobodyStarts, contexts
<1>8. Len(calls) \in Nat
  BY CallTypes
<1>9. /\ calls' \in Seq(AnyFrame) /\ Len(calls') = Len(calls)
      /\ \A i \in 1 .. Len(calls) : Like(calls[i], calls'[i])
  BY <1>3, <1>6, ChangedAlike
<1> QED  BY <1>7, <1>8, <1>9, FramesChangedActive

LEMMA EndEventActive ==
    ASSUME ToolsTypeOK, ActiveInv, EndEvent
    PROVE  ActiveInv'
<1>1. calls # << >> /\ Top.kind = "event" /\ Top.pc = "queue" /\ calls' = Front(calls)
  BY DEF EndEvent, InEvent
<1>2. Ended
  BY <1>1, End
<1>3. Top = calls[Len(calls)] /\ Len(calls) \in Nat /\ Len(calls) # 0
  BY <1>1, CallTypes
<1>4. UNCHANGED <<state, stack, active, queue, shuttingDown>>
  BY DEF EndEvent, contexts
<1>5. PICK m \in Nat : m = Len(calls) - 1
  BY <1>3
<1>6. calls' \in Seq(AnyFrame) /\ Len(calls') = m /\ \A i \in 1 .. m : Like(calls[i], calls'[i])
  BY <1>2, <1>5, LikeItself DEF Ended
<1>7. ~Pending(calls[Len(calls)]) /\ calls[Len(calls)].kind # "body"
  BY <1>1, <1>3 DEF Pending
<1> QED  BY <1>4, <1>5, <1>6, <1>7, FramesChangedActive

LEMMA TopOrBelow ==
    ASSUME NEW l \in Nat
    PROVE  /\ \A i \in 1 .. l : i \in 1 .. (l - 1) \/ i = l
           /\ \A i \in 1 .. (l + 1) : i = l + 1 \/ i = l \/ (i \in 1 .. (l - 1) /\ i \in 1 .. l)
           /\ \A i \in 1 .. (l - 1) : i \in 1 .. l /\ i # l /\ i # l + 1
  OBVIOUS

LEMMA PushedKinds ==
    ASSUME ToolsTypeOK, NEW f, NEW b, ChangedAndPushed(f, b), f.kind # "shutdown", b.kind # "shutdown"
    PROVE  \A j \in DOMAIN calls' :
             calls'[j].kind # "shutdown" \/ (j \in DOMAIN calls /\ calls[j].kind = "shutdown")
<1>1. /\ calls' \in Seq(AnyFrame) /\ Len(calls') = Len(calls) + 1 /\ Len(calls) \in Nat
      /\ \A j \in 1 .. (Len(calls) - 1) : calls'[j] = calls[j]
      /\ calls'[Len(calls)] = f /\ calls'[Len(calls) + 1] = b
  BY CallTypes DEF ChangedAndPushed
<1>2. DOMAIN calls' = 1 .. (Len(calls) + 1) /\ DOMAIN calls = 1 .. Len(calls)
  BY <1>1, CallTypes
<1>3. \A j \in DOMAIN calls' : j = Len(calls) + 1 \/ j = Len(calls) \/ (j \in 1 .. (Len(calls) - 1) /\ j \in DOMAIN calls)
  BY <1>1, <1>2, TopOrBelow
<1> QED  BY <1>1, <1>3

\* A handler is woken up or starts: it changes who is active only if it has been
\* active before.
LEMMA HandlerPushedActive ==
    ASSUME ToolsTypeOK, ActiveInv, calls # << >>, NEW f, NEW b \in BodyFrames, Like(Top, f),
           ChangedAndPushed(f, b), ~b.fresh \/ ~b.resumed,
           UNCHANGED <<active, queue, shuttingDown>>, MainToolsStay', ShutdownAlone',
           \A u \in Tool : u # b.tool => (state'[u].co # 0 <=> state[u].co # 0),
           \/ (~b.fresh \/ b.co # 1) /\ (state'[b.tool].co # 0 <=> state[b.tool].co # 0)
           \/ b.fresh /\ b.co = 1 /\ state[b.tool].co = 0
    PROVE  ActiveInv'
<1>1. Len(calls) \in Nat /\ Top = calls[Len(calls)] /\ DOMAIN calls = 1 .. Len(calls)
  BY CallTypes
<1>2. PICK n \in Nat : n = Len(calls) + 1
  BY <1>1
<1>3. \A i \in 1 .. Len(calls) : i \in 1 .. (Len(calls) - 1) \/ i = Len(calls)
  BY <1>1, TopOrBelow
<1>4. /\ calls' \in Seq(AnyFrame) /\ Len(calls') = n /\ calls'[n] = b /\ calls'[Len(calls)] = f
      /\ \A i \in 1 .. (Len(calls) - 1) : calls'[i] = calls[i]
  BY <1>2 DEF ChangedAndPushed
<1>5. \A i \in 1 .. Len(calls) : Like(calls[i], calls'[i])
  BY <1>1, <1>3, <1>4, LikeItself
<1>6. b.kind = "body" /\ ~Pending(b)
  BY DEF BodyFrames, Pending
<1>7. ActivationsHeld /\ BodiesMarked
  BY DEF ActiveInv
<1>8. /\ ActivationsHeld' /\ BodiesMarked'
      /\ \A i \in Bodies : i \in Bodies' /\ calls'[i] = calls[i] /\ (Inactive(i)' <=> Inactive(i))
      /\ \A i \in Bodies' : i \in Bodies \/ i = n
      /\ n \in Bodies'
      /\ Inactive(n)' <=> b.fresh
  BY <1>2, <1>4, <1>5, <1>6, <1>7, ActivityGrown
<1>9. ASSUME NEW u \in Tool  PROVE Activated(u)' <=> Activated(u)
  <2>1. CASE u # b.tool \/ ((~b.fresh \/ b.co # 1) /\ (state'[b.tool].co # 0 <=> state[b.tool].co # 0))
    <3>1. state'[u].co # 0 <=> state[u].co # 0
      BY <2>1
    <3>2. ASSUME NEW i \in Bodies', calls'[i].tool = u, calls'[i].co = 1
          PROVE  ~Inactive(i)' \/ (i \in Bodies /\ calls'[i] = calls[i] /\ Inactive(i))
      BY <1>4, <1>8, <2>1, <3>2
    <3>3. \A i \in Bodies : i \in Bodies' /\ calls'[i] = calls[i] /\ (Inactive(i)' <=> Inactive(i))
      BY <1>8
    <3> QED  BY <3>1, <3>2, <3>3, ActivatedKept
  <2>2. CASE u = b.tool /\ b.fresh /\ b.co = 1 /\ state[b.tool].co = 0
    <3>1. ~Activated(u)
      BY <2>2 DEF Activated
    <3>2. ~Activated(u)'
      BY <1>4, <1>8, <2>2 DEF Activated
    <3> QED  BY <3>1, <3>2
  <2> QED  BY <2>1, <2>2
<1>10. NothingPosted'
  BY DEF ActiveInv, NothingPosted
<1> QED  BY <1>8, <1>9, <1>10, QuietActive

LEMMA WakeToolActive ==
    ASSUME ContextInv, ActiveInv, WakeTool
    PROVE  ActiveInv'
<1>1. PICK i \in DOMAIN active :
        /\ InEvent("tools") /\ Top.at # Erased /\ i >= Top.at /\ WaitingAt(i)
        /\ state' = [state EXCEPT ![active[i]].waiting = FALSE, ![active[i]].pass = PassedByDefault(Top.event)]
        /\ calls' = Append(WithTop(WakingFrame(i, active[i], state[active[i]].co)),
                           Body(active[i], state[active[i]].co, FALSE, TRUE))
        /\ UNCHANGED <<stack, active, queue, shuttingDown>>
  BY DEF WakeTool, WakingFrame
<1>2. PICK t \in Tool : t = active[i]
  BY CallsTyped DEF ContextInv
<1>3. PICK co : co = state[t].co
  OBVIOUS
<1>4. co \in 1 .. MaxContexts
  BY <1>1, <1>2, <1>3, WaitingAlone DEF ContextInv, WaitingAt
<1> DEFINE f == WakingFrame(i, t, co)
           b == Body(t, co, FALSE, TRUE)
<1>5. f \in EventFrames /\ ChangedAndPushed(f, b)
  BY <1>1, <1>2, <1>3, <1>4, WakingPushes DEF ContextInv
<1>6. b \in BodyFrames /\ b.tool = t /\ b.co = co /\ ~b.fresh /\ b.kind = "body"
  BY <1>4, NewBody DEF Body
<1>7. calls # << >> /\ Top \in EventFrames /\ Top.kind = "event"
  BY <1>1, TopEvent DEF ContextInv, EventFrames
<1>8. Like(Top, f) /\ f.kind = "event"
  <2>1. f.kind = "event" /\ f.pc = Top.pc /\ f.event = Top.event
    BY <1>7 DEF WakingFrame, EventFrames
  <2> QED  BY <1>7, <2>1, EventsAlike DEF Pending
<1> HIDE DEF f, b
<1>9. ~shuttingDown
  BY <1>7, EventsRunOpen DEF ContextInv, ActiveInv
<1>10. ShutdownAlone'
  BY <1>1, <1>9 DEF ShutdownAlone
<1>11. PICK pass : state' = [state EXCEPT ![t].waiting = FALSE, ![t].pass = pass]
  BY <1>1, <1>2
<1>12. state \in [Tool -> Context]
  BY CallsTyped DEF ContextInv
<1>13. \A u \in Tool : state'[u].co = state[u].co /\ state'[u].shutdown = state[u].shutdown
  BY <1>11, <1>12 DEF Context
<1>14. MainToolsStay'
  <2>1. \A j \in DOMAIN calls' : calls'[j].kind # "shutdown" \/ (j \in DOMAIN calls /\ calls[j].kind = "shutdown")
    BY <1>5, <1>6, <1>8, PushedKinds DEF ContextInv
  <2> QED  BY <1>1, <1>13, <2>1, MainToolsKept DEF ActiveInv
<1> QED  BY <1>1, <1>5, <1>6, <1>7, <1>8, <1>10, <1>13, <1>14, HandlerPushedActive DEF ContextInv

\* A handler starts for an event that is no activation: the selection tools, which
\* alone start for one, are active.
LEMMA StartedByOthers ==
    ASSUME ToolsTypeOK, ActiveInv, InEvent("starts"), NEW t \in Tool, Startable(t)
    PROVE  Top.event.type # "activate"
<1>1. calls # << >> /\ Top.kind = "event" /\ Top.pc = "starts"
  BY DEF InEvent
<1>2. Len(calls) \in DOMAIN calls /\ Top = calls[Len(calls)]
  BY <1>1, TopFrame
<1>3. ASSUME Top.event.type = "activate"  PROVE FALSE
  <2>1. Top.event.tool = t /\ t \in MainTool
    BY <1>3 DEF Startable, Matches
  <2>2. Pending(Top)
    BY <1>1, <1>3 DEF Pending
  <2>3. calls[Len(calls) - 1].tool = Top.event.tool /\ calls[Len(calls) - 1].tool \notin MainTool
    BY <1>2, <2>2 DEF ActiveInv, ActivationsHeld
  <2> QED  BY <2>1, <2>3
<1> QED  BY <1>3

\* TOOL_STATE::Push() does not ask anybody to shut down.
LEMMA StartedContext ==
    ASSUME ContextInv, NEW t \in Tool, StartContext(t)
    PROVE  /\ \A u \in Tool : u # t => state'[u] = state[u] /\ stack'[u] = stack[u]
           /\ state'[t].co = NextContext(t) /\ state'[t].co # 0
           /\ NextContext(t) = 1 <=> state[t].co = 0
           /\ ~state[t].shutdown => ~state'[t].shutdown
           /\ \/ stack'[t] = stack[t]
              \/ stack'[t] = Append(stack[t], state[t])
<1>1. /\ state[t] \in Context /\ stack[t] \in Seq(Context) /\ Len(stack[t]) \in Nat
      /\ state \in [Tool -> Context] /\ stack \in [Tool -> Seq(Context)]
  BY ContextTypes, CallsTyped DEF ContextInv
<1>2. CASE state[t].co = 0
  <2>1. state' = [state EXCEPT ![t].co = 1, ![t].ready = FALSE] /\ stack' = stack
    BY <1>2 DEF StartContext
  <2>2. stack[t] = << >>
    <3>1. state[t].co = Len(stack[t]) + 1 \/ stack[t] = << >>
      BY DEF ContextInv, ContextsAgree, ContextsCounted
    <3>2. \A l \in Nat : l + 1 # 0
      OBVIOUS
    <3> QED  BY <1>1, <1>2, <3>1, <3>2
  <2>3. NextContext(t) = 1
    <3>1. Len(stack[t]) = 0
      BY <2>2
    <3> QED  BY <1>2, <3>1 DEF NextContext
  <2>4. state'[t].co = 1 /\ state'[t].shutdown = state[t].shutdown
        /\ \A u \in Tool : u # t => state'[u] = state[u]
    BY <1>1, <2>1 DEF Context
  <2>5. state'[t].co = NextContext(t) /\ state'[t].co # 0 /\ (NextContext(t) = 1 <=> state[t].co = 0)
    BY <1>2, <2>3, <2>4
  <2>6. stack'[t] = stack[t] /\ \A u \in Tool : u # t => state'[u] = state[u] /\ stack'[u] = stack[u]
    BY <2>1, <2>4
  <2>7. ~state[t].shutdown => ~state'[t].shutdown
    BY <2>4
  <2> QED  BY <2>5, <2>6, <2>7
<1>3. CASE state[t].co # 0
  <2>1. PICK n : n = NextContext(t)
    OBVIOUS
  <2>2. n # 0 /\ n # 1
    BY <1>1, <1>3, <2>1 DEF NextContext
  <2>3. /\ state' = [state EXCEPT ![t].co = n, ![t].waiting = FALSE, ![t].ready = FALSE, ![t].shutdown = FALSE]
        /\ stack' = [stack EXCEPT ![t] = Append(@, state[t])]
    BY <1>3, <2>1 DEF StartContext
  <2>4. state'[t].co = n /\ ~state'[t].shutdown /\ \A u \in Tool : u # t => state'[u] = state[u]
    BY <1>1, <2>3 DEF Context
  <2>5. stack'[t] = Append(stack[t], state[t]) /\ \A u \in Tool : u # t => stack'[u] = stack[u]
    BY <1>1, <2>3
  <2> QED  BY <1>3, <2>1, <2>2, <2>4, <2>5
<1> QED  BY <1>2, <1>3

LEMMA StartHandlerActive ==
    ASSUME ContextInv, ActiveInv, StartHandler
    PROVE  ActiveInv'
<1>1. PICK t \in Tool :
        /\ InEvent("starts") /\ Startable(t) /\ StartContext(t)
        /\ \E sync \in {None, <<t, NextContext(t)>>} :
             calls' = Append(WithTop(StartingFrame(t, sync)), StartingBody(t))
        /\ UNCHANGED <<active, queue, shuttingDown>>
  BY DEF StartHandler, StartingFrame, StartingBody
<1>2. PICK sync \in {None, <<t, NextContext(t)>>} :
        calls' = Append(WithTop(StartingFrame(t, sync)), StartingBody(t))
  BY <1>1
<1>3. Len(stack[t]) \in Nat
  BY ContextTypes DEF ContextInv
<1>4. NextContext(t) \in 1 .. MaxContexts
  <2>1. NextContext(t) \in Nat /\ NextContext(t) >= 1
    <3>1. \A l \in Nat : l + 1 \in Nat /\ l + 1 >= 1 /\ l + 2 \in Nat /\ l + 2 >= 1
      OBVIOUS
    <3>2. NextContext(t) = Len(stack[t]) + 1 \/ NextContext(t) = Len(stack[t]) + 2
      BY DEF NextContext
    <3> QED  BY <1>3, <3>1, <3>2
  <2>2. NextContext(t) <= MaxContexts /\ MaxContexts \in Nat
    BY <1>1, ToolManagerAssumption DEF Startable
  <2> QED  BY <2>1, <2>2
<1> DEFINE f == StartingFrame(t, sync)
           b == StartingBody(t)
<1>5. f \in EventFrames /\ ChangedAndPushed(f, b)
  BY <1>1, <1>2, <1>4, StartingPushes DEF ContextInv
<1>6. /\ b \in BodyFrames /\ b.tool = t /\ b.co = NextContext(t) /\ b.kind = "body"
      /\ b.fresh = (Top.event.type # "activate") /\ ~b.resumed
  BY <1>4, NewBody DEF StartingBody, Body
<1>7. calls # << >> /\ Top \in EventFrames /\ Top.kind = "event"
  BY <1>1, TopEvent DEF ContextInv, EventFrames
<1>8. Like(Top, f) /\ f.kind = "event"
  <2>1. f.kind = "event" /\ f.pc = Top.pc /\ f.event = Top.event
    BY <1>7 DEF StartingFrame, EventFrames
  <2> QED  BY <1>7, <2>1, EventsAlike DEF Pending
<1> HIDE DEF f, b
<1>9. b.fresh
  BY <1>1, <1>6, StartedByOthers DEF ContextInv
<1>10. ~shuttingDown
  BY <1>7, EventsRunOpen DEF ContextInv, ActiveInv
<1>11. ShutdownAlone'
  BY <1>1, <1>10 DEF ShutdownAlone
<1>12. /\ \A u \in Tool : u # t => state'[u] = state[u] /\ stack'[u] = stack[u]
       /\ state'[t].co = NextContext(t) /\ state'[t].co # 0
       /\ NextContext(t) = 1 <=> state[t].co = 0
       /\ ~state[t].shutdown => ~state'[t].shutdown
       /\ \/ stack'[t] = stack[t]
          \/ stack'[t] = Append(stack[t], state[t])
  BY <1>1, StartedContext
<1>13. MainToolsStay'
  <2>1. /\ MainTool \subseteq ToSet(active)
        /\ \A u \in Tool : ~state[u].shutdown /\ \A k \in DOMAIN stack[u] : ~stack[u][k].shutdown
        /\ \A i \in DOMAIN calls : calls[i].kind # "shutdown"
    BY <1>10 DEF ActiveInv, MainToolsStay
  <2>2. \A j \in DOMAIN calls' : calls'[j].kind # "shutdown"
    BY <1>5, <1>6, <1>8, <2>1, PushedKinds DEF ContextInv
  <2>3. stack[t] \in Seq(Context)
    BY ContextTypes DEF ContextInv
  <2>4. \A k \in DOMAIN stack'[t] : ~stack'[t][k].shutdown
    <3>1. CASE stack'[t] = stack[t]
      BY <2>1, <3>1
    <3>2. CASE stack'[t] = Append(stack[t], state[t])
      <4>1. state[t] \in Context
        BY ContextTypes DEF ContextInv
      <4>2. \A k \in DOMAIN stack'[t] : (k \in DOMAIN stack[t] /\ stack'[t][k] = stack[t][k]) \/ stack'[t][k] = state[t]
        BY <2>3, <3>2, <4>1
      <4> QED  BY <2>1, <4>2
    <3> QED  BY <1>12, <3>1, <3>2
  <2>5. \A u \in Tool : ~state'[u].shutdown /\ \A k \in DOMAIN stack'[u] : ~stack'[u][k].shutdown
    BY <1>12, <2>1, <2>4
  <2> QED  BY <1>1, <2>1, <2>2, <2>5 DEF MainToolsStay
<1>14. \/ (~b.fresh \/ b.co # 1) /\ (state'[b.tool].co # 0 <=> state[b.tool].co # 0)
       \/ b.fresh /\ b.co = 1 /\ state[b.tool].co = 0
  BY <1>6, <1>9, <1>12
<1> QED  BY <1>1, <1>5, <1>6, <1>7, <1>8, <1>11, <1>12, <1>13, <1>14, HandlerPushedActive DEF ContextInv

\* Activate(): the handler has its tool activated and is not active before that.
LEMMA ActivateActive ==
    ASSUME ContextInv, ActiveInv, Activate
    PROVE  ActiveInv'
<1>1. /\ InBody /\ Top.fresh /\ Top.tool \notin MainTool /\ ~Nested
      /\ UNCHANGED <<state, stack, active, queue, shuttingDown>>
  BY DEF Activate, contexts
<1>2. PICK how, saved :
        ChangedAndPushed(ActivatingBody, EventFrame(Activation(Top.tool), how, saved))
  BY ActivatePushes DEF ContextInv
<1>3. PICK g : g = EventFrame(Activation(Top.tool), how, saved)
  OBVIOUS
<1>4. g.kind = "event" /\ g.event.type = "activate" /\ g.event.tool = Top.tool /\ g.pc = "tools" /\ Pending(g)
  BY <1>3 DEF EventFrame, Activation, Pending
<1>5. PICK b : b = ActivatingBody
  OBVIOUS
<1>6. PICK n \in Nat : n = Len(calls)
  BY CallTypes DEF ContextInv
<1>7. calls # << >> /\ Top \in BodyFrames /\ Top = calls[n] /\ Top.kind = "body"
  BY <1>1, <1>6, TopBody DEF ContextInv, InBody
<1>8. /\ b.kind = "body" /\ b.tool = Top.tool /\ b.co = Top.co /\ ~b.fresh /\ b.resumed = Top.resumed
      /\ ~Pending(b) /\ ~Pending(Top)
  BY <1>5, <1>7 DEF BodyFrames, ActivatingBody, Pending
<1>9. /\ calls' \in Seq(AnyFrame) /\ Len(calls') = n + 1 /\ calls'[n] = b /\ calls'[n + 1] = g
      /\ \A i \in 1 .. (n - 1) : calls'[i] = calls[i]
  BY <1>2, <1>3, <1>5, <1>6 DEF ChangedAndPushed
<1>10. DOMAIN calls = 1 .. n /\ DOMAIN calls' = 1 .. (n + 1) /\ n \in 1 .. n
  <2>1. \A r \in Seq(AnyFrame) : DOMAIN r = 1 .. Len(r)
    OBVIOUS
  <2>2. n \in DOMAIN calls
    BY <1>6, <1>7, TopFrame DEF ContextInv
  <2> QED  BY <1>6, <1>9, <2>1, <2>2, CallTypes DEF ContextInv
<1>11. /\ \A i \in 1 .. n : i \in 1 .. (n - 1) \/ i = n
       /\ \A i \in 1 .. (n + 1) : i = n + 1 \/ i = n \/ (i \in 1 .. (n - 1) /\ i \in 1 .. n)
       /\ \A i \in 1 .. n : i \in 1 .. (n + 1) /\ i # n + 1
       /\ \A i \in 1 .. (n - 1) : i \in 1 .. n /\ i # n /\ i # n + 1 /\ i \in 1 .. (n + 1)
  BY TopOrBelow
<1>12. Bodies' = Bodies
  <2>1. \A i : i \in Bodies' <=> i \in Bodies
    BY <1>4, <1>7, <1>8, <1>9, <1>10, <1>11 DEF Bodies
  <2> QED  BY <2>1
<1>13. \A i \in Bodies : /\ i \in 1 .. n
                         /\ calls'[i].tool = calls[i].tool /\ calls'[i].co = calls[i].co
                         /\ i # n => i \in 1 .. (n - 1) /\ calls'[i] = calls[i]
  BY <1>7, <1>8, <1>9, <1>10, <1>11 DEF Bodies
<1>14. ~Top.resumed /\ n \in Bodies
  BY <1>1, <1>7, <1>10 DEF ActiveInv, BodiesMarked, Bodies
<1>15. BodiesMarked'
  <2>1. \A i \in Bodies : ~calls'[i].fresh \/ ~calls'[i].resumed
    BY <1>8, <1>9, <1>13 DEF ActiveInv, BodiesMarked
  <2> QED  BY <1>12, <2>1 DEF BodiesMarked
<1>16. ActivationsHeld'
  <2>1. SUFFICES ASSUME NEW i \in 1 .. (n + 1), Pending(calls'[i])
                 PROVE  /\ i - 1 \in Bodies'
                        /\ calls'[i - 1].tool = calls'[i].event.tool /\ calls'[i - 1].tool \notin MainTool
                        /\ ~calls'[i - 1].fresh /\ ~calls'[i - 1].resumed
                        /\ \A j \in Bodies' : calls'[j].tool = calls'[i - 1].tool => j >= i - 1
    BY <1>10 DEF ActivationsHeld, Pending
  <2>2. CASE i = n + 1
    <3>1. i - 1 = n
      BY <2>2
    <3>2. \A j \in Bodies : calls[j].tool = Top.tool => j >= n
      <4>1. SUFFICES ASSUME NEW j \in Bodies, calls[j].tool = Top.tool, ~(j >= n)  PROVE FALSE
        OBVIOUS
      <4>2. j < n
        BY <1>13, <4>1
      <4> QED  BY <1>1, <1>6, <4>1, <4>2 DEF Nested
    <3>3. \A j \in Bodies' : calls'[j].tool = calls'[n].tool => j >= n
      BY <1>8, <1>9, <1>12, <1>13, <3>2
    <3>4. /\ calls'[n].tool = Top.tool /\ calls'[n + 1].event.tool = Top.tool
          /\ ~calls'[n].fresh /\ ~calls'[n].resumed
      BY <1>4, <1>8, <1>9, <1>14
    <3> QED  BY <1>1, <1>12, <1>14, <2>2, <3>1, <3>3, <3>4
  <2>3. CASE i # n + 1
    <3>1. i \in 1 .. (n - 1) /\ i \in 1 .. n /\ i # n /\ calls'[i] = calls[i]
      BY <1>8, <1>9, <1>11, <2>1, <2>3
    <3>2. /\ i - 1 \in Bodies
          /\ calls[i - 1].tool = calls[i].event.tool /\ calls[i - 1].tool \notin MainTool
          /\ ~calls[i - 1].fresh /\ ~calls[i - 1].resumed
          /\ \A j \in Bodies : calls[j].tool = calls[i - 1].tool => j >= i - 1
      BY <1>10, <2>1, <3>1 DEF ActiveInv, ActivationsHeld, Pending
    <3>3. i - 1 # n
      BY <3>1
    <3>4. calls'[i - 1] = calls[i - 1]
      BY <1>13, <3>2, <3>3
    <3> QED  BY <1>12, <1>13, <3>1, <3>2, <3>4
  <2> QED  BY <2>2, <2>3
<1>17. ASSUME NEW i \in Bodies  PROVE Inactive(i)' <=> Inactive(i)
  <2>1. i \in 1 .. n
    BY <1>13
  <2>2. CASE i = n
    <3>1. Inactive(n)
      BY <1>1, <1>7 DEF Inactive
    <3>2. n # Len(calls')
      BY <1>9
    <3>3. Inactive(n)'
      BY <1>4, <1>9, <3>2 DEF Inactive, Pending
    <3> QED  BY <2>2, <3>1, <3>3
  <2>3. CASE i # n
    <3>1. calls'[i] = calls[i] /\ i # Len(calls) /\ i # Len(calls')
      BY <1>6, <1>9, <1>11, <1>13, <2>1, <2>3
    <3>2. i + 1 \in 1 .. n
      BY <2>1, <2>3, NextInside
    <3>3. Pending(calls'[i + 1]) <=> Pending(calls[i + 1])
      <4>1. CASE i + 1 = n
        BY <1>7, <1>8, <1>9, <4>1
      <4>2. CASE i + 1 # n
        <5>1. i + 1 \in 1 .. (n - 1)
          BY <1>11, <3>2, <4>2
        <5> QED  BY <1>9, <5>1
      <4> QED  BY <4>1, <4>2
    <3> QED  BY <3>1, <3>3 DEF Inactive, Pending
  <2> QED  BY <2>2, <2>3
<1>18. ASSUME NEW u \in Tool  PROVE Activated(u)' <=> Activated(u)
  BY <1>1, <1>12, <1>13, <1>17 DEF Activated
<1>19. ~shuttingDown
  BY <1>1, <1>7, EventsRunOpen DEF ContextInv, ActiveInv
<1>20. ShutdownAlone' /\ NothingPosted'
  BY <1>1, <1>19 DEF ShutdownAlone, ActiveInv, NothingPosted
<1>21. MainToolsStay'
  <2>1. \A j \in DOMAIN calls' : calls'[j].kind # "shutdown" \/ (j \in DOMAIN calls /\ calls[j].kind = "shutdown")
    BY <1>2, <1>3, <1>4, <1>5, <1>8, PushedKinds DEF ContextInv
  <2> QED  BY <1>1, <2>1, MainToolsKept DEF ActiveInv
<1> QED  BY <1>1, <1>15, <1>16, <1>18, <1>20, <1>21, QuietActive

\* A handler gives the processor back.
LEMMA HandlerPoppedActive ==
    ASSUME ContextInv, ActiveInv, InBody, NEW m \in Nat, m = Len(calls) - 1,
           calls' \in Seq(AnyFrame), Len(calls') = m,
           \A i \in 1 .. m : Like(calls[i], calls'[i]), shuttingDown' = shuttingDown
    PROVE  /\ ActivationsHeld' /\ BodiesMarked' /\ ShutdownAlone'
           /\ \A i \in Bodies' : i \in Bodies /\ i # Len(calls) /\ calls'[i] = calls[i] /\ (Inactive(i)' <=> Inactive(i))
           /\ \A i \in Bodies : i \in Bodies' \/ i = Len(calls)
           /\ \A i \in DOMAIN calls' : i \in DOMAIN calls /\ calls'[i].kind = calls[i].kind
           /\ Len(calls) \in Bodies /\ Top = calls[Len(calls)] /\ (Inactive(Len(calls)) <=> Top.fresh)
<1>1. /\ Len(calls) \in Bodies /\ Top = calls[Len(calls)] /\ Top.kind = "body"
      /\ Len(calls) \in Nat /\ DOMAIN calls = 1 .. Len(calls)
  BY RunningIsCurrent, CallTypes DEF ContextInv, InBody
<1>2. ~Pending(calls[Len(calls)])
  BY <1>1 DEF Pending
<1>3. ActivationsHeld /\ BodiesMarked /\ ToolsTypeOK
  BY DEF ActiveInv, ContextInv
<1>4. /\ ActivationsHeld' /\ BodiesMarked'
      /\ \A i \in Bodies' : i \in Bodies /\ i <= m /\ calls'[i] = calls[i] /\ (Inactive(i)' <=> Inactive(i))
      /\ \A i \in Bodies : i \in Bodies' \/ i = m + 1
  BY <1>2, <1>3, ActivityShrunk
<1>5. Len(calls) = m + 1
  BY <1>1
<1>6. \A i \in Bodies' : i # Len(calls)
  BY <1>4, <1>5
<1>7. DOMAIN calls' = 1 .. m
  <2>1. \A r \in Seq(AnyFrame) : DOMAIN r = 1 .. Len(r)
    OBVIOUS
  <2> QED  BY <2>1
<1>8. \A i \in DOMAIN calls' : i \in DOMAIN calls /\ calls'[i].kind = calls[i].kind
  BY <1>1, <1>5, <1>7, OneLess DEF Like
<1>9. ShutdownAlone'
  <2>1. SUFFICES ASSUME shuttingDown
                 PROVE  m <= 1 /\ (m >= 1 => calls'[1].kind = "shutdown")
    <3>1. m <= 1 => m <= 2 /\ m # 2
      OBVIOUS
    <3> QED  BY <3>1 DEF ShutdownAlone
  <2>2. Len(calls) <= 2 /\ (Len(calls) >= 1 => calls[1].kind = "shutdown")
    BY <2>1 DEF ActiveInv, ShutdownAlone
  <2>3. m <= 1 /\ Len(calls) >= 1
    BY <1>5, <2>2
  <2>4. m >= 1 => 1 \in DOMAIN calls'
    BY <1>7
  <2> QED  BY <1>8, <2>2, <2>3, <2>4
<1>10. Inactive(Len(calls)) <=> Top.fresh
  BY <1>1 DEF Inactive
<1> QED  BY <1>1, <1>4, <1>5, <1>6, <1>8, <1>9, <1>10

LEMMA WaitAlike ==
    ASSUME ContextInv, Wait
    PROVE  /\ calls' \in Seq(AnyFrame) /\ Len(calls') = Len(calls) - 1
           /\ \A i \in 1 .. (Len(calls) - 1) : Like(calls[i], calls'[i])
<1>1. InBody
  BY DEF Wait
<1>2. PICK pass \in BOOLEAN : Returned(WaitingFrame(pass))
  BY <1>1, HandlerOnTop, WaitReturns DEF ContextInv
<1>3. Like(Below, WaitingFrame(pass))
  BY <1>1, HandlerOnTop, ResumedAlike, LikeItself DEF WaitingFrame, ContextInv
<1>4. \A i \in 1 .. (Len(calls) - 1) : i \in 1 .. (Len(calls) - 2) \/ i = Len(calls) - 1
  BY <1>1, HandlerOnTop DEF ContextInv
<1>5. Below = calls[Len(calls) - 1]
  BY <1>1, HandlerOnTop DEF ContextInv
<1> QED  BY <1>2, <1>3, <1>4, <1>5, LikeItself DEF Returned

LEMMA WaitActive ==
    ASSUME ContextInv, ActiveInv, Wait
    PROVE  ActiveInv'
<1>1. InBody /\ ~Top.fresh /\ UNCHANGED <<stack, active, queue, shuttingDown>>
  BY DEF Wait
<1>2. PICK m \in Nat : m = Len(calls) - 1
  BY <1>1, HandlerOnTop DEF ContextInv
<1>3. /\ ActivationsHeld' /\ BodiesMarked' /\ ShutdownAlone'
      /\ \A i \in Bodies' : i \in Bodies /\ i # Len(calls) /\ calls'[i] = calls[i] /\ (Inactive(i)' <=> Inactive(i))
      /\ \A i \in Bodies : i \in Bodies' \/ i = Len(calls)
      /\ \A i \in DOMAIN calls' : i \in DOMAIN calls /\ calls'[i].kind = calls[i].kind
      /\ Len(calls) \in Bodies /\ Top = calls[Len(calls)] /\ (Inactive(Len(calls)) <=> Top.fresh)
  BY <1>1, <1>2, WaitAlike, HandlerPoppedActive
<1>4. PICK pass : state' = [state EXCEPT ![Top.tool].waiting = TRUE, ![Top.tool].pass = pass]
  BY DEF Wait
<1>5. state \in [Tool -> Context] /\ Top.tool \in Tool
  BY <1>1, CallsTyped, RunningIsCurrent DEF ContextInv
<1>6. \A u \in Tool : state'[u].co = state[u].co /\ state'[u].shutdown = state[u].shutdown
  BY <1>4, <1>5 DEF Context
<1>7. \A u \in Tool : Activated(u)' <=> Activated(u)
  BY <1>1, <1>3, <1>6, ActivatedKept
<1>8. MainToolsStay'
  BY <1>1, <1>3, <1>6, MainToolsKept DEF ActiveInv
<1>9. NothingPosted'
  BY <1>1 DEF ActiveInv, NothingPosted
<1> QED  BY <1>1, <1>3, <1>7, <1>8, <1>9, QuietActive

LEMMA ShutdownAllToolsActive ==
    ASSUME ContextInv, ActiveInv, ShutdownAllTools
    PROVE  ActiveInv'
<1>1. /\ calls = << >> /\ calls' = <<ShutdownFrame(active)>> /\ shuttingDown' = TRUE
      /\ UNCHANGED <<stack, active, queue>>
      /\ state' = [t \in Tool |-> IF t \in ToSet(active) THEN [state[t] EXCEPT !.shutdown = TRUE] ELSE state[t]]
  BY DEF ShutdownAllTools
<1>2. Len(calls') = 1 /\ DOMAIN calls' = 1 .. 1 /\ calls'[1].kind = "shutdown"
  BY <1>1 DEF ShutdownFrame
<1>3. Bodies = {} /\ Bodies' = {}
  <2>1. Bodies = {}
    BY <1>1 DEF Bodies
  <2>2. \A i \in DOMAIN calls' : calls'[i].kind # "body"
    BY <1>2
  <2> QED  BY <2>1, <2>2 DEF Bodies
<1>4. state \in [Tool -> Context]
  BY CallsTyped DEF ContextInv
<1>5. \A u \in Tool : state'[u].co = state[u].co
  BY <1>1, <1>4 DEF Context
<1>6. \A u \in Tool : Activated(u)' <=> Activated(u)
  BY <1>3, <1>5, ActivatedKept
<1>7. ActivationsHeld' /\ BodiesMarked'
  <2>1. \A i \in DOMAIN calls' : ~Pending(calls'[i])
    BY <1>2 DEF Pending
  <2> QED  BY <1>3, <2>1 DEF ActivationsHeld, BodiesMarked, Pending
<1>8. MainToolsStay' /\ ShutdownAlone' /\ NothingPosted'
  BY <1>1, <1>2 DEF MainToolsStay, ShutdownAlone, ActiveInv, NothingPosted
<1> QED  BY <1>1, <1>6, <1>7, <1>8, QuietActive

LEMMA EndShutdownActive ==
    ASSUME ContextInv, ActiveInv, EndShutdown
    PROVE  ActiveInv'
<1>1. /\ calls # << >> /\ Top.kind = "shutdown" /\ calls' = << >>
      /\ UNCHANGED <<state, stack, active, queue, shuttingDown>>
  BY DEF EndShutdown, contexts
<1>2. Bodies = {} /\ Bodies' = {}
  BY <1>1, TopShutdown DEF Bodies
<1>3. \A u \in Tool : Activated(u)' <=> Activated(u)
  BY <1>1, <1>2, ActivatedKept
<1>4. ActivationsHeld' /\ BodiesMarked' /\ ShutdownAlone'
  BY <1>1, <1>2 DEF ActivationsHeld, BodiesMarked, ShutdownAlone
<1>5. MainToolsStay' /\ NothingPosted'
  BY <1>1 DEF ActiveInv, MainToolsStay, NothingPosted
<1> QED  BY <1>1, <1>3, <1>4, <1>5, QuietActive

\* ShutdownTool(): the handler of a tool that waits is woken up.
LEMMA ShutdownToolActive ==
    ASSUME ContextInv, ActiveInv, ShutdownTool
    PROVE  ActiveInv'
<1>1. /\ calls # << >> /\ Top.kind = "shutdown" /\ Top.rest # << >>
      /\ UNCHANGED <<stack, active, queue, shuttingDown>>
  BY DEF ShutdownTool
<1>2. /\ Head(Top.rest) \in Tool /\ ShutdownNext \in AnyFrame /\ ShutdownNext.kind = "shutdown"
      /\ Len(calls) = 1 /\ Top = calls[1]
  BY <1>1, TopShutdown
<1>3. Like(Top, ShutdownNext)
  BY <1>1, <1>2 DEF Like
<1>4. PICK t \in Tool : t = Head(Top.rest)
  BY <1>2
<1>5. shuttingDown
  <2>1. 1 \in DOMAIN calls
    BY <1>2, CallTypes DEF ContextInv
  <2> QED  BY <1>1, <1>2, <2>1 DEF ActiveInv, MainToolsStay
<1>6. MainToolsStay'
  BY <1>1, <1>5 DEF MainToolsStay
<1>7. CASE t \in ToSet(active) /\ state[t].waiting
  <2>1. /\ state' = [state EXCEPT ![t].waiting = FALSE, ![t].shutdown = TRUE]
        /\ calls' = Append(WithTop(ShutdownNext), Body(t, state[t].co, FALSE, TRUE))
    BY <1>4, <1>7 DEF ShutdownTool, ShutdownNext
  <2>2. PICK co : co = state[t].co
    OBVIOUS
  <2>3. co \in 1 .. MaxContexts
    BY <1>7, <2>2, WaitingAlone DEF ContextInv
  <2> DEFINE b == Body(t, co, FALSE, TRUE)
  <2>4. b \in BodyFrames /\ b.tool = t /\ b.co = co /\ ~b.fresh /\ b.resumed /\ b.kind = "body"
    BY <2>3, NewBody DEF Body
  <2>5. calls' = Append(WithTop(ShutdownNext), b)
    BY <2>1, <2>2
  <2> HIDE DEF b
  <2>6. ChangedAndPushed(ShutdownNext, b)
    BY <1>1, <1>2, <2>4, <2>5, ChangeAndPush DEF AnyFrame, ContextInv
  <2>7. state \in [Tool -> Context]
    BY CallsTyped DEF ContextInv
  <2>8. \A u \in Tool : state'[u].co = state[u].co
    BY <2>1, <2>7 DEF Context
  <2>9. ShutdownAlone'
    <3>1. Len(calls') = 2 /\ calls'[1] = ShutdownNext /\ calls'[2] = b
      BY <1>2, <2>6 DEF ChangedAndPushed
    <3> QED  BY <1>2, <2>4, <3>1 DEF ShutdownAlone
  <2> QED  BY <1>1, <1>3, <1>6, <2>4, <2>6, <2>8, <2>9, HandlerPushedActive DEF ContextInv
<1>8. CASE ~(t \in ToSet(active) /\ state[t].waiting)
  <2>1. calls' = WithTop(ShutdownNext) /\ UNCHANGED state
    BY <1>4, <1>8 DEF ShutdownTool, ShutdownNext
  <2>2. Changed(ShutdownNext)
    BY <1>1, <1>2, <2>1, Change DEF ContextInv
  <2>3. /\ calls' \in Seq(AnyFrame) /\ Len(calls') = Len(calls) /\ Len(calls) \in Nat
        /\ \A i \in 1 .. Len(calls) : Like(calls[i], calls'[i])
    BY <1>1, <1>2, <1>3, <2>2, ChangedAlike DEF ContextInv
  <2> QED  BY <1>1, <2>1, <2>3, FramesChangedActive DEF ContextInv
<1> QED  BY <1>7, <1>8

\* A list with an entry taken out, or with one put first that was at k or nowhere.
TakenAt(s, k, r) ==
    /\ \A j \in DOMAIN s : /\ j < k => j \in DOMAIN r /\ r[j] = s[j]
                           /\ j > k => j - 1 \in DOMAIN r /\ r[j - 1] = s[j]
    /\ \A j \in DOMAIN r : \/ j < k /\ j \in DOMAIN s /\ r[j] = s[j]
                           \/ j >= k /\ j + 1 \in DOMAIN s /\ r[j] = s[j + 1]
PutFirst(s, k, t, r) ==
    /\ 1 \in DOMAIN r /\ r[1] = t
    /\ \A j \in DOMAIN s : /\ j < k => j + 1 \in DOMAIN r /\ r[j + 1] = s[j]
                           /\ j > k => j \in DOMAIN r /\ r[j] = s[j]
    /\ \A j \in DOMAIN r : \/ j = 1
                           \/ j <= k /\ j - 1 \in DOMAIN s /\ r[j] = s[j - 1]
                           \/ j > k /\ j \in DOMAIN s /\ r[j] = s[j]

LEMMA Joined ==
    ASSUME NEW D, NEW a \in Seq(D), NEW b \in Seq(D)
    PROVE  /\ a \o b \in Seq(D) /\ Len(a \o b) = Len(a) + Len(b)
           /\ \A j \in 1 .. (Len(a) + Len(b)) :
                (a \o b)[j] = IF j <= Len(a) THEN a[j] ELSE b[j - Len(a)]
<1>1. a \o b \in Seq(D)
  OBVIOUS
<1>2. Len(a \o b) = Len(a) + Len(b)
  OBVIOUS
<1>3. \A j \in 1 .. (Len(a) + Len(b)) : (a \o b)[j] = IF j <= Len(a) THEN a[j] ELSE b[j - Len(a)]
  OBVIOUS
<1> QED  BY <1>1, <1>2, <1>3

LEMMA RemovedAt ==
    ASSUME NEW D, NEW s \in Seq(D), NEW k \in 1 .. Len(s)
    PROVE  /\ RemoveAt(s, k) \in Seq(D) /\ Len(RemoveAt(s, k)) = Len(s) - 1
           /\ TakenAt(s, k, RemoveAt(s, k))
<1>1. PICK n \in Nat : n = Len(s)
  OBVIOUS
<1>2. k \in Nat /\ k >= 1 /\ k <= n /\ k - 1 \in Nat /\ k + 1 \in Nat /\ n - k \in Nat
  BY <1>1
<1>3. 1 \in 1 .. (n + 1) /\ k - 1 \in 0 .. n /\ 1 <= (k - 1) + 1
      /\ k + 1 \in 1 .. (n + 1) /\ n \in 0 .. n /\ k + 1 <= n + 1
  BY <1>1, <1>2
<1>4. PICK a : a = SubSeq(s, 1, k - 1)
  OBVIOUS
<1>5. PICK b : b = SubSeq(s, k + 1, Len(s))
  OBVIOUS
<1>6. a \in Seq(D) /\ Len(a) = k - 1 /\ \A j \in 1 .. (k - 1) : a[j] = s[j]
  <2>1. /\ a \in Seq(D) /\ Len(a) = (k - 1) - 1 + 1
        /\ \A j \in 1 .. ((k - 1) - 1 + 1) : a[j] = s[1 + j - 1]
    BY <1>1, <1>3, <1>4, PartAt
  <2>2. (k - 1) - 1 + 1 = k - 1 /\ \A j \in 1 .. (k - 1) : 1 + j - 1 = j
    BY <1>2
  <2> QED  BY <2>1, <2>2
<1>7. b \in Seq(D) /\ Len(b) = n - k /\ \A j \in 1 .. (n - k) : b[j] = s[k + j]
  <2>1. /\ b \in Seq(D) /\ Len(b) = n - (k + 1) + 1
        /\ \A j \in 1 .. (n - (k + 1) + 1) : b[j] = s[(k + 1) + j - 1]
    BY <1>1, <1>3, <1>5, PartAt
  <2>2. n - (k + 1) + 1 = n - k /\ \A j \in 1 .. (n - k) : (k + 1) + j - 1 = k + j
    BY <1>2
  <2> QED  BY <2>1, <2>2
<1>8. PICK r : r = a \o b
  OBVIOUS
<1>9. r = RemoveAt(s, k)
  BY <1>4, <1>5, <1>8 DEF RemoveAt
<1>10. /\ r \in Seq(D) /\ Len(r) = Len(a) + Len(b)
       /\ \A j \in 1 .. Len(r) : r[j] = IF j <= Len(a) THEN a[j] ELSE b[j - Len(a)]
  <2>1. /\ r \in Seq(D) /\ Len(r) = Len(a) + Len(b)
        /\ \A j \in 1 .. (Len(a) + Len(b)) : r[j] = IF j <= Len(a) THEN a[j] ELSE b[j - Len(a)]
    BY <1>6, <1>7, <1>8, Joined
  <2> QED  BY <2>1
<1>11. Len(r) = n - 1 /\ DOMAIN r = 1 .. (n - 1) /\ DOMAIN s = 1 .. n
  BY <1>1, <1>2, <1>6, <1>7, <1>10
<1>12. ASSUME NEW j \in 1 .. (n - 1)  PROVE r[j] = IF j < k THEN s[j] ELSE s[j + 1]
  <2>1. r[j] = IF j <= k - 1 THEN a[j] ELSE b[j - (k - 1)]
    BY <1>6, <1>10, <1>11
  <2>2. CASE j < k
    <3>1. j <= k - 1 /\ j \in 1 .. (k - 1)
      BY <1>2, <2>2
    <3> QED  BY <1>6, <2>1, <2>2, <3>1
  <2>3. CASE ~(j < k)
    <3>1. ~(j <= k - 1) /\ j - (k - 1) \in 1 .. (n - k) /\ k + (j - (k - 1)) = j + 1
      BY <1>1, <1>2, <2>3
    <3> QED  BY <1>7, <2>1, <2>3, <3>1
  <2> QED  BY <2>2, <2>3
<1>13. \A j \in 1 .. n : /\ j < k => j \in 1 .. (n - 1)
                         /\ j > k => j - 1 \in 1 .. (n - 1) /\ ~(j - 1 < k) /\ (j - 1) + 1 = j
  BY <1>1, <1>2
<1>14. \A j \in 1 .. (n - 1) : j \in 1 .. n /\ j + 1 \in 1 .. n /\ (j < k \/ j >= k)
  BY <1>1, <1>2
<1>15. TakenAt(s, k, r)
  BY <1>11, <1>12, <1>13, <1>14 DEF TakenAt
<1> QED  BY <1>1, <1>9, <1>10, <1>11, <1>15

LEMMA FirstOf ==
    ASSUME NEW D, NEW s \in Seq(D), NEW t \in D
    PROVE  /\ <<t>> \o s \in Seq(D) /\ Len(<<t>> \o s) = Len(s) + 1
           /\ DOMAIN (<<t>> \o s) = 1 .. (Len(s) + 1) /\ (<<t>> \o s)[1] = t
           /\ \A j \in 2 .. (Len(s) + 1) : (<<t>> \o s)[j] = s[j - 1]
<1>1. PICK o : o = <<t>>
  OBVIOUS
<1>2. o \in Seq(D) /\ Len(o) = 1 /\ o[1] = t
  BY <1>1
<1>3. PICK r : r = o \o s
  OBVIOUS
<1>4. r \in Seq(D) /\ Len(r) = Len(s) + 1 /\ Len(s) \in Nat
      /\ \A j \in 1 .. (Len(s) + 1) : r[j] = IF j <= 1 THEN o[j] ELSE s[j - 1]
  <2>1. /\ r \in Seq(D) /\ Len(r) = 1 + Len(s) /\ Len(s) \in Nat
        /\ \A j \in 1 .. (1 + Len(s)) : r[j] = IF j <= 1 THEN o[j] ELSE s[j - 1]
    <3>1. /\ r \in Seq(D) /\ Len(r) = Len(o) + Len(s)
          /\ \A j \in 1 .. (Len(o) + Len(s)) : r[j] = IF j <= Len(o) THEN o[j] ELSE s[j - Len(o)]
      BY <1>2, <1>3, Joined
    <3>2. Len(s) \in Nat
      OBVIOUS
    <3> QED  BY <1>2, <3>1, <3>2
  <2>2. 1 + Len(s) = Len(s) + 1
    BY <2>1
  <2> QED  BY <2>1, <2>2
<1>5. 1 \in 1 .. (Len(s) + 1) /\ \A j \in 2 .. (Len(s) + 1) : j \in 1 .. (Len(s) + 1) /\ ~(j <= 1)
  BY <1>4
<1> QED  BY <1>1, <1>2, <1>3, <1>4, <1>5

LEMMA NewFirst ==
    ASSUME NEW D, NEW s \in Seq(D), NEW t \in D
    PROVE  PutFirst(s, Len(s) + 1, t, <<t>> \o s)
<1>1. PICK n \in Nat : n = Len(s)
  OBVIOUS
<1>2. PICK r : r = <<t>> \o s
  OBVIOUS
<1>3. DOMAIN r = 1 .. (n + 1) /\ DOMAIN s = 1 .. n /\ r[1] = t /\ \A j \in 2 .. (n + 1) : r[j] = s[j - 1]
  BY <1>1, <1>2, FirstOf
<1>4. \A j \in 1 .. n : j + 1 \in 2 .. (n + 1) /\ j + 1 \in 1 .. (n + 1) /\ (j + 1) - 1 = j /\ ~(j > n + 1)
  OBVIOUS
<1>5. \A j \in 1 .. (n + 1) : j = 1 \/ (j \in 2 .. (n + 1) /\ j <= n + 1 /\ j - 1 \in 1 .. n)
  OBVIOUS
<1>6. PutFirst(s, n + 1, t, r)
  <2>1. 1 \in 1 .. (n + 1)
    OBVIOUS
  <2> QED  BY <1>3, <1>4, <1>5, <2>1 DEF PutFirst
<1> QED  BY <1>1, <1>2, <1>6

LEMMA AgainFirst ==
    ASSUME NEW D, NEW s \in Seq(D), NEW t \in D, NEW k \in 1 .. Len(s)
    PROVE  PutFirst(s, k, t, <<t>> \o RemoveAt(s, k))
<1>1. PICK n \in Nat : n = Len(s) /\ n >= 1
  OBVIOUS
<1>2. PICK q : q = RemoveAt(s, k)
  OBVIOUS
<1>3. q \in Seq(D) /\ Len(q) = n - 1 /\ TakenAt(s, k, q) /\ DOMAIN q = 1 .. (n - 1) /\ DOMAIN s = 1 .. n
  BY <1>1, <1>2, RemovedAt
<1>4. PICK r : r = <<t>> \o q
  OBVIOUS
<1>5. /\ DOMAIN r = 1 .. n /\ r[1] = t /\ \A j \in 2 .. n : r[j] = q[j - 1]
  <2>1. /\ DOMAIN r = 1 .. (Len(q) + 1) /\ r[1] = t /\ \A j \in 2 .. (Len(q) + 1) : r[j] = q[j - 1]
    BY <1>3, <1>4, FirstOf
  <2>2. (n - 1) + 1 = n
    OBVIOUS
  <2> QED  BY <1>3, <2>1, <2>2
<1>6. k \in 1 .. n
  BY <1>1
<1>7. ASSUME NEW j \in 1 .. n
      PROVE  /\ j < k => j + 1 \in 1 .. n /\ r[j + 1] = s[j]
             /\ j > k => r[j] = s[j]
  <2>1. ASSUME j < k  PROVE j + 1 \in 1 .. n /\ r[j + 1] = s[j]
    <3>1. j + 1 \in 1 .. n /\ j + 1 \in 2 .. n /\ (j + 1) - 1 = j
      BY <1>6, <2>1
    <3>2. q[j] = s[j]
      BY <1>3, <2>1 DEF TakenAt
    <3> QED  BY <1>5, <3>1, <3>2
  <2>2. ASSUME j > k  PROVE r[j] = s[j]
    <3>1. j \in 2 .. n
      BY <1>6, <2>2
    <3>2. q[j - 1] = s[j]
      BY <1>3, <2>2 DEF TakenAt
    <3> QED  BY <1>5, <3>1, <3>2
  <2> QED  BY <2>1, <2>2
<1>8. ASSUME NEW j \in 1 .. n
      PROVE  j = 1 \/ (j <= k /\ j - 1 \in 1 .. n /\ r[j] = s[j - 1]) \/ (j > k /\ r[j] = s[j])
  <2>1. CASE j <= k /\ j # 1
    <3>1. j - 1 \in 1 .. n /\ j - 1 < k /\ (j - 1) + 1 = j
      BY <1>6, <2>1
    <3> QED  BY <1>7, <2>1, <3>1
  <2>2. CASE j > k
    BY <1>7, <2>2
  <2>3. j <= k \/ j > k
    BY <1>6
  <2> QED  BY <2>1, <2>2, <2>3
<1>9. 1 \in 1 .. n
  BY <1>1
<1> QED  BY <1>2, <1>3, <1>4, <1>5, <1>7, <1>8, <1>9 DEF PutFirst

\* runTool(): the tool's node comes to the front, from k or from nowhere.
RunsTool(t, k) ==
    /\ k \in Nat /\ k >= 1
    /\ PutFirst(active, k, t, active')
    /\ k \in DOMAIN active => active[k] = t
    /\ k \notin DOMAIN active => t \notin ToSet(active) /\ k = Len(active) + 1
    /\ \A f \in EventFrames :
         f.pc = "tools" /\ f.at \in DOMAIN active /\ f.at # k =>
            MovedTo(f, t) = [f EXCEPT !.at = IF f.at < k THEN f.at + 1 ELSE f.at]

LEMMA MovedAround ==
    ASSUME NEW f \in EventFrames, f.pc = "tools", f.at # 0, NEW k \in Nat, k >= 1, f.at # k
    PROVE  /\ ShiftedAt(f) = [f EXCEPT !.at = f.at + 1]
           /\ ShiftedAt(ClosedAt(f, k)) = [f EXCEPT !.at = IF f.at < k THEN f.at + 1 ELSE f.at]
           /\ k = 1 => [f EXCEPT !.at = IF f.at < k THEN f.at + 1 ELSE f.at] = f
<1>1. f.at \in Nat /\ f.kind = "event"
  BY DEF EventFrames
<1>2. PICK a \in Nat : a = f.at
  BY <1>1
<1>3. \A b : [f EXCEPT !.at = b].at = b /\ [f EXCEPT !.at = b].pc = "tools" /\ [f EXCEPT !.at = b].kind = "event"
  BY DEF EventFrames
<1>4. \A b, c : [[f EXCEPT !.at = b] EXCEPT !.at = c] = [f EXCEPT !.at = c]
  BY DEF EventFrames
<1>5. [f EXCEPT !.at = a] = f
  BY <1>2 DEF EventFrames
<1>6. ShiftedAt(f) = [f EXCEPT !.at = a + 1]
  BY <1>1, <1>2 DEF ShiftedAt, Erased
<1>7. ClosedAt(f, k) = [f EXCEPT !.at = IF a > k THEN a - 1 ELSE a]
  BY <1>1, <1>2 DEF ClosedAt
<1>8. PICK c : c = IF a > k THEN a - 1 ELSE a
  OBVIOUS
<1>9. a # 0 /\ a # k
  BY <1>2
<1>10. c # 0 /\ c + 1 = IF a < k THEN a + 1 ELSE a
  BY <1>8, <1>9
<1>11. ShiftedAt([f EXCEPT !.at = c]) = [f EXCEPT !.at = c + 1]
  BY <1>3, <1>4, <1>10 DEF ShiftedAt, Erased
<1>12. ShiftedAt(ClosedAt(f, k)) = [f EXCEPT !.at = IF a < k THEN a + 1 ELSE a]
  BY <1>7, <1>8, <1>10, <1>11
<1>13. k = 1 => ~(a < k)
  BY <1>9
<1> QED  BY <1>2, <1>5, <1>6, <1>12, <1>13

LEMMA RunToolRuns ==
    ASSUME ContextInv, ActiveInv, MainTool # {}, RunTool
    PROVE  /\ calls # << >> /\ Top \in EventFrames /\ Pending(Top) /\ ~shuttingDown
           /\ Top.event.tool \in Tool
           /\ \E k : RunsTool(Top.event.tool, k)
<1>1. /\ calls # << >> /\ Top \in EventFrames /\ Top.pc = "activate" /\ Top.kind = "event"
      /\ Top = calls[Len(calls)] /\ Len(calls) \in DOMAIN calls
  BY TopEvent, TopFrame DEF RunTool, ContextInv, EventFrames
<1>2. Top.event.type = "activate" /\ Top.event \in Event
  <2>1. Activates(Top)
    BY <1>1 DEF ContextInv, FramesChained
  <2> QED  BY <1>1, <2>1 DEF Activates, EventFrames
<1>3. PICK t : t = Top.event.tool
  OBVIOUS
<1>4. Pending(Top) /\ t \in Tool
  BY <1>1, <1>2, <1>3 DEF Pending, Event
<1>5. ~shuttingDown
  BY <1>1, EventsRunOpen DEF ContextInv, ActiveInv
<1>6. t \notin MainTool
  BY <1>1, <1>3, <1>4 DEF ActiveInv, ActivationsHeld
<1>7. active \in Seq(Tool) /\ Len(active) \in Nat /\ DOMAIN active = 1 .. Len(active)
  <2>1. active \in Seq(Tool)
    BY CallsTyped DEF ContextInv
  <2> QED  BY <2>1
<1>8. ToolsTypeOK
  BY DEF ContextInv
<1>9. CASE Again(t)
  <2>1. PICK k : k = FirstIndex(t)
    OBVIOUS
  <2>2. k \in DOMAIN active /\ k \in Nat \ {0} /\ active[k] = t /\ t \in ToSet(active) /\ Len(active) > 1
    BY <1>8, <1>9, <2>1, FirstIndexIs DEF Again
  <2>3. active' = <<t>> \o RemoveAt(active, k)
    BY <1>3, <2>1, <2>2 DEF RunTool
  <2>4. PutFirst(active, k, t, active')
    BY <1>4, <1>7, <2>2, <2>3, AgainFirst
  <2>5. k >= 1
    BY <2>2
  <2>6. ASSUME NEW f \in EventFrames, f.pc = "tools", f.at \in DOMAIN active, f.at # k
        PROVE  MovedTo(f, t) = [f EXCEPT !.at = IF f.at < k THEN f.at + 1 ELSE f.at]
    <3>1. f.at # 0
      BY <1>7, <2>6
    <3>2. /\ ShiftedAt(ClosedAt(f, k)) = [f EXCEPT !.at = IF f.at < k THEN f.at + 1 ELSE f.at]
          /\ k = 1 => [f EXCEPT !.at = IF f.at < k THEN f.at + 1 ELSE f.at] = f
      BY <2>2, <2>5, <2>6, <3>1, MovedAround
    <3> QED  BY <1>9, <2>1, <3>2 DEF MovedTo
  <2>7. RunsTool(t, k)
    BY <2>2, <2>4, <2>5, <2>6 DEF RunsTool
  <2> QED  BY <1>1, <1>3, <1>4, <1>5, <2>7
<1>10. CASE ~Again(t)
  <2>1. t \notin ToSet(active)
    <3>1. SUFFICES ASSUME t \in ToSet(active)  PROVE FALSE
      OBVIOUS
    <3>2. PICK u \in MainTool : u \in ToSet(active)
      BY <1>5 DEF ActiveInv, MainToolsStay
    <3>3. PICK i \in DOMAIN active, j \in DOMAIN active : active[i] = t /\ active[j] = u
      BY <3>1, <3>2 DEF ToSet
    <3>4. i # j
      BY <1>6, <3>3
    <3>5. ~(Len(active) > 1)
      BY <1>10, <3>1 DEF Again
    <3>6. \A l \in Nat : ~(l > 1) => \A x, y \in 1 .. l : x = y
      OBVIOUS
    <3> QED  BY <1>7, <3>3, <3>4, <3>5, <3>6
  <2>2. active' = <<t>> \o active
    BY <1>3, <2>1 DEF RunTool
  <2>3. PICK k \in Nat : k = Len(active) + 1
    BY <1>7
  <2>4. PutFirst(active, k, t, active')
    BY <1>4, <1>7, <2>2, <2>3, NewFirst
  <2>5. k >= 1 /\ k \notin DOMAIN active
    <3>1. \A l \in Nat : l + 1 >= 1 /\ l + 1 \notin 1 .. l
      OBVIOUS
    <3> QED  BY <1>7, <2>3, <3>1
  <2>6. ASSUME NEW f \in EventFrames, f.pc = "tools", f.at \in DOMAIN active, f.at # k
        PROVE  MovedTo(f, t) = [f EXCEPT !.at = IF f.at < k THEN f.at + 1 ELSE f.at]
    <3>1. f.at # 0
      BY <1>7, <2>6
    <3>2. ShiftedAt(f) = [f EXCEPT !.at = f.at + 1]
      BY <2>5, <2>6, <3>1, MovedAround
    <3>3. f.at < k
      <4>1. \A l \in Nat : \A a \in 1 .. l : a < l + 1
        OBVIOUS
      <4> QED  BY <1>7, <2>3, <2>6, <4>1
    <3> QED  BY <1>10, <3>2, <3>3 DEF MovedTo
  <2>7. RunsTool(t, k)
    BY <2>1, <2>3, <2>4, <2>5, <2>6 DEF RunsTool
  <2> QED  BY <1>1, <1>3, <1>4, <1>5, <2>7
<1> QED  BY <1>9, <1>10

\* The frames below the one that calls runTool() keep their events.
LEMMA RunToolAlike ==
    ASSUME ContextInv, RunTool
    PROVE  /\ calls' \in Seq(AnyFrame) /\ Len(calls') = Len(calls) /\ Len(calls) \in Nat \ {0}
           /\ calls'[Len(calls)] = [Top EXCEPT !.pc = "queue"] /\ calls'[Len(calls)].kind = "event"
           /\ ~Pending(calls'[Len(calls)])
           /\ \A i \in 1 .. (Len(calls) - 1) : Like(calls[i], calls'[i])
<1>1. /\ calls # << >> /\ Top \in EventFrames
      /\ calls' \in Seq(AnyFrame) /\ Len(calls') = Len(calls)
      /\ calls'[Len(calls)] = [Top EXCEPT !.pc = "queue"]
      /\ \A i \in 1 .. (Len(calls) - 1) : calls'[i] = MovedTo(calls[i], Top.event.tool)
  BY RunToolMoves DEF ContextInv
<1>2. Len(calls) \in Nat \ {0} /\ Len(calls) \in Nat /\ \A i \in DOMAIN calls : calls[i] \in AnyFrame
  BY <1>1, TopFrame DEF ContextInv
<1>3. calls'[Len(calls)].kind = "event" /\ calls'[Len(calls)].pc = "queue"
  BY <1>1 DEF EventFrames
<1>4. ASSUME NEW i \in 1 .. (Len(calls) - 1)  PROVE Like(calls[i], calls'[i])
  <2>1. calls[i] \in AnyFrame
    <3>1. i \in 1 .. Len(calls)
      BY <1>2, TopOrBelow
    <3> QED  BY <1>2, <3>1, CallTypes DEF ContextInv
  <2>2. PICK t : t = Top.event.tool
    OBVIOUS
  <2>3. Again(t) => FirstIndex(t) \in Nat
    BY FirstIndexIs DEF Again, ContextInv
  <2>4. Again(t) => ClosedAt(calls[i], FirstIndex(t)) \in AnyFrame
    BY <2>1, <2>3, FramesMoved
  <2>5. Again(t) => Like(calls[i], ShiftedAt(ClosedAt(calls[i], FirstIndex(t))))
    <3>1. SUFFICES ASSUME Again(t)  PROVE Like(calls[i], ShiftedAt(ClosedAt(calls[i], FirstIndex(t))))
      OBVIOUS
    <3>2. Like(calls[i], ClosedAt(calls[i], FirstIndex(t)))
      BY <2>1, MovedAlike
    <3>3. Like(ClosedAt(calls[i], FirstIndex(t)), ShiftedAt(ClosedAt(calls[i], FirstIndex(t))))
      BY <2>4, <3>1, MovedAlike
    <3> QED  BY <3>2, <3>3, LikeChain
  <2>6. Like(calls[i], ShiftedAt(calls[i])) /\ Like(calls[i], calls[i])
    BY <2>1, MovedAlike, LikeItself
  <2>7. Like(calls[i], MovedTo(calls[i], t))
    BY <2>5, <2>6 DEF MovedTo
  <2> QED  BY <1>1, <2>2, <2>7
<1> QED  BY <1>1, <1>2, <1>3, <1>4 DEF Pending

LEMMA FirstListed ==
    ASSUME ActiveOnceEach, NEW t, NEW k, RunsTool(t, k), active \in Seq(Tool), active' \in Seq(Tool)
    PROVE  /\ ActiveOnceEach'
           /\ \A u : u \in ToSet(active)' <=> u \in ToSet(active) \/ u = t
<1>1. /\ k \in Nat /\ 1 \in DOMAIN active' /\ active'[1] = t
      /\ \A j \in DOMAIN active : /\ j < k => j + 1 \in DOMAIN active' /\ active'[j + 1] = active[j]
                                  /\ j > k => j \in DOMAIN active' /\ active'[j] = active[j]
      /\ \A j \in DOMAIN active' : \/ j = 1
                                   \/ j <= k /\ j - 1 \in DOMAIN active /\ active'[j] = active[j - 1]
                                   \/ j > k /\ j \in DOMAIN active /\ active'[j] = active[j]
  BY DEF RunsTool, PutFirst
<1>2. (\A j \in DOMAIN active : j \in Nat) /\ \A j \in DOMAIN active' : j \in Nat
  OBVIOUS
<1>3. \A j \in DOMAIN active : j # k => active[j] # t
  <2> SUFFICES ASSUME NEW j \in DOMAIN active, j # k, active[j] = t  PROVE FALSE
    OBVIOUS
  <2>1. t \in ToSet(active)
    BY DEF ToSet
  <2>2. k \in DOMAIN active /\ active[k] = t
    BY <2>1 DEF RunsTool
  <2> QED  BY <2>2 DEF ActiveOnceEach
<1>4. ActiveOnceEach'
  <2> SUFFICES ASSUME NEW i \in DOMAIN active', NEW j \in DOMAIN active', active'[i] = active'[j]
               PROVE  i = j
    BY DEF ActiveOnceEach
  <2>1. ASSUME NEW a \in DOMAIN active', a # 1
        PROVE  \E p \in DOMAIN active : p # k /\ active'[a] = active[p] /\ ((a <= k /\ p = a - 1) \/ (a > k /\ p = a))
    <3>1. CASE a <= k /\ a - 1 \in DOMAIN active /\ active'[a] = active[a - 1]
      <4>1. a - 1 # k
        <5>1. \A x, y \in Nat : x <= y => x - 1 # y
          OBVIOUS
        <5> QED  BY <1>1, <1>2, <2>1, <3>1, <5>1
      <4> QED  BY <3>1, <4>1
    <3>2. CASE a > k /\ a \in DOMAIN active /\ active'[a] = active[a]
      <4>1. a # k
        BY <1>1, <1>2, <3>2
      <4> QED  BY <3>2, <4>1
    <3> QED  BY <1>1, <2>1, <3>1, <3>2
  <2>2. i \in Nat /\ j \in Nat
    BY <1>2
  <2>3. CASE i = 1 \/ j = 1
    <3>1. \A a \in DOMAIN active' : a # 1 => active'[a] # t
      BY <1>3, <2>1
    <3> QED  BY <1>1, <2>3, <3>1
  <2>4. CASE i # 1 /\ j # 1
    <3>1. PICK p \in DOMAIN active : active'[i] = active[p] /\ ((i <= k /\ p = i - 1) \/ (i > k /\ p = i))
      BY <2>1, <2>4
    <3>2. PICK q \in DOMAIN active : active'[j] = active[q] /\ ((j <= k /\ q = j - 1) \/ (j > k /\ q = j))
      BY <2>1, <2>4
    <3>3. p = q
      BY <3>1, <3>2 DEF ActiveOnceEach
    <3> QED  BY <1>1, <2>2, <3>1, <3>2, <3>3
  <2> QED  BY <2>3, <2>4
<1>5. ASSUME NEW u  PROVE u \in ToSet(active)' <=> u \in ToSet(active) \/ u = t
  <2>1. ASSUME u \in ToSet(active)'  PROVE u \in ToSet(active) \/ u = t
    BY <1>1, <2>1 DEF ToSet
  <2>2. ASSUME u \in ToSet(active) \/ u = t  PROVE u \in ToSet(active)'
    <3>1. CASE u = t
      BY <1>1, <3>1 DEF ToSet
    <3>2. CASE u # t
      <4>1. PICK j \in DOMAIN active : active[j] = u
        BY <2>2, <3>2 DEF ToSet
      <4>2. j # k
        BY <3>2, <4>1 DEF RunsTool
      <4>3. j < k \/ j > k
        BY <1>1, <1>2, <4>2
      <4> QED  BY <1>1, <4>1, <4>3 DEF ToSet
    <3> QED  BY <3>1, <3>2
  <2> QED  BY <2>1, <2>2
<1> QED  BY <1>4, <1>5

LEMMA RunToolActive ==
    ASSUME ContextInv, ContextInv', ActiveInv, MainTool # {}, RunTool
    PROVE  ActiveInv'
<1>1. PICK t \in Tool : t = Top.event.tool
  BY RunToolRuns
<1>2. PICK k : RunsTool(t, k)
  BY <1>1, RunToolRuns
<1>3. calls # << >> /\ Pending(Top) /\ ~shuttingDown /\ Top \in EventFrames
  BY RunToolRuns
<1>4. PICK n \in Nat : n = Len(calls)
  BY CallTypes DEF ContextInv
<1>5. /\ calls' \in Seq(AnyFrame) /\ Len(calls') = n /\ calls'[n].kind = "event" /\ ~Pending(calls'[n])
      /\ \A i \in 1 .. (n - 1) : Like(calls[i], calls'[i])
  BY <1>4, RunToolAlike
<1>6. DOMAIN calls = 1 .. n /\ DOMAIN calls' = 1 .. n /\ n \in 1 .. n /\ calls[n] = Top /\ calls[n].kind = "event"
  <2>1. \A r \in Seq(AnyFrame) : DOMAIN r = 1 .. Len(r)
    OBVIOUS
  <2>2. DOMAIN calls = 1 .. n /\ n \in DOMAIN calls /\ calls[n] = Top
    BY <1>3, <1>4, TopFrame DEF ContextInv
  <2> QED  BY <1>3, <1>5, <2>1, <2>2 DEF Pending
<1>7. /\ \A i \in 1 .. n : i \in 1 .. (n - 1) \/ i = n
      /\ \A i \in 1 .. (n - 1) : i \in 1 .. n /\ i # n
  BY TopOrBelow
<1>8. \A i \in 1 .. n : calls'[i].kind = calls[i].kind
  BY <1>5, <1>6, <1>7 DEF Like
<1>9. Bodies' = Bodies
  <2>1. \A i : i \in Bodies' <=> i \in Bodies
    BY <1>6, <1>8 DEF Bodies
  <2> QED  BY <2>1
<1>10. \A i \in Bodies : i \in 1 .. (n - 1) /\ i \in 1 .. n /\ i # n /\ calls'[i] = calls[i]
  BY <1>5, <1>6, <1>7 DEF Bodies, Like
<1>11. /\ n - 1 \in Bodies /\ calls[n - 1].tool = t /\ ~calls[n - 1].fresh
       /\ \A j \in Bodies : calls[j].tool = t => j >= n - 1
  BY <1>1, <1>3, <1>6 DEF ActiveInv, ActivationsHeld
<1>12. ActivationsHeld'
  <2>1. SUFFICES ASSUME NEW i \in 1 .. n, Pending(calls'[i])
                 PROVE  /\ i - 1 \in Bodies'
                        /\ calls'[i - 1].tool = calls'[i].event.tool /\ calls'[i - 1].tool \notin MainTool
                        /\ ~calls'[i - 1].fresh /\ ~calls'[i - 1].resumed
                        /\ \A j \in Bodies' : calls'[j].tool = calls'[i - 1].tool => j >= i - 1
    BY <1>6 DEF ActivationsHeld, Pending
  <2>2. i \in 1 .. (n - 1)
    BY <1>5, <1>7, <2>1
  <2>3. Pending(calls[i]) /\ calls'[i].event = calls[i].event
    BY <1>5, <2>1, <2>2 DEF Like, Pending
  <2>4. /\ i - 1 \in Bodies
        /\ calls[i - 1].tool = calls[i].event.tool /\ calls[i - 1].tool \notin MainTool
        /\ ~calls[i - 1].fresh /\ ~calls[i - 1].resumed
        /\ \A j \in Bodies : calls[j].tool = calls[i - 1].tool => j >= i - 1
    BY <1>6, <2>3 DEF ActiveInv, ActivationsHeld
  <2> QED  BY <1>9, <1>10, <2>3, <2>4
<1>13. BodiesMarked'
  BY <1>9, <1>10 DEF ActiveInv, BodiesMarked
<1>14. ASSUME NEW i \in Bodies, i # n - 1  PROVE Inactive(i)' <=> Inactive(i)
  <2>1. i \in 1 .. n /\ i # n /\ calls'[i] = calls[i]
    BY <1>10
  <2>2. i + 1 \in 1 .. n /\ i + 1 # n
    <3>1. i + 1 \in 1 .. n
      BY <2>1, NextInside
    <3>2. i + 1 # n
      BY <1>14, <2>1
    <3> QED  BY <3>1, <3>2
  <2>3. Pending(calls'[i + 1]) <=> Pending(calls[i + 1])
    <3>1. i + 1 \in 1 .. (n - 1)
      BY <1>7, <2>2
    <3> QED  BY <1>5, <3>1 DEF Like, Pending
  <2> QED  BY <1>4, <1>5, <2>1, <2>3 DEF Inactive
<1>15. ~Inactive(n - 1)'
  <2>1. calls'[n - 1] = calls[n - 1] /\ (n - 1) + 1 = n
    BY <1>10, <1>11
  <2> QED  BY <1>5, <1>11, <2>1 DEF Inactive
<1>16. \A u \in Tool : state'[u].co = state[u].co /\ state'[u].shutdown = state[u].shutdown
  <2>1. state \in [Tool -> Context] /\ state' = [state EXCEPT ![t].ready = TRUE]
    BY <1>1, CallsTyped DEF RunTool, ContextInv
  <2> QED  BY <2>1 DEF Context
<1>17. Activated(t)'
  <2>1. calls[n - 1].co \in 1 .. MaxContexts /\ calls[n - 1].co \in Nat /\ calls[n - 1].co # 0
    <3>1. calls[n - 1].co \in 1 .. MaxContexts /\ calls[n - 1].co \in Nat
      BY <1>11, BodyTypes DEF ContextInv
    <3> QED  BY <3>1
  <2>2. OnCallStack(t, calls[n - 1].co)
    BY <1>11 DEF OnCallStack
  <2>3. calls[n - 1].co <= state[t].co
    BY <2>1, <2>2 DEF ContextInv, ContextsAgree, LaterOnesRun
  <2>4. state'[t].co # 0
    <3>1. state[t].co \in Nat
      BY ContextTypes DEF ContextInv
    <3>2. \A x, y \in Nat : x # 0 /\ x <= y => y # 0
      OBVIOUS
    <3> QED  BY <1>16, <2>1, <2>3, <3>1, <3>2
  <2>5. ASSUME NEW i \in Bodies', calls'[i].tool = t  PROVE i = n - 1
    <3>1. i \in Bodies /\ calls[i].tool = t /\ i \in 1 .. (n - 1)
      BY <1>9, <1>10, <2>5
    <3>2. i >= n - 1
      BY <1>11, <3>1
    <3> QED  BY <3>1, <3>2
  <2> QED  BY <1>15, <2>4, <2>5 DEF Activated
<1>18. ASSUME NEW u \in Tool, u # t  PROVE Activated(u)' <=> Activated(u)
  <2>1. \A i \in Bodies : calls[i].tool = u => i # n - 1
    BY <1>11, <1>18
  <2>2. \A i \in Bodies : calls[i].tool = u => (Inactive(i)' <=> Inactive(i))
    BY <1>14, <2>1
  <2> QED  BY <1>9, <1>10, <1>16, <2>2, ActivatedKept
<1>19. active \in Seq(Tool) /\ active' \in Seq(Tool) /\ ActiveOnceEach
  BY CallsTyped DEF ContextInv, ToolsTypeOK, ActiveInv
<1>20. ActiveOnceEach' /\ \A u : u \in ToSet(active)' <=> u \in ToSet(active) \/ u = t
  BY <1>2, <1>19, FirstListed
<1>21. ActiveListed'
  BY <1>17, <1>18, <1>20 DEF ActiveInv, ActiveListed
<1>22. UNCHANGED <<stack, queue, shuttingDown>>
  BY DEF RunTool
<1>23. MainToolsStay'
  <2>1. /\ MainTool \subseteq ToSet(active)
        /\ \A u \in Tool : ~state[u].shutdown /\ \A j \in DOMAIN stack[u] : ~stack[u][j].shutdown
        /\ \A i \in DOMAIN calls : calls[i].kind # "shutdown"
    BY <1>3 DEF ActiveInv, MainToolsStay
  <2>2. MainTool \subseteq ToSet(active)'
    BY <1>20, <2>1
  <2>3. \A i \in DOMAIN calls' : calls'[i].kind # "shutdown"
    BY <1>6, <1>8, <2>1
  <2> QED  BY <1>16, <1>22, <2>1, <2>2, <2>3 DEF MainToolsStay
<1>24. ShutdownAlone' /\ NothingPosted'
  BY <1>3, <1>22 DEF ShutdownAlone, ActiveInv, NothingPosted
<1> QED  BY <1>12, <1>13, <1>20, <1>21, <1>23, <1>24 DEF ActiveInv

\* finishTool(): the node of the tool is taken off the list.
LEMMA RestListed ==
    ASSUME ActiveOnceEach, NEW t, NEW k \in DOMAIN active, active[k] = t, TakenAt(active, k, active'),
           active \in Seq(Tool), active' \in Seq(Tool)
    PROVE  /\ ActiveOnceEach'
           /\ \A u : u \in ToSet(active)' <=> u \in ToSet(active) /\ u # t
<1>1. /\ \A j \in DOMAIN active : /\ j < k => j \in DOMAIN active' /\ active'[j] = active[j]
                                  /\ j > k => j - 1 \in DOMAIN active' /\ active'[j - 1] = active[j]
      /\ \A j \in DOMAIN active' : \/ j < k /\ j \in DOMAIN active /\ active'[j] = active[j]
                                   \/ j >= k /\ j + 1 \in DOMAIN active /\ active'[j] = active[j + 1]
  BY DEF TakenAt
<1>2. (\A j \in DOMAIN active : j \in Nat) /\ (\A j \in DOMAIN active' : j \in Nat) /\ k \in Nat
  OBVIOUS
<1>3. ASSUME NEW a \in DOMAIN active'
      PROVE  \E p \in DOMAIN active : p # k /\ active'[a] = active[p] /\ ((a < k /\ p = a) \/ (a >= k /\ p = a + 1))
  <2>1. CASE a < k /\ a \in DOMAIN active /\ active'[a] = active[a]
    <3>1. a # k
      BY <1>2, <2>1
    <3> QED  BY <2>1, <3>1
  <2>2. CASE a >= k /\ a + 1 \in DOMAIN active /\ active'[a] = active[a + 1]
    <3>1. a + 1 # k
      BY <1>2, <2>2
    <3> QED  BY <2>2, <3>1
  <2> QED  BY <1>1, <2>1, <2>2
<1>4. ActiveOnceEach'
  <2> SUFFICES ASSUME NEW i \in DOMAIN active', NEW j \in DOMAIN active', active'[i] = active'[j]
               PROVE  i = j
    BY DEF ActiveOnceEach
  <2>1. PICK p \in DOMAIN active : active'[i] = active[p] /\ ((i < k /\ p = i) \/ (i >= k /\ p = i + 1))
    BY <1>3
  <2>2. PICK q \in DOMAIN active : active'[j] = active[q] /\ ((j < k /\ q = j) \/ (j >= k /\ q = j + 1))
    BY <1>3
  <2>3. p = q
    BY <2>1, <2>2 DEF ActiveOnceEach
  <2>4. i \in Nat /\ j \in Nat
    BY <1>2
  <2> QED  BY <1>2, <2>1, <2>2, <2>3, <2>4
<1>5. ASSUME NEW u  PROVE u \in ToSet(active)' <=> u \in ToSet(active) /\ u # t
  <2>1. ASSUME u \in ToSet(active)'  PROVE u \in ToSet(active) /\ u # t
    <3>1. PICK a \in DOMAIN active' : active'[a] = u
      BY <2>1 DEF ToSet
    <3>2. PICK p \in DOMAIN active : p # k /\ active'[a] = active[p]
      BY <1>3
    <3>3. active[p] # active[k]
      BY <3>2 DEF ActiveOnceEach
    <3> QED  BY <3>1, <3>2, <3>3 DEF ToSet
  <2>2. ASSUME u \in ToSet(active), u # t  PROVE u \in ToSet(active)'
    <3>1. PICK j \in DOMAIN active : active[j] = u
      BY <2>2 DEF ToSet
    <3>2. j < k \/ j > k
      BY <1>2, <2>2, <3>1
    <3> QED  BY <1>1, <3>1, <3>2 DEF ToSet
  <2> QED  BY <2>1, <2>2
<1> QED  BY <1>4, <1>5

LEMMA FinishAlike ==
    ASSUME ContextInv, Finish
    PROVE  /\ calls' \in Seq(AnyFrame) /\ Len(calls') = Len(calls) - 1
           /\ \A i \in 1 .. (Len(calls) - 1) : Like(calls[i], calls'[i])
<1>1. InBody
  BY DEF Finish
<1>2. PICK t, co : t = Top.tool /\ co = Top.co
  OBVIOUS
<1>3. PICK pass \in BOOLEAN : FinishReturns(t, co, pass)
  BY <1>1, <1>2, HandlerOnTop, FinishEffect DEF ContextInv
<1>4. PICK u : u = <<t, co>>
  OBVIOUS
<1>5. Like(Below, calls'[Len(calls) - 1])
  <2>1. Below \in AnyFrame /\ Unsynced(Below, u) \in AnyFrame
    BY <1>1, HandlerOnTop, FramesMoved DEF ContextInv
  <2>2. Like(Below, Unsynced(Below, u))
    BY <2>1, MovedAlike
  <2>3. Like(Unsynced(Below, u), calls'[Len(calls) - 1])
    BY <1>3, <1>4, <2>1, ResumedAlike DEF FinishReturns
  <2> QED  BY <2>2, <2>3, LikeChain
<1>6. ASSUME NEW i \in 1 .. (Len(calls) - 2)  PROVE Like(calls[i], calls'[i])
  <2>1. calls[i] \in AnyFrame
    BY CallTypes DEF ContextInv
  <2>2. Unsynced(calls[i], u) \in AnyFrame /\ Like(calls[i], Unsynced(calls[i], u))
    BY <2>1, FramesMoved, MovedAlike
  <2>3. Like(Unsynced(calls[i], u), ClosedAt(Unsynced(calls[i], u), PlaceAfter(t)))
    BY <2>2, MovedAlike
  <2>4. Like(calls[i], ClosedAt(Unsynced(calls[i], u), PlaceAfter(t)))
    BY <2>2, <2>3, LikeChain
  <2> QED  BY <1>3, <1>4, <2>2, <2>4 DEF FinishReturns, LeftBelow
<1>7. \A i \in 1 .. (Len(calls) - 1) : i \in 1 .. (Len(calls) - 2) \/ i = Len(calls) - 1
  BY <1>1, HandlerOnTop DEF ContextInv
<1>8. Below = calls[Len(calls) - 1]
  BY <1>1, HandlerOnTop DEF ContextInv
<1> QED  BY <1>3, <1>5, <1>6, <1>7, <1>8 DEF FinishReturns

\* The list after a handler of tool t has ended; k is where its node was.
LEMMA FinishList ==
    ASSUME ContextInv, Finish
    PROVE  /\ ~TakenOff(Top.tool) => active' = active
           /\ TakenOff(Top.tool) =>
                /\ PlaceAfter(Top.tool) \in DOMAIN active /\ active[PlaceAfter(Top.tool)] = Top.tool
                /\ TakenAt(active, PlaceAfter(Top.tool), active')
<1>1. active \in Seq(Tool) /\ ToolsTypeOK
  BY CallsTyped DEF ContextInv
<1>2. PICK t : t = Top.tool
  OBVIOUS
<1>3. ~TakenOff(t) => active' = active
  BY <1>2 DEF Finish
<1>4. ASSUME TakenOff(t)
      PROVE  /\ PlaceAfter(t) \in DOMAIN active /\ active[PlaceAfter(t)] = t
             /\ TakenAt(active, PlaceAfter(t), active')
  <2>1. t \in ToSet(active)
    BY <1>4 DEF TakenOff
  <2>2. PlaceAfter(t) = FirstIndex(t)
    BY <2>1 DEF PlaceAfter
  <2>3. FirstIndex(t) \in 1 .. Len(active) /\ FirstIndex(t) \in DOMAIN active /\ active[FirstIndex(t)] = t
    BY <1>1, <2>1, FirstIndexIs
  <2>4. active' = RemoveAt(active, FirstIndex(t))
    BY <1>2, <1>4, <2>1 DEF Finish
  <2> QED  BY <1>1, <2>2, <2>3, <2>4, RemovedAt
<1> QED  BY <1>2, <1>3, <1>4

\* TOOL_STATE::Pop() of the current context.
LEMMA FinishedContext ==
    ASSUME ContextInv, Finish
    PROVE  \E t \in Tool :
             /\ t = Top.tool /\ Top.co = state[t].co
             /\ \A u \in Tool : u # t => state'[u] = state[u] /\ stack'[u] = stack[u]
             /\ stack[t] = << >> =>
                  /\ Top.co = 1 /\ state'[t].co = 0 /\ stack'[t] = << >>
                  /\ state'[t].shutdown = state[t].shutdown
             /\ stack[t] # << >> =>
                  /\ Top.co # 1 /\ state'[t].co # 0 /\ state'[t].co < Top.co
                  /\ \E j \in DOMAIN stack[t] : state'[t].shutdown = stack[t][j].shutdown
                  /\ \A j \in DOMAIN stack'[t] : j \in DOMAIN stack[t] /\ stack'[t][j] = stack[t][j]
<1>1. InBody
  BY DEF Finish
<1>2. PICK t \in Tool : t = Top.tool /\ Top.co = state[t].co /\ Top.co # 0
  BY <1>1, RunningIsCurrent DEF ContextInv
<1>3. PICK pass \in BOOLEAN : state' = [state EXCEPT ![t] = Popped(t, pass)]
  BY <1>1, <1>2, HandlerOnTop, FinishEffect DEF ContextInv
<1>4. stack' = [stack EXCEPT ![t] = IF @ = << >> THEN @ ELSE Front(@)]
  BY <1>2 DEF Finish
<1>5. /\ state \in [Tool -> Context] /\ stack \in [Tool -> Seq(Context)]
      /\ state[t] \in Context /\ stack[t] \in Seq(Context) /\ Len(stack[t]) \in Nat
      /\ DOMAIN stack[t] = 1 .. Len(stack[t])
  BY CallsTyped, ContextTypes DEF ContextInv
<1>6. \A u \in Tool : u # t => state'[u] = state[u] /\ stack'[u] = stack[u]
  BY <1>3, <1>4, <1>5
<1>7. state'[t] = Popped(t, pass)
  BY <1>3, <1>5
<1>8. state[t].co = Len(stack[t]) + 1
  BY <1>2 DEF ContextInv, ContextsAgree, ContextsCounted
<1>9. CASE stack[t] = << >>
  <2>1. Len(stack[t]) = 0
    BY <1>9
  <2>2. state'[t].co = 0 /\ state'[t].shutdown = state[t].shutdown
    BY <1>5, <1>7, <1>9 DEF Popped, Context
  <2>3. stack'[t] = << >>
    BY <1>4, <1>5, <1>9
  <2> QED  BY <1>2, <1>6, <1>8, <1>9, <2>1, <2>2, <2>3
<1>10. CASE stack[t] # << >>
  <2>1. Len(stack[t]) # 0 /\ Len(stack[t]) \in DOMAIN stack[t]
    BY <1>5, <1>10, EmptySeq
  <2>2. Last(stack[t]) = stack[t][Len(stack[t])] /\ Last(stack[t]) \in Context
    BY <1>5, <2>1 DEF Last
  <2>3. Last(stack[t]).co = Len(stack[t])
    BY <2>1, <2>2 DEF ContextInv, ContextsAgree, OthersRunOrWait
  <2>4. state'[t].co = Len(stack[t]) /\ state'[t].shutdown = stack[t][Len(stack[t])].shutdown
    BY <1>7, <1>10, <2>2, <2>3 DEF Popped, Context
  <2>5. Top.co # 1 /\ state'[t].co # 0 /\ state'[t].co < Top.co
    BY <1>2, <1>5, <1>8, <2>1, <2>4
  <2>6. \A j \in DOMAIN stack'[t] : j \in DOMAIN stack[t] /\ stack'[t][j] = stack[t][j]
    <3>1. stack'[t] = Front(stack[t])
      BY <1>4, <1>5, <1>10
    <3>2. Front(stack[t]) \in Seq(Context) /\ Len(Front(stack[t])) = Len(stack[t]) - 1
      BY <1>5, <1>10, FrontLast
    <3>3. DOMAIN Front(stack[t]) = 1 .. (Len(stack[t]) - 1)
      BY <3>2
    <3>4. \A j \in 1 .. (Len(stack[t]) - 1) : j \in 1 .. Len(stack[t])
      BY <1>5
    <3> QED  BY <1>5, <1>10, <3>1, <3>3, <3>4, FrontAt
  <2> QED  BY <1>2, <1>6, <1>10, <2>1, <2>4, <2>5, <2>6
<1> QED  BY <1>9, <1>10

LEMMA FinishActive ==
    ASSUME ContextInv, ContextInv', ActiveInv, Finish
    PROVE  ActiveInv'
<1>1. /\ InBody /\ UNCHANGED <<queue, shuttingDown>>
      /\ Top.tool \in MainTool /\ ~Top.fresh => state[Top.tool].shutdown
  BY DEF Finish
<1>2. PICK m \in Nat : m = Len(calls) - 1
  BY <1>1, HandlerOnTop DEF ContextInv
<1>3. /\ ActivationsHeld' /\ BodiesMarked' /\ ShutdownAlone'
      /\ \A i \in Bodies' : i \in Bodies /\ i # Len(calls) /\ calls'[i] = calls[i] /\ (Inactive(i)' <=> Inactive(i))
      /\ \A i \in Bodies : i \in Bodies' \/ i = Len(calls)
      /\ \A i \in DOMAIN calls' : i \in DOMAIN calls /\ calls'[i].kind = calls[i].kind
      /\ Len(calls) \in Bodies /\ Top = calls[Len(calls)] /\ (Inactive(Len(calls)) <=> Top.fresh)
  BY <1>1, <1>2, FinishAlike, HandlerPoppedActive
<1>4. PICK t \in Tool :
         /\ t = Top.tool /\ Top.co = state[t].co
         /\ \A u \in Tool : u # t => state'[u] = state[u] /\ stack'[u] = stack[u]
         /\ stack[t] = << >> =>
              /\ Top.co = 1 /\ state'[t].co = 0 /\ stack'[t] = << >>
              /\ state'[t].shutdown = state[t].shutdown
         /\ stack[t] # << >> =>
              /\ Top.co # 1 /\ state'[t].co # 0 /\ state'[t].co < Top.co
              /\ \E j \in DOMAIN stack[t] : state'[t].shutdown = stack[t][j].shutdown
              /\ \A j \in DOMAIN stack'[t] : j \in DOMAIN stack[t] /\ stack'[t][j] = stack[t][j]
  BY FinishedContext
<1>5. Top.co # 0
  BY <1>1, RunningIsCurrent DEF ContextInv
<1>6. ASSUME NEW u \in Tool, u # t \/ stack[t] # << >>
      PROVE  Activated(u)' <=> Activated(u)
  <2>1. state'[u].co # 0 <=> state[u].co # 0
    BY <1>4, <1>5, <1>6
  <2>2. \A i \in Bodies : calls[i].tool = u /\ calls[i].co = 1 => i \in Bodies'
    BY <1>3, <1>4, <1>6
  <2> QED  BY <1>3, <2>1, <2>2, ActivatedKept
<1>7. active \in Seq(Tool) /\ active' \in Seq(Tool) /\ ActiveOnceEach /\ ActiveListed
  BY CallsTyped DEF ContextInv, ToolsTypeOK, ActiveInv
<1>8. PICK k : k = PlaceAfter(t)
  OBVIOUS
<1>9. /\ ~TakenOff(t) => active' = active
      /\ TakenOff(t) => k \in DOMAIN active /\ active[k] = t /\ TakenAt(active, k, active')
  BY <1>4, <1>8, FinishList
<1>10. ActiveOnceEach' /\ (TakenOff(t) => \A u : u \in ToSet(active)' <=> u \in ToSet(active) /\ u # t)
  <2>1. CASE TakenOff(t)
    BY <1>7, <1>9, <2>1, RestListed
  <2>2. CASE ~TakenOff(t)
    BY <1>7, <1>9, <2>2 DEF ActiveOnceEach
  <2> QED  BY <2>1, <2>2
<1>11. ActiveListed'
  <2>1. CASE stack[t] # << >>
    <3>1. active' = active
      BY <1>9, <2>1 DEF TakenOff
    <3> QED  BY <1>6, <1>7, <2>1, <3>1 DEF ActiveListed
  <2>2. CASE stack[t] = << >>
    <3>1. ~Activated(t)'
      BY <1>4, <2>2 DEF Activated
    <3>2. \A u \in Tool : u # t => (Activated(u)' <=> Activated(u))
      BY <1>6
    <3>3. CASE t \in ToSet(active)
      BY <1>7, <1>10, <2>2, <3>1, <3>2, <3>3 DEF ActiveListed, TakenOff
    <3>4. CASE t \notin ToSet(active)
      <4>1. active' = active
        BY <1>9, <3>4 DEF TakenOff
      <4> QED  BY <1>7, <3>1, <3>2, <3>4, <4>1 DEF ActiveListed
    <3> QED  BY <3>3, <3>4
  <2> QED  BY <2>1, <2>2
<1>12. MainToolsStay'
  <2>1. SUFFICES ASSUME ~shuttingDown
                 PROVE  /\ MainTool \subseteq ToSet(active)'
                        /\ \A u \in Tool : ~state'[u].shutdown /\ \A j \in DOMAIN stack'[u] : ~stack'[u][j].shutdown
                        /\ \A i \in DOMAIN calls' : calls'[i].kind # "shutdown"
    BY <1>1 DEF MainToolsStay
  <2>2. /\ MainTool \subseteq ToSet(active)
        /\ \A u \in Tool : ~state[u].shutdown /\ \A j \in DOMAIN stack[u] : ~stack[u][j].shutdown
        /\ \A i \in DOMAIN calls : calls[i].kind # "shutdown"
    BY <2>1 DEF ActiveInv, MainToolsStay
  <2>3. ~(t \in MainTool /\ stack[t] = << >>)
    <3>1. SUFFICES ASSUME t \in MainTool, stack[t] = << >>  PROVE FALSE
      OBVIOUS
    <3>2. Top.fresh
      BY <1>1, <1>4, <2>2, <3>1
    <3>3. ~Activated(t)
      BY <1>3, <1>4, <3>1, <3>2 DEF Activated
    <3> QED  BY <1>7, <2>2, <3>1, <3>3 DEF ActiveListed
  <2>4. MainTool \subseteq ToSet(active)'
    <3>1. CASE TakenOff(t)
      BY <1>10, <2>2, <2>3, <3>1 DEF TakenOff
    <3>2. CASE ~TakenOff(t)
      BY <1>9, <2>2, <3>2
    <3> QED  BY <3>1, <3>2
  <2>5. ~state'[t].shutdown /\ \A j \in DOMAIN stack'[t] : ~stack'[t][j].shutdown
    <3>1. CASE stack[t] = << >>
      BY <1>4, <2>2, <3>1
    <3>2. CASE stack[t] # << >>
      BY <1>4, <2>2, <3>2
    <3> QED  BY <3>1, <3>2
  <2>6. \A u \in Tool : u # t => ~state'[u].shutdown /\ \A j \in DOMAIN stack'[u] : ~stack'[u][j].shutdown
    BY <1>4, <2>2
  <2> QED  BY <1>3, <2>2, <2>4, <2>5, <2>6
<1>13. NothingPosted'
  BY <1>1 DEF ActiveInv, NothingPosted
<1> QED  BY <1>3, <1>10, <1>11, <1>12, <1>13 DEF ActiveInv

LEMMA InitActive == Init => ActiveInv
<1> SUFFICES ASSUME Init  PROVE ActiveInv
  OBVIOUS
<1>1. calls = << >> /\ queue = << >> /\ active = SetToSeq(MainTool) /\ ~shuttingDown
  BY DEF Init
<1>2. Bodies = {} /\ DOMAIN calls = {} /\ DOMAIN queue = {}
  BY <1>1 DEF Bodies
<1>3. IsInjective(active) /\ ToSet(active) = MainTool
  BY <1>1, ToolManagerAssumption, SetInOrder
<1>4. \A t \in Tool : /\ stack[t] = << >> /\ ~state[t].shutdown
                      /\ state[t].co # 0 <=> t \in MainTool
  <2>1. MainWaits.co = 1 /\ ~MainWaits.shutdown /\ NoContext.co = 0 /\ ~NoContext.shutdown
    BY DEF NoContext, MainWaits
  <2>2. \A t \in Tool : stack[t] = << >> /\ state[t] = IF t \in MainTool THEN MainWaits ELSE NoContext
    BY DEF Init, NewStates
  <2> QED  BY <2>1, <2>2
<1>5. ActivationsHeld /\ NothingPosted /\ BodiesMarked /\ ShutdownAlone
  BY <1>1, <1>2 DEF ActivationsHeld, NothingPosted, BodiesMarked, ShutdownAlone
<1>6. ActiveOnceEach
  BY <1>3 DEF ActiveOnceEach, IsInjective
<1>7. ActiveListed
  BY <1>2, <1>3, <1>4 DEF ActiveListed, Activated
<1>8. MainToolsStay
  <2>1. \A t \in Tool : DOMAIN stack[t] = {}
    BY <1>4
  <2> QED  BY <1>2, <1>3, <1>4, <2>1 DEF MainToolsStay
<1> QED  BY <1>5, <1>6, <1>7, <1>8 DEF ActiveInv

LEMMA NewFrameActive == NewFrame => ActiveInv'
<1>1. NewFrame => Init'
  BY DEF NewFrame, Init
<1>2. Init' => ActiveInv'
  BY InitActive, PTL
<1> QED  BY <1>1, <1>2

LEMMA ActiveStep ==
    ASSUME Restarts = FALSE, MainTool # {}, ContextInv, ContextInv', ActiveInv, [Next]_vars
    PROVE  ActiveInv'
<1>1. ToolsTypeOK
  BY DEF ContextInv
<1>2. CASE UNCHANGED vars
  <2>1. UNCHANGED <<state, stack, active, queue, shuttingDown, calls>>
    BY <1>2 DEF vars
  <2>2. Bodies' = Bodies /\ \A i \in Bodies : Inactive(i)' <=> Inactive(i)
    BY <2>1 DEF Bodies, Inactive
  <2>3. \A t \in Tool : Activated(t)' <=> Activated(t)
    BY <2>1, <2>2, ActivatedKept
  <2>4. ActivationsHeld' /\ BodiesMarked' /\ NothingPosted' /\ MainToolsStay' /\ ShutdownAlone'
    BY <2>1, <2>2 DEF ActiveInv, ActivationsHeld, BodiesMarked, NothingPosted, MainToolsStay, ShutdownAlone
  <2> QED  BY <2>1, <2>3, <2>4, QuietActive
<1>3. CASE UserEvent
  BY <1>1, <1>3, UserEventActive
<1>4. CASE Dispatch
  BY <1>1, <1>4, WakeToolActive, MovedOnActive, StartHandlerActive, RunToolActive,
     ProcessQueuedActive, EndEventActive DEF Dispatch
<1>5. CASE Handler
  BY <1>1, <1>5, RunNowActive, PostActive, ActivateActive, WaitActive, FinishActive DEF Handler
<1>6. CASE Shutdown
  BY <1>6, ShutdownAllToolsActive, ShutdownToolActive, EndShutdownActive, NewFrameActive DEF Shutdown
<1> QED  BY <1>2, <1>3, <1>4, <1>5, <1>6 DEF Next

LEMMA ActiveInvHolds ==
    ASSUME Restarts = FALSE, MainTool # {}
    PROVE  Spec => [](ContextInv /\ ActiveInv)
<1>1. Init => ContextInv /\ ActiveInv
  BY InitContexts, InitActive
<1>2. ContextInv /\ ActiveInv /\ [Next]_vars => (ContextInv /\ ActiveInv)'
  BY ContextStep, ActiveStep
<1> QED  BY <1>1, <1>2, PTL DEF Spec

LEMMA IdleActive ==
    ASSUME ContextInv, ActiveInv
    PROVE  ActiveToolsWait
<1>1. SUFFICES ASSUME calls = << >>, NEW t \in Tool
               PROVE  Cardinality({i \in DOMAIN active : active[i] = t}) = IF state[t].waiting THEN 1 ELSE 0
  BY DEF ActiveToolsWait
<1>2. Bodies = {}
  BY <1>1 DEF Bodies
<1>3. state[t].waiting <=> Activated(t)
  <2>1. state[t].co \in Nat /\ ~OnCallStack(t, state[t].co)
    BY <1>2, ContextTypes DEF OnCallStack, ContextInv
  <2> QED  BY <1>2, <2>1 DEF ContextInv, ContextsAgree, CurrentRunsOrWaits, Activated
<1>4. t \in ToSet(active) <=> state[t].waiting
  BY <1>3 DEF ActiveInv, ActiveListed
<1> DEFINE S == {i \in DOMAIN active : active[i] = t}
<1>5. CASE t \in ToSet(active)
  <2>1. PICK i \in DOMAIN active : active[i] = t
    BY <1>5 DEF ToSet
  <2>2. S = {i}
    BY <2>1 DEF ActiveInv, ActiveOnceEach
  <2>3. Cardinality(S) = 1
    BY <2>2, FS_Singleton
  <2> QED  BY <1>4, <1>5, <2>3
<1>6. CASE t \notin ToSet(active)
  <2>1. S = {}
    BY <1>6 DEF ToSet
  <2>2. Cardinality(S) = 0
    BY <2>1, FS_EmptySet
  <2> QED  BY <1>4, <1>6, <2>2
<1> QED  BY <1>5, <1>6

-----------------------------------------------------------------------------
(* The iterators.                                                            *)

\* While a handler runs that dispatchInternal() woke up, the iterator is at the
\* node of its tool, this is the oldest of the tool's handlers that it woke, and
\* from there on it has woken no handler of another tool.
Held(f, b, list) ==
    /\ b.resumed /\ ~b.fresh
    /\ f.at \in DOMAIN list /\ list[f.at] = b.tool
    /\ \A c \in 1 .. MaxContexts : <<b.tool, c>> \in f.woken => b.co <= c
    /\ \A j \in DOMAIN list : \A c \in 1 .. MaxContexts :
           j >= f.at /\ <<list[j], c>> \in f.woken => j = f.at
\* While dispatchInternal() itself runs, it has woken no current handler of a tool
\* from the iterator on.
Going(f, list, current) ==
    /\ f.at # Erased
    /\ \A j \in DOMAIN list : \A c \in 1 .. MaxContexts :
           j >= f.at /\ <<list[j], c>> \in f.woken => j = f.at /\ current[list[j]].co < c
Placed(i) ==
    calls[i].kind = "event" =>
        /\ ~calls[i].again
        /\ calls[i].pc = "tools" =>
             IF i = Len(calls) THEN Going(calls[i], active, state) ELSE Held(calls[i], calls[i + 1], active)
IteratorsInv == \A i \in DOMAIN calls : Placed(i)

\* A frame and the one above it stay as they are.
LeftAlone(i) ==
    /\ i \in DOMAIN calls /\ i # Len(calls) /\ i # Len(calls')
    /\ calls'[i] = calls[i] /\ calls'[i + 1] = calls[i + 1]

LEMMA IteratorsKept ==
    ASSUME IteratorsInv, active' = active, \A i \in DOMAIN calls' : LeftAlone(i) \/ Placed(i)'
    PROVE  IteratorsInv'
<1> SUFFICES ASSUME NEW i \in DOMAIN calls', LeftAlone(i)  PROVE Placed(i)'
  BY DEF IteratorsInv
<1>1. Placed(i)
  BY DEF IteratorsInv, LeftAlone
<1> QED  BY <1>1 DEF Placed, LeftAlone

LEMMA NotDispatching ==
    ASSUME FramesChained, NEW i \in DOMAIN calls, i # Len(calls), calls[i + 1].kind # "body"
    PROVE  ~Dispatching(calls[i])
  BY DEF FramesChained, Dispatching

LEMMA IdleFramePlaced ==
    ASSUME IteratorsInv, NEW i \in DOMAIN calls, calls'[i] = calls[i], ~Dispatching(calls[i])
    PROVE  Placed(i)'
<1>1. Placed(i)
  BY DEF IteratorsInv
<1> QED  BY <1>1 DEF Placed, Dispatching

\* dispatchInternal() begins at the first of the active tools and has woken none.
LEMMA NewFramePlaced ==
    ASSUME NEW i, i = Len(calls'), NEW e, NEW how, NEW saved, calls'[i] = EventFrame(e, how, saved)
    PROVE  Placed(i)'
<1>1. /\ ~calls'[i].again /\ calls'[i].at = 1 /\ calls'[i].woken = {}
  BY DEF EventFrame
<1>2. Going(calls'[i], active', state')
  <2>1. calls'[i].at # Erased
    BY <1>1 DEF Erased
  <2> QED  BY <1>1, <2>1 DEF Going
<1> QED  BY <1>1, <1>2 DEF Placed

\* A frame of processEvent() that has left the first loop.
LEMMA PastFramePlaced ==
    ASSUME NEW i \in DOMAIN calls, IteratorsInv, calls[i].kind = "event", calls'[i].again = calls[i].again,
           calls'[i].pc # "tools"
    PROVE  Placed(i)'
  BY DEF IteratorsInv, Placed

LEMMA EventPushedIterators ==
    ASSUME ToolsTypeOK, IteratorsInv, NEW e, EventPushed(e), active' = active,
           calls # << >> => ~Dispatching(Top)
    PROVE  IteratorsInv'
<1>1. PICK how, saved : Pushed(EventFrame(e, how, saved))
  BY DEF EventPushed
<1>2. PICK n \in Nat : n = Len(calls)
  BY CallTypes
<1>3. /\ calls' \in Seq(AnyFrame) /\ Len(calls') = n + 1 /\ calls'[n + 1] = EventFrame(e, how, saved)
      /\ \A i \in 1 .. n : calls'[i] = calls[i]
  BY <1>1, <1>2 DEF Pushed
<1>4. DOMAIN calls = 1 .. n /\ DOMAIN calls' = 1 .. (n + 1)
  <2>1. \A r \in Seq(AnyFrame) : DOMAIN r = 1 .. Len(r)
    OBVIOUS
  <2> QED  BY <1>2, <1>3, <2>1, CallTypes
<1>5. ASSUME NEW i \in DOMAIN calls'  PROVE LeftAlone(i) \/ Placed(i)'
  <2>1. CASE i = n + 1
    BY <1>3, <2>1, NewFramePlaced
  <2>2. CASE i = n
    <3>1. n \in 1 .. n
      BY <1>4, <1>5, <2>2
    <3>2. calls # << >> /\ Top = calls[n]
      BY <1>2, <1>4, <3>1, CallTypes
    <3> QED  BY <1>3, <1>4, <2>2, <3>1, <3>2, IdleFramePlaced
  <2>3. CASE i # n /\ i # n + 1
    <3>1. i \in 1 .. n
      BY <1>4, <1>5, <2>3, TopOrBelow
    <3>2. i + 1 \in 1 .. n
      BY <2>3, <3>1, NextInside
    <3> QED  BY <1>2, <1>3, <1>4, <2>3, <3>1, <3>2 DEF LeftAlone
  <2> QED  BY <2>1, <2>2, <2>3
<1> QED  BY <1>5, IteratorsKept

LEMMA UserEventIterators ==
    ASSUME ContextInv, IteratorsInv, UserEvent
    PROVE  IteratorsInv'
<1>1. PICK e \in Event : EventPushed(e)
  BY UserEventPushes DEF ContextInv
<1>2. calls # << >> => ~Dispatching(Top)
  BY DEF UserEvent, FromOutside, InEvent, Dispatching
<1>3. active' = active
  BY DEF UserEvent
<1> QED  BY <1>1, <1>2, <1>3, EventPushedIterators DEF ContextInv

LEMMA RunNowIterators ==
    ASSUME ContextInv, IteratorsInv, RunNow
    PROVE  IteratorsInv'
<1>1. PICK e \in Event : EventPushed(e)
  BY RunNowPushes DEF ContextInv
<1>2. calls # << >> => ~Dispatching(Top)
  BY DEF RunNow, InBody, Dispatching
<1>3. active' = active
  BY DEF RunNow
<1> QED  BY <1>1, <1>2, <1>3, EventPushedIterators DEF ContextInv

LEMMA ProcessQueuedIterators ==
    ASSUME ContextInv, IteratorsInv, ProcessQueued
    PROVE  IteratorsInv'
<1>1. EventPushed(Head(queue))
  BY ProcessQueuedPushes DEF ContextInv
<1>2. calls # << >> => ~Dispatching(Top)
  BY DEF ProcessQueued, InEvent, Dispatching
<1>3. active' = active
  BY DEF ProcessQueued
<1> QED  BY <1>1, <1>2, <1>3, EventPushedIterators DEF ContextInv

\* What stands below the frame on top of the call stack.
LEMMA BelowTop ==
    ASSUME ToolsTypeOK, NEW n \in Nat, n = Len(calls), calls # << >>
    PROVE  /\ DOMAIN calls = 1 .. n /\ n \in 1 .. n /\ Top = calls[n] /\ n # 0
           /\ \A i \in 1 .. n : i # n => i + 1 \in 1 .. n /\ (i # n - 1 => i + 1 # n)
           /\ \A i \in 1 .. n : i = n - 1 => i + 1 = n
<1>1. DOMAIN calls = 1 .. n /\ n \in 1 .. n /\ Top = calls[n] /\ n # 0
  BY TopFrame
<1>2. \A i \in 1 .. n : i # n => i + 1 \in 1 .. n /\ (i # n - 1 => i + 1 # n)
  OBVIOUS
<1> QED  BY <1>1, <1>2

\* The frame on top is replaced, and all frames below it are left alone but that
\* which called it.
LEMMA TopChanged ==
    ASSUME ToolsTypeOK, NEW n \in Nat, n = Len(calls), calls # << >>, NEW f,
           \/ Changed(f) \/ Ended
           \/ \E g : ChangedAndPushed(f, g)
    PROVE  \A i \in DOMAIN calls' :
             \/ LeftAlone(i) \/ i = n \/ i = n + 1
             \/ i = n - 1 /\ i \in DOMAIN calls /\ i # n /\ i + 1 = n /\ calls'[i] = calls[i]
<1>1. PICK l \in Nat :
        /\ l = n - 1 \/ l = n \/ l = n + 1
        /\ calls' \in Seq(AnyFrame) /\ Len(calls') = l
        /\ \A i \in 1 .. (n - 1) : calls'[i] = calls[i]
  <2>1. n - 1 \in Nat
    BY BelowTop
  <2> QED  BY <2>1 DEF Changed, Ended, ChangedAndPushed
<1>2. DOMAIN calls' = 1 .. l
  <2>1. \A r \in Seq(AnyFrame) : DOMAIN r = 1 .. Len(r)
    OBVIOUS
  <2> QED  BY <1>1, <2>1
<1> SUFFICES ASSUME NEW i \in 1 .. l, i # n, i # n + 1
             PROVE  \/ LeftAlone(i)
                    \/ i = n - 1 /\ i \in DOMAIN calls /\ i # n /\ i + 1 = n /\ calls'[i] = calls[i]
  BY <1>2
<1>3. i \in 1 .. (n - 1) /\ i \in 1 .. n
  <2>1. \A a, b, c \in Nat : (b = c - 1 \/ b = c \/ b = c + 1) /\ a \in 1 .. b /\ a # c /\ a # c + 1 =>
          a \in 1 .. (c - 1) /\ a \in 1 .. c
    OBVIOUS
  <2> QED  BY <1>1, <2>1
<1>4. CASE i = n - 1
  BY <1>1, <1>3, <1>4, BelowTop
<1>5. CASE i # n - 1
  <2>1. i + 1 \in 1 .. (n - 1)
    BY <1>3, <1>5
  <2>2. i # l
    BY <1>1, <1>3, <1>5
  <2>3. i \in DOMAIN calls
    BY <1>3, BelowTop
  <2> QED  BY <1>1, <1>3, <2>1, <2>2, <2>3 DEF LeftAlone
<1> QED  BY <1>4, <1>5

LEMMA EventBelow ==
    ASSUME ContextInv, IteratorsInv, NEW n \in Nat, n = Len(calls), calls # << >>, Top.kind # "body",
           NEW i \in DOMAIN calls, i # n, i + 1 = n, calls'[i] = calls[i]
    PROVE  Placed(i)'
<1>1. calls[i + 1].kind # "body"
  BY BelowTop DEF ContextInv
<1>2. ~Dispatching(calls[i])
  BY <1>1, NotDispatching DEF ContextInv
<1> QED  BY <1>2, IdleFramePlaced

LEMMA MovedOnIterators ==
    ASSUME ContextInv, IteratorsInv, NobodyWaits \/ NobodyStarts
    PROVE  IteratorsInv'
<1>1. PICK pc : MovedOn(pc) /\ (pc = "starts" \/ pc = AfterDispatch(Top.event))
  BY NobodyWaitsMoves, NobodyStartsMoves DEF ContextInv
<1>2. PICK f : f = [Top EXCEPT !.pc = pc]
  OBVIOUS
<1>3. calls # << >> /\ Top \in EventFrames /\ Changed(f)
  BY <1>1, <1>2 DEF MovedOn
<1>4. f.kind = "event" /\ f.again = Top.again /\ f.pc # "tools" /\ Top.kind = "event"
  BY <1>1, <1>2, <1>3 DEF EventFrames, AfterDispatch
<1>5. active' = active
  BY DEF NobodyWaits, NobodyStarts
<1>6. PICK n \in Nat : n = Len(calls)
  BY CallTypes DEF ContextInv
<1>7. n \in DOMAIN calls /\ Top = calls[n] /\ calls'[n] = f
  BY <1>3, <1>6, BelowTop DEF ContextInv, Changed
<1>8. ASSUME NEW i \in DOMAIN calls'  PROVE LeftAlone(i) \/ Placed(i)'
  <2>1. CASE i = n
    BY <1>4, <1>7, <2>1, PastFramePlaced
  <2>2. i # n + 1
    <3>1. \A r \in Seq(AnyFrame) : DOMAIN r = 1 .. Len(r)
      OBVIOUS
    <3> QED  BY <1>3, <1>6, <1>8, <3>1 DEF Changed
  <2>3. CASE i = n - 1 /\ i \in DOMAIN calls /\ i # n /\ i + 1 = n /\ calls'[i] = calls[i]
    BY <1>3, <1>4, <1>6, <2>3, EventBelow
  <2> QED  BY <1>3, <1>6, <1>8, <2>1, <2>2, <2>3, TopChanged DEF ContextInv
<1> QED  BY <1>5, <1>8, IteratorsKept

LEMMA EndEventIterators ==
    ASSUME ContextInv, IteratorsInv, EndEvent
    PROVE  IteratorsInv'
<1>1. calls # << >> /\ Top.kind = "event" /\ calls' = Front(calls) /\ active' = active
  BY DEF EndEvent, InEvent
<1>2. Ended
  BY <1>1, End DEF ContextInv
<1>3. PICK n \in Nat : n = Len(calls)
  BY CallTypes DEF ContextInv
<1>4. ASSUME NEW i \in DOMAIN calls'  PROVE LeftAlone(i) \/ Placed(i)'
  <2>1. i # n + 1 /\ i # n
    <3>1. \A r \in Seq(AnyFrame) : DOMAIN r = 1 .. Len(r)
      OBVIOUS
    <3> QED  BY <1>2, <1>3, <1>4, <3>1 DEF Ended
  <2>2. CASE i = n - 1 /\ i \in DOMAIN calls /\ i # n /\ i + 1 = n /\ calls'[i] = calls[i]
    BY <1>1, <1>3, <2>2, EventBelow
  <2> QED  BY <1>1, <1>2, <1>3, <1>4, <2>1, <2>2, TopChanged DEF ContextInv
<1> QED  BY <1>1, <1>4, IteratorsKept

LEMMA SameIterators ==
    ASSUME IteratorsInv, UNCHANGED <<calls, active, state>>
    PROVE  IteratorsInv'
  BY DEF IteratorsInv, Placed

\* A handler that is to call Activate() has not been woken up.
LEMMA ActivateIterators ==
    ASSUME ContextInv, IteratorsInv, Activate
    PROVE  IteratorsInv'
<1>1. InBody /\ Top.fresh /\ active' = active
  BY DEF Activate
<1>2. PICK how, saved :
        ChangedAndPushed(ActivatingBody, EventFrame(Activation(Top.tool), how, saved))
  BY ActivatePushes DEF ContextInv
<1>3. PICK n \in Nat : n = Len(calls)
  BY CallTypes DEF ContextInv
<1>4. calls # << >> /\ n \in DOMAIN calls /\ Top = calls[n] /\ Top \in BodyFrames
  BY <1>1, <1>3, HandlerOnTop, BelowTop DEF ContextInv
<1>5. calls'[n] = ActivatingBody /\ calls'[n + 1] = EventFrame(Activation(Top.tool), how, saved) /\ Len(calls') = n + 1
  BY <1>2, <1>3 DEF ChangedAndPushed
<1>6. calls'[n].kind = "body"
  BY <1>4, <1>5 DEF ActivatingBody, BodyFrames
<1>7. ASSUME NEW i \in DOMAIN calls'  PROVE LeftAlone(i) \/ Placed(i)'
  <2>1. CASE i = n
    BY <1>6, <2>1 DEF Placed
  <2>2. CASE i = n + 1
    BY <1>5, <2>2, NewFramePlaced
  <2>3. CASE i = n - 1 /\ i \in DOMAIN calls /\ i # n /\ i + 1 = n /\ calls'[i] = calls[i]
    <3>1. Placed(i)
      BY <2>3 DEF IteratorsInv
    <3>2. ~Dispatching(calls[i])
      BY <1>1, <1>3, <1>4, <2>3, <3>1 DEF Placed, Dispatching, Held
    <3> QED  BY <2>3, <3>2, IdleFramePlaced
  <2> QED  BY <1>2, <1>3, <1>4, <1>7, <2>1, <2>2, <2>3, TopChanged DEF ContextInv
<1> QED  BY <1>1, <1>7, IteratorsKept

LEMMA StartHandlerIterators ==
    ASSUME ContextInv, IteratorsInv, StartHandler
    PROVE  IteratorsInv'
<1>1. PICK t \in Tool :
        /\ InEvent("starts") /\ Startable(t)
        /\ \E sync \in {None, <<t, NextContext(t)>>} :
             calls' = Append(WithTop(StartingFrame(t, sync)), StartingBody(t))
        /\ active' = active
  BY DEF StartHandler, StartingFrame, StartingBody
<1>2. PICK sync \in {None, <<t, NextContext(t)>>} :
        calls' = Append(WithTop(StartingFrame(t, sync)), StartingBody(t))
  BY <1>1
<1>3. NextContext(t) \in 1 .. MaxContexts
  <2>1. Len(stack[t]) \in Nat
    BY ContextTypes DEF ContextInv
  <2>2. \A l \in Nat : l + 1 \in Nat /\ l + 1 >= 1 /\ l + 2 \in Nat /\ l + 2 >= 1
    OBVIOUS
  <2>3. NextContext(t) = Len(stack[t]) + 1 \/ NextContext(t) = Len(stack[t]) + 2
    BY DEF NextContext
  <2>4. NextContext(t) \in Nat /\ NextContext(t) >= 1
    BY <2>1, <2>2, <2>3
  <2>5. NextContext(t) <= MaxContexts /\ MaxContexts \in Nat
    BY <1>1, ToolManagerAssumption DEF Startable
  <2> QED  BY <2>4, <2>5
<1>4. PICK f, b : f = StartingFrame(t, sync) /\ b = StartingBody(t)
  OBVIOUS
<1>5. ChangedAndPushed(f, b)
  BY <1>1, <1>2, <1>3, <1>4, StartingPushes DEF ContextInv
<1>6. calls # << >> /\ Top \in EventFrames /\ Top.kind = "event" /\ Top.pc = "starts"
  BY <1>1, TopEvent DEF ContextInv, EventFrames
<1>7. f.kind = "event" /\ f.pc = "starts" /\ f.again = Top.again /\ b.kind = "body"
  BY <1>4, <1>6 DEF StartingFrame, StartingBody, Body, EventFrames
<1>8. PICK n \in Nat : n = Len(calls)
  BY CallTypes DEF ContextInv
<1>9. n \in DOMAIN calls /\ Top = calls[n] /\ calls'[n] = f /\ calls'[n + 1] = b
  BY <1>5, <1>6, <1>8, BelowTop DEF ContextInv, ChangedAndPushed
<1>10. ASSUME NEW i \in DOMAIN calls'  PROVE LeftAlone(i) \/ Placed(i)'
  <2>1. CASE i = n
    BY <1>6, <1>7, <1>9, <2>1, PastFramePlaced
  <2>2. CASE i = n + 1
    BY <1>7, <1>9, <2>2 DEF Placed
  <2>3. CASE i = n - 1 /\ i \in DOMAIN calls /\ i # n /\ i + 1 = n /\ calls'[i] = calls[i]
    BY <1>6, <1>8, <2>3, EventBelow
  <2> QED  BY <1>5, <1>6, <1>8, <1>10, <2>1, <2>2, <2>3, TopChanged DEF ContextInv
<1> QED  BY <1>1, <1>10, IteratorsKept

\* The next tool that waits is at the iterator or behind it; its handler is not
\* among those that dispatchInternal() has woken.
LEMMA WakeToolIterators ==
    ASSUME ContextInv, ActiveInv, IteratorsInv, WakeTool
    PROVE  IteratorsInv'
<1>1. PICK k \in DOMAIN active :
        /\ InEvent("tools") /\ Top.at # Erased /\ k >= Top.at /\ WaitingAt(k)
        /\ calls' = Append(WithTop(WakingFrame(k, active[k], state[active[k]].co)),
                           Body(active[k], state[active[k]].co, FALSE, TRUE))
        /\ active' = active
  BY DEF WakeTool, WakingFrame
<1>2. PICK t \in Tool : t = active[k]
  BY CallsTyped DEF ContextInv
<1>3. PICK co : co = state[t].co
  OBVIOUS
<1>4. co \in 1 .. MaxContexts
  BY <1>1, <1>2, <1>3, WaitingAlone DEF ContextInv, WaitingAt
<1>5. PICK f, b : f = WakingFrame(k, t, co) /\ b = Body(t, co, FALSE, TRUE)
  OBVIOUS
<1>6. ChangedAndPushed(f, b)
  BY <1>1, <1>2, <1>3, <1>4, <1>5, WakingPushes DEF ContextInv
<1>7. b.tool = t /\ b.co = co /\ ~b.fresh /\ b.resumed /\ b.kind = "body"
  BY <1>5 DEF Body
<1>8. calls # << >> /\ Top \in EventFrames /\ Top.kind = "event" /\ Top.pc = "tools"
  BY <1>1, TopEvent DEF ContextInv, EventFrames
<1>9. PICK n \in Nat : n = Len(calls)
  BY CallTypes DEF ContextInv
<1>10. n \in DOMAIN calls /\ Top = calls[n] /\ calls'[n] = f /\ calls'[n + 1] = b /\ Len(calls') = n + 1
  BY <1>6, <1>8, <1>9, BelowTop DEF ContextInv, ChangedAndPushed
<1>11. ~Top.again /\ Going(Top, active, state)
  BY <1>8, <1>9, <1>10 DEF IteratorsInv, Placed
<1>12. k \in Nat /\ Top.at \in Nat /\ \A j \in DOMAIN active : j \in Nat
  <2>1. active \in Seq(Tool)
    BY CallsTyped DEF ContextInv
  <2> QED  BY <1>8, <2>1 DEF EventFrames
<1>13. \A c \in 1 .. MaxContexts : <<t, c>> \in Top.woken => co < c
  BY <1>1, <1>2, <1>3, <1>11 DEF Going
<1>14. <<t, co>> \notin Top.woken
  <2>1. ~(co < co)
    BY <1>4
  <2> QED  BY <1>4, <1>13, <2>1
<1>15. f.kind = "event" /\ f.at = k /\ f.woken = Top.woken \cup {<<t, co>>} /\ ~f.again
  BY <1>5, <1>8, <1>11, <1>14 DEF WakingFrame, EventFrames
<1>16. Held(f, b, active)
  <2>1. ASSUME NEW c \in 1 .. MaxContexts, <<t, c>> \in f.woken  PROVE co <= c
    <3>1. co < c \/ c = co
      BY <1>13, <1>15, <2>1
    <3>2. co \in Nat /\ c \in Nat
      BY <1>4
    <3> QED  BY <3>1, <3>2
  <2>2. ASSUME NEW j \in DOMAIN active, NEW c \in 1 .. MaxContexts, j >= k, <<active[j], c>> \in f.woken
        PROVE  j = k
    <3>1. CASE <<active[j], c>> \in Top.woken
      <4>1. j >= Top.at
        BY <1>1, <1>12, <2>2
      <4>2. j = Top.at
        BY <1>11, <2>2, <3>1, <4>1 DEF Going
      <4> QED  BY <1>1, <1>12, <2>2, <4>2
    <3>2. CASE <<active[j], c>> = <<t, co>>
      BY <1>2, <3>2 DEF ActiveInv, ActiveOnceEach
    <3> QED  BY <1>15, <2>2, <3>1, <3>2
  <2> QED  BY <1>1, <1>2, <1>7, <1>15, <2>1, <2>2 DEF Held
<1>17. ASSUME NEW i \in DOMAIN calls'  PROVE LeftAlone(i) \/ Placed(i)'
  <2>1. CASE i = n
    <3>1. n # Len(calls')
      BY <1>10
    <3> QED  BY <1>1, <1>10, <1>15, <1>16, <2>1, <3>1 DEF Placed
  <2>2. CASE i = n + 1
    BY <1>7, <1>10, <2>2 DEF Placed
  <2>3. CASE i = n - 1 /\ i \in DOMAIN calls /\ i # n /\ i + 1 = n /\ calls'[i] = calls[i]
    BY <1>8, <1>9, <2>3, EventBelow
  <2> QED  BY <1>6, <1>8, <1>9, <1>17, <2>1, <2>2, <2>3, TopChanged DEF ContextInv
<1> QED  BY <1>1, <1>17, IteratorsKept

LEMMA WaitIterators ==
    ASSUME ContextInv, IteratorsInv, Wait
    PROVE  IteratorsInv'
<1>1. InBody /\ active' = active
  BY DEF Wait
<1>2. PICK n \in Nat : n = Len(calls)
  BY CallTypes DEF ContextInv
<1>3. /\ n > 1 /\ calls # << >> /\ Top.kind = "body" /\ Top = calls[n]
      /\ Below = calls[n - 1] /\ Below \in AnyFrame /\ Below.kind # "body"
  BY <1>1, <1>2, HandlerOnTop DEF ContextInv
<1>4. PICK pass \in BOOLEAN : Returned(WaitingFrame(pass))
  BY <1>2, <1>3, WaitReturns DEF ContextInv
<1>5. PICK m \in Nat : m = n - 1
  BY <1>3
<1>6. m # 0 /\ n = m + 1 /\ m # n
  BY <1>3, <1>5
<1>7. /\ calls' \in Seq(AnyFrame) /\ Len(calls') = m /\ calls'[m] = WaitingFrame(pass)
      /\ \A i \in 1 .. (m - 1) : calls'[i] = calls[i]
  <2>1. n - 2 = m - 1
    BY <1>5
  <2> QED  BY <1>2, <1>4, <1>5, <2>1 DEF Returned
<1>8. DOMAIN calls' = 1 .. m /\ DOMAIN calls = 1 .. n /\ m \in 1 .. m /\ m \in 1 .. n
  <2>1. \A r \in Seq(AnyFrame) : DOMAIN r = 1 .. Len(r)
    OBVIOUS
  <2>2. m \in 1 .. m /\ m \in 1 .. n
    BY <1>6
  <2> QED  BY <1>2, <1>7, <2>1, <2>2, CallTypes DEF ContextInv
<1>9. Placed(m)
  BY <1>8 DEF IteratorsInv
<1>10. Placed(m)'
  <2>1. CASE Below.kind # "event"
    BY <1>7, <2>1 DEF WaitingFrame, Placed
  <2>2. CASE Below.kind = "event" /\ Below.pc # "tools"
    <3>1. calls'[m] = calls[m] /\ ~Dispatching(calls[m])
      BY <1>3, <1>5, <1>7, <2>2 DEF WaitingFrame, Resumed, Dispatching
    <3> QED  BY <1>8, <3>1, IdleFramePlaced
  <2>3. CASE Below.kind = "event" /\ Below.pc = "tools"
    <3>1. Below \in EventFrames
      BY <1>3, <2>3, FrameKinds
    <3>2. Held(Below, Top, active) /\ ~Below.again
      BY <1>2, <1>3, <1>5, <1>6, <1>9, <2>3 DEF Placed
    <3>3. CASE pass
      <4>1. calls'[m] = [Below EXCEPT !.at = Below.at + 1]
        BY <1>7, <2>3, <3>3 DEF WaitingFrame, Resumed
      <4>2. /\ calls'[m].at = Below.at + 1 /\ calls'[m].again = Below.again
            /\ calls'[m].woken = Below.woken /\ Below.at \in Nat
        BY <3>1, <4>1 DEF EventFrames
      <4>3. Going(calls'[m], active, state')
        <5>1. calls'[m].at # Erased
          BY <4>2 DEF Erased
        <5>2. ASSUME NEW j \in DOMAIN active, NEW c \in 1 .. MaxContexts, j >= Below.at + 1,
                     <<active[j], c>> \in Below.woken
              PROVE  FALSE
          <6>1. j \in Nat
            BY CallsTyped DEF ContextInv
          <6>2. j >= Below.at /\ j # Below.at
            BY <4>2, <5>2, <6>1
          <6> QED  BY <3>2, <5>2, <6>2 DEF Held
        <5> QED  BY <4>2, <5>1, <5>2 DEF Going
      <4> QED  BY <1>1, <1>7, <3>2, <4>2, <4>3 DEF Placed
    <3>4. CASE ~pass
      <4>1. calls'[m] = [Below EXCEPT !.pc = AfterDispatch(Below.event)]
        BY <1>7, <2>3, <3>4 DEF WaitingFrame, Resumed
      <4>2. calls'[m].pc # "tools" /\ calls'[m].again = Below.again
        BY <3>1, <4>1 DEF EventFrames, AfterDispatch
      <4> QED  BY <1>3, <1>5, <1>8, <2>3, <4>2, PastFramePlaced
    <3> QED  BY <3>3, <3>4
  <2> QED  BY <2>1, <2>2, <2>3
<1>11. ASSUME NEW i \in DOMAIN calls'  PROVE LeftAlone(i) \/ Placed(i)'
  <2>1. CASE i = m
    BY <1>10, <2>1
  <2>2. CASE i # m
    <3>1. i \in 1 .. (m - 1) /\ i \in 1 .. n /\ i # n
      BY <1>5, <1>8, <1>11, <2>2
    <3>2. CASE i + 1 = m
      <4>1. ~Dispatching(calls[i])
        BY <1>2, <1>3, <1>5, <1>8, <3>1, <3>2, NotDispatching DEF ContextInv
      <4> QED  BY <1>7, <1>8, <3>1, <4>1, IdleFramePlaced
    <3>3. CASE i + 1 # m
      <4>1. i + 1 \in 1 .. (m - 1)
        BY <3>1, <3>3
      <4> QED  BY <1>2, <1>7, <1>8, <2>2, <3>1, <4>1 DEF LeftAlone
    <3> QED  BY <3>2, <3>3
  <2> QED  BY <2>1, <2>2
<1> QED  BY <1>1, <1>11, IteratorsKept

\* While a frame is destroyed no event is dispatched.
LEMMA AloneIterators == ToolsTypeOK /\ ShutdownAlone /\ shuttingDown => IteratorsInv
<1> SUFFICES ASSUME ToolsTypeOK, ShutdownAlone, shuttingDown, NEW i \in DOMAIN calls  PROVE calls[i].kind # "event"
  BY DEF IteratorsInv, Placed
<1>1. DOMAIN calls = 1 .. Len(calls) /\ Len(calls) \in Nat
  BY CallTypes
<1>2. Len(calls) <= 2 /\ Len(calls) >= 1
  BY <1>1 DEF ShutdownAlone
<1>3. i = 1 \/ (i = 2 /\ Len(calls) = 2)
  BY <1>1, <1>2
<1> QED  BY <1>2, <1>3 DEF ShutdownAlone

LEMMA ShuttingDownIterators ==
    ASSUME ContextInv', ActiveInv', shuttingDown'
    PROVE  IteratorsInv'
<1>1. ToolsTypeOK' /\ ShutdownAlone'
  BY DEF ContextInv, ActiveInv
<1>2. (ToolsTypeOK /\ ShutdownAlone /\ shuttingDown)' => IteratorsInv'
  BY AloneIterators, PTL
<1> QED  BY <1>1, <1>2

LEMMA ShutdownIterators ==
    ASSUME ContextInv, ContextInv', ActiveInv, ActiveInv', IteratorsInv, Shutdown
    PROVE  IteratorsInv'
<1>1. CASE ShutdownAllTools
  BY <1>1, ShuttingDownIterators DEF ShutdownAllTools
<1>2. CASE ShutdownTool
  <2>1. /\ calls # << >> /\ Top.kind = "shutdown" /\ shuttingDown' = shuttingDown
    BY <1>2 DEF ShutdownTool
  <2>2. Len(calls) \in DOMAIN calls /\ Top = calls[Len(calls)]
    BY <2>1, TopFrame DEF ContextInv
  <2>3. shuttingDown'
    BY <2>1, <2>2 DEF ActiveInv, MainToolsStay
  <2> QED  BY <2>3, ShuttingDownIterators
<1>3. CASE EndShutdown \/ NewFrame
  <2>1. calls' = << >>
    BY <1>3 DEF EndShutdown, NewFrame
  <2>2. DOMAIN calls' = {}
    BY <2>1
  <2> QED  BY <2>2 DEF IteratorsInv
<1> QED  BY <1>1, <1>2, <1>3 DEF Shutdown

\* The iterator of a frame that waits goes with its node.
LEMMA MovedHeld ==
    ASSUME NEW f \in EventFrames, NEW b, NEW list, NEW other, NEW at, Held(f, b, list),
           at \in DOMAIN other, other[at] = list[f.at],
           \A j \in DOMAIN other : j >= at =>
               \E p \in DOMAIN list : other[j] = list[p] /\ p >= f.at /\ (p = f.at => j = at)
    PROVE  Held([f EXCEPT !.at = at], b, other)
<1>1. PICK g : g = [f EXCEPT !.at = at]
  OBVIOUS
<1>2. g.at = at /\ g.woken = f.woken
  BY <1>1 DEF EventFrames
<1> QED  BY <1>1, <1>2 DEF Held

LEMMA PutFirstHeld ==
    ASSUME NEW f \in EventFrames, NEW b, NEW list \in Seq(Tool), NEW other \in Seq(Tool), Held(f, b, list),
           NEW k \in Nat, k >= 1, NEW t, PutFirst(list, k, t, other), f.at # k
    PROVE  Held([f EXCEPT !.at = IF f.at < k THEN f.at + 1 ELSE f.at], b, other)
<1>1. PICK p : p = f.at
  OBVIOUS
<1>2. p \in DOMAIN list /\ p \in Nat /\ p >= 1 /\ \A j \in DOMAIN other : j \in Nat
  BY <1>1 DEF Held
<1>3. /\ \A j \in DOMAIN list : /\ j < k => j + 1 \in DOMAIN other /\ other[j + 1] = list[j]
                                /\ j > k => j \in DOMAIN other /\ other[j] = list[j]
      /\ \A j \in DOMAIN other : \/ j = 1
                                 \/ j <= k /\ j - 1 \in DOMAIN list /\ other[j] = list[j - 1]
                                 \/ j > k /\ j \in DOMAIN list /\ other[j] = list[j]
  BY DEF PutFirst
<1>4. CASE p < k
  <2>1. p + 1 \in DOMAIN other /\ other[p + 1] = list[p]
    BY <1>2, <1>3, <1>4
  <2>2. ASSUME NEW j \in DOMAIN other, j >= p + 1
        PROVE  \E q \in DOMAIN list : other[j] = list[q] /\ q >= p /\ (q = p => j = p + 1)
    <3>1. j \in Nat /\ j # 1
      BY <1>2, <2>2
    <3>2. CASE j <= k /\ j - 1 \in DOMAIN list /\ other[j] = list[j - 1]
      <4>1. j - 1 >= p /\ (j - 1 = p => j = p + 1)
        BY <1>2, <2>2, <3>1
      <4> QED  BY <3>2, <4>1
    <3>3. CASE j > k /\ j \in DOMAIN list /\ other[j] = list[j]
      <4>1. j >= p /\ j # p
        BY <1>2, <2>2, <3>1
      <4> QED  BY <3>3, <4>1
    <3> QED  BY <1>3, <3>1, <3>2, <3>3
  <2> QED  BY <1>1, <1>4, <2>1, <2>2, MovedHeld
<1>5. CASE ~(p < k)
  <2>1. p > k
    BY <1>1, <1>2, <1>5
  <2>2. p \in DOMAIN other /\ other[p] = list[p]
    BY <1>2, <1>3, <2>1
  <2>3. ASSUME NEW j \in DOMAIN other, j >= p
        PROVE  \E q \in DOMAIN list : other[j] = list[q] /\ q >= p /\ (q = p => j = p)
    <3>1. j \in Nat /\ j # 1 /\ ~(j <= k)
      BY <1>2, <2>1, <2>3
    <3> QED  BY <1>3, <2>3, <3>1
  <2> QED  BY <1>1, <1>5, <2>2, <2>3, MovedHeld
<1> QED  BY <1>4, <1>5

LEMMA TakenAtHeld ==
    ASSUME NEW f \in EventFrames, NEW b, NEW list \in Seq(Tool), NEW other \in Seq(Tool), Held(f, b, list),
           NEW k \in Nat, TakenAt(list, k, other), f.at # k
    PROVE  Held([f EXCEPT !.at = IF f.at > k THEN f.at - 1 ELSE f.at], b, other)
<1>1. PICK p : p = f.at
  OBVIOUS
<1>2. p \in DOMAIN list /\ p \in Nat /\ \A j \in DOMAIN other : j \in Nat
  BY <1>1 DEF Held
<1>3. /\ \A j \in DOMAIN list : /\ j < k => j \in DOMAIN other /\ other[j] = list[j]
                                /\ j > k => j - 1 \in DOMAIN other /\ other[j - 1] = list[j]
      /\ \A j \in DOMAIN other : \/ j < k /\ j \in DOMAIN list /\ other[j] = list[j]
                                 \/ j >= k /\ j + 1 \in DOMAIN list /\ other[j] = list[j + 1]
  BY DEF TakenAt
<1>4. CASE p > k
  <2>1. p - 1 \in DOMAIN other /\ other[p - 1] = list[p]
    BY <1>2, <1>3, <1>4
  <2>2. ASSUME NEW j \in DOMAIN other, j >= p - 1
        PROVE  \E q \in DOMAIN list : other[j] = list[q] /\ q >= p /\ (q = p => j = p - 1)
    <3>1. j \in Nat /\ ~(j < k)
      BY <1>2, <1>4, <2>2
    <3>2. j + 1 \in DOMAIN list /\ other[j] = list[j + 1]
      BY <1>3, <3>1
    <3>3. j + 1 >= p /\ (j + 1 = p => j = p - 1)
      BY <1>2, <2>2, <3>1
    <3> QED  BY <3>2, <3>3
  <2> QED  BY <1>1, <1>4, <2>1, <2>2, MovedHeld
<1>5. CASE ~(p > k)
  <2>1. p < k
    BY <1>1, <1>2, <1>5
  <2>2. p \in DOMAIN other /\ other[p] = list[p]
    BY <1>2, <1>3, <2>1
  <2>3. ASSUME NEW j \in DOMAIN other, j >= p
        PROVE  \E q \in DOMAIN list : other[j] = list[q] /\ q >= p /\ (q = p => j = p)
    <3>1. j \in Nat
      BY <1>2
    <3>2. CASE j < k /\ j \in DOMAIN list /\ other[j] = list[j]
      BY <2>3, <3>2
    <3>3. CASE j >= k /\ j + 1 \in DOMAIN list /\ other[j] = list[j + 1]
      <4>1. j + 1 >= p /\ j + 1 # p
        BY <1>2, <2>1, <3>1, <3>3
      <4> QED  BY <3>3, <4>1
    <3> QED  BY <1>3, <3>2, <3>3
  <2> QED  BY <1>1, <1>5, <2>2, <2>3, MovedHeld
<1> QED  BY <1>4, <1>5

\* runTool() puts its tool first, and every iterator stays at its node: none of
\* them is at the tool's, for its only handlers were started inside of others'.
LEMMA RunToolIterators ==
    ASSUME ContextInv, ActiveInv, ActiveInv', ContextInv', IteratorsInv, MainTool # {}, RunTool
    PROVE  IteratorsInv'
<1>1. PICK t \in Tool : t = Top.event.tool
  BY RunToolRuns
<1>2. PICK k : RunsTool(t, k)
  BY <1>1, RunToolRuns
<1>3. calls # << >> /\ Pending(Top) /\ Top \in EventFrames
  BY RunToolRuns
<1>4. PICK n \in Nat : n = Len(calls)
  BY CallTypes DEF ContextInv
<1>5. /\ calls' \in Seq(AnyFrame) /\ Len(calls') = n /\ calls'[n] = [Top EXCEPT !.pc = "queue"]
      /\ \A i \in 1 .. (n - 1) : Like(calls[i], calls'[i])
  BY <1>4, RunToolAlike
<1>6. \A i \in 1 .. (n - 1) : calls'[i] = MovedTo(calls[i], t)
  BY <1>1, <1>4, RunToolMoves DEF ContextInv
<1>7. DOMAIN calls = 1 .. n /\ DOMAIN calls' = 1 .. n /\ n \in 1 .. n /\ calls[n] = Top
  <2>1. \A r \in Seq(AnyFrame) : DOMAIN r = 1 .. Len(r)
    OBVIOUS
  <2>2. DOMAIN calls = 1 .. n /\ n \in DOMAIN calls /\ calls[n] = Top
    BY <1>3, <1>4, TopFrame DEF ContextInv
  <2> QED  BY <1>5, <2>1, <2>2
<1>8. /\ n - 1 \in Bodies /\ calls[n - 1].tool = t /\ ~calls[n - 1].resumed
      /\ \A j \in Bodies : calls[j].tool = t => j >= n - 1
  BY <1>1, <1>3, <1>7 DEF ActiveInv, ActivationsHeld
<1>9. active \in Seq(Tool) /\ active' \in Seq(Tool)
  BY CallsTyped DEF ContextInv, ToolsTypeOK
<1>10. Placed(n)'
  <2>1. calls[n].kind = "event" /\ calls'[n].pc = "queue" /\ calls'[n].again = calls[n].again
    BY <1>3, <1>5, <1>7 DEF EventFrames
  <2> QED  BY <1>7, <2>1, PastFramePlaced
<1>11. ASSUME NEW i \in 1 .. (n - 1)  PROVE Placed(i)'
  <2>1. i \in 1 .. n /\ i # n /\ i + 1 \in 1 .. n
    BY <1>11
  <2>2. PICK f : f = calls[i]
    OBVIOUS
  <2>3. f \in AnyFrame /\ calls'[i].kind = f.kind /\ calls'[i] = MovedTo(f, t)
    BY <1>5, <1>6, <1>7, <1>11, <2>1, <2>2, CallTypes DEF ContextInv, Like
  <2>4. CASE f.kind # "event"
    BY <2>3, <2>4 DEF Placed
  <2>5. CASE f.kind = "event" /\ f.pc # "tools"
    <3>1. calls'[i] = calls[i] /\ ~Dispatching(calls[i])
      BY <2>2, <2>3, <2>5 DEF MovedTo, ShiftedAt, ClosedAt, Dispatching
    <3> QED  BY <1>7, <2>1, <3>1, IdleFramePlaced
  <2>6. CASE f.kind = "event" /\ f.pc = "tools"
    <3>1. f \in EventFrames
      BY <2>3, <2>6, FrameKinds
    <3>2. PICK b : b = calls[i + 1]
      OBVIOUS
    <3>3. b.kind = "body"
      BY <1>4, <1>7, <2>1, <2>2, <2>6, <3>2 DEF ContextInv, FramesChained
    <3>4. i + 1 # n
      BY <1>3, <1>7, <3>2, <3>3 DEF Pending
    <3>5. i + 1 \in 1 .. (n - 1)
      BY <2>1, <3>4
    <3>6. calls'[i + 1] = b
      BY <1>5, <3>2, <3>3, <3>5 DEF Like
    <3>7. Held(f, b, active) /\ ~f.again
      BY <1>4, <1>7, <2>1, <2>2, <2>6, <3>2 DEF IteratorsInv, Placed
    <3>8. f.at # k
      <4>1. SUFFICES ASSUME f.at = k  PROVE FALSE
        OBVIOUS
      <4>2. k \in DOMAIN active /\ b.tool = active[k] /\ active[k] = t
        BY <1>2, <3>7, <4>1 DEF Held, RunsTool
      <4>3. i + 1 \in Bodies /\ calls[i + 1].tool = t
        BY <1>7, <2>1, <3>2, <3>3, <4>2 DEF Bodies
      <4>4. i + 1 >= n - 1
        BY <1>8, <4>3
      <4>5. i + 1 = n - 1
        BY <3>5, <4>4
      <4> QED  BY <1>8, <3>2, <3>7, <4>5 DEF Held
    <3>9. calls'[i] = [f EXCEPT !.at = IF f.at < k THEN f.at + 1 ELSE f.at]
      BY <1>2, <2>3, <2>6, <3>1, <3>7, <3>8 DEF RunsTool, Held
    <3>10. calls'[i].again = f.again
      BY <3>1, <3>9 DEF EventFrames
    <3>11. Held(calls'[i], b, active')
      BY <1>2, <1>9, <3>1, <3>7, <3>8, <3>9, PutFirstHeld DEF RunsTool
    <3>12. i # Len(calls')
      BY <1>5, <2>1
    <3> QED  BY <3>6, <3>7, <3>10, <3>11, <3>12 DEF Placed
  <2> QED  BY <2>4, <2>5, <2>6
<1> QED  BY <1>7, <1>10, <1>11, TopOrBelow DEF IteratorsInv

LEMMA UnsyncedEvent ==
    ASSUME NEW f \in EventFrames, NEW u
    PROVE  /\ Unsynced(f, u) \in EventFrames
           /\ Unsynced(f, u).at = f.at /\ Unsynced(f, u).pc = f.pc /\ Unsynced(f, u).event = f.event
           /\ Unsynced(f, u).woken = f.woken /\ Unsynced(f, u).again = f.again
  BY DEF Unsynced, EventFrames

LEMMA UnsyncedHeld ==
    ASSUME NEW f \in EventFrames, NEW u, NEW b, NEW list, Held(f, b, list)
    PROVE  Held(Unsynced(f, u), b, list)
  BY UnsyncedEvent DEF Held

\* A frame of dispatchInternal() that waits for another handler than the one that
\* ends.
LEMMA FinishHeld ==
    ASSUME ContextInv, ContextInv', Finish, NEW i \in DOMAIN calls, i + 1 \in Bodies, i + 1 < Len(calls),
           NEW f \in EventFrames, f.pc = "tools", Held(f, calls[i + 1], active)
    PROVE  /\ Held(LeftBelow(f, Top.tool, Top.co), calls[i + 1], active')
           /\ LeftBelow(f, Top.tool, Top.co).again = f.again
<1>1. PICK t, co, u : t = Top.tool /\ co = Top.co /\ u = <<t, co>>
  OBVIOUS
<1>2. PICK g, b : g = Unsynced(f, u) /\ b = calls[i + 1]
  OBVIOUS
<1>3. g \in EventFrames /\ g.pc = "tools" /\ g.at = f.at /\ g.again = f.again /\ g.kind = "event" /\ Held(g, b, active)
  BY <1>2, UnsyncedEvent, UnsyncedHeld DEF EventFrames
<1>4. CASE ~TakenOff(t)
  <2>1. LeftBelow(f, t, co) = g /\ active' = active
    BY <1>1, <1>2, <1>4, FinishList DEF LeftBelow
  <2> QED  BY <1>1, <1>2, <1>3, <2>1
<1>5. CASE TakenOff(t)
  <2>1. PICK k : k = PlaceAfter(t)
    OBVIOUS
  <2>2. k \in DOMAIN active /\ active[k] = t /\ TakenAt(active, k, active')
    BY <1>1, <1>5, <2>1, FinishList
  <2>3. k \in Nat
    BY <2>1, PlaceIsNat DEF ContextInv
  <2>4. g.at # k
    <3>1. SUFFICES ASSUME g.at = k  PROVE FALSE
      OBVIOUS
    <3>2. b.tool = t
      BY <1>3, <2>2, <3>1 DEF Held
    <3>3. Len(calls) \in Bodies /\ Top = calls[Len(calls)] /\ co = 1
      <4>1. InBody
        BY DEF Finish
      <4>2. Len(calls) \in Bodies /\ Top = calls[Len(calls)]
        BY <4>1, RunningIsCurrent, HandlerOnTop DEF ContextInv
      <4>3. co = 1
        BY <1>1, <1>5, FinishedContext DEF TakenOff
      <4> QED  BY <4>2, <4>3
    <3>4. calls[i + 1].co < 1
      BY <1>1, <1>2, <3>2, <3>3 DEF ContextInv, ContextsAgree, HandlersOrdered
    <3>5. calls[i + 1].co \in 1 .. MaxContexts
      BY BodyTypes DEF ContextInv
    <3> QED  BY <3>4, <3>5
  <2>5. ClosedAt(g, k) = [g EXCEPT !.at = IF g.at > k THEN g.at - 1 ELSE g.at]
    BY <1>3, <2>4 DEF ClosedAt
  <2>6. LeftBelow(f, t, co) = ClosedAt(g, k)
    BY <1>1, <1>2, <1>5, <2>1 DEF LeftBelow
  <2>7. active \in Seq(Tool) /\ active' \in Seq(Tool)
    BY CallsTyped DEF ContextInv, ToolsTypeOK
  <2>8. Held(ClosedAt(g, k), b, active')
    BY <1>3, <2>2, <2>3, <2>4, <2>5, <2>7, TakenAtHeld
  <2>9. ClosedAt(g, k).again = g.again
    BY <1>3, <2>5 DEF EventFrames
  <2> QED  BY <1>1, <1>2, <1>3, <2>6, <2>8, <2>9
<1> QED  BY <1>4, <1>5

\* The frame of dispatchInternal() that goes on: its iterator is where the node of
\* the tool was, the handlers of the tool that are left were not woken by it.
LEMMA FinishGoing ==
    ASSUME ContextInv, ContextInv', ActiveInv, Finish, NEW f \in EventFrames, Held(f, Top, active)
    PROVE  Going([f EXCEPT !.at = PlaceAfter(Top.tool)], active', state')
<1>1. PICK t \in Tool :
         /\ t = Top.tool /\ Top.co = state[t].co
         /\ stack[t] # << >> => state'[t].co < Top.co
  BY FinishedContext
<1>2. PICK k : k = PlaceAfter(t)
  OBVIOUS
<1>3. k \in Nat \ {0}
  BY <1>2, PlaceIsNat DEF ContextInv
<1>4. PICK g : g = [f EXCEPT !.at = k]
  OBVIOUS
<1>5. g.at = k /\ g.woken = f.woken
  BY <1>4 DEF EventFrames
<1>6. t \in ToSet(active)
  BY <1>1 DEF Held, ToSet
<1>7. k = f.at
  <2>1. k = FirstIndex(t) /\ k \in DOMAIN active /\ active[k] = t
    BY <1>2, <1>6, FirstIndexIs DEF ContextInv, PlaceAfter
  <2> QED  BY <1>1, <2>1 DEF Held, ActiveInv, ActiveOnceEach
<1>8. g.at # Erased
  BY <1>3, <1>5 DEF Erased
<1>9. CASE TakenOff(t)
  <2>1. TakenAt(active, k, active')
    BY <1>1, <1>2, <1>9, FinishList
  <2>2. ASSUME NEW j \in DOMAIN active', NEW c \in 1 .. MaxContexts, j >= k, <<active'[j], c>> \in f.woken
        PROVE  FALSE
    <3>1. j \in Nat
      <4>1. active' \in Seq(Tool)
        BY DEF ContextInv, ToolsTypeOK
      <4>2. \A s \in Seq(Tool) : \A l \in DOMAIN s : l \in Nat
        OBVIOUS
      <4> QED  BY <4>1, <4>2
    <3>2. j + 1 \in DOMAIN active /\ active'[j] = active[j + 1]
      <4>1. ~(j < k)
        BY <1>3, <2>2, <3>1
      <4> QED  BY <2>1, <4>1 DEF TakenAt
    <3>3. j + 1 >= f.at /\ j + 1 # f.at
      BY <1>3, <1>7, <2>2, <3>1
    <3> QED  BY <2>2, <3>2, <3>3 DEF Held
  <2> QED  BY <1>1, <1>2, <1>4, <1>5, <1>8, <2>2 DEF Going
<1>10. CASE ~TakenOff(t)
  <2>1. active' = active /\ stack[t] # << >>
    BY <1>1, <1>6, <1>10, FinishList DEF TakenOff
  <2>2. state'[t].co < Top.co
    BY <1>1, <2>1
  <2>3. state'[t].co \in Nat /\ Top.co \in Nat
    <3>1. \A s \in [Tool -> Context] : s[t].co \in Nat
      BY DEF Context
    <3>2. state \in [Tool -> Context] /\ state' \in [Tool -> Context]
      BY DEF ContextInv, ToolsTypeOK
    <3> QED  BY <1>1, <3>1, <3>2
  <2>4. ASSUME NEW j \in DOMAIN active, NEW c \in 1 .. MaxContexts, j >= k, <<active[j], c>> \in f.woken
        PROVE  j = k /\ state'[active[j]].co < c
    <3>1. j = k
      BY <1>7, <2>4 DEF Held
    <3>2. active[j] = t
      BY <1>1, <1>7, <3>1 DEF Held
    <3>3. Top.co <= c
      BY <1>1, <2>4, <3>2 DEF Held
    <3> QED  BY <2>2, <2>3, <3>1, <3>2, <3>3
  <2> QED  BY <1>1, <1>2, <1>4, <1>5, <1>8, <2>1, <2>4 DEF Going
<1> QED  BY <1>9, <1>10

LEMMA FinishIterators ==
    ASSUME ContextInv, ContextInv', ActiveInv, IteratorsInv, Finish
    PROVE  IteratorsInv'
<1>1. InBody
  BY DEF Finish
<1>2. PICK n \in Nat : n = Len(calls)
  BY CallTypes DEF ContextInv
<1>3. /\ n > 1 /\ calls # << >> /\ Top.kind = "body" /\ Top = calls[n]
      /\ Below = calls[n - 1] /\ Below \in AnyFrame /\ Below.kind # "body"
  BY <1>1, <1>2, HandlerOnTop DEF ContextInv
<1>4. PICK t, co : t = Top.tool /\ co = Top.co
  OBVIOUS
<1>5. PICK pass \in BOOLEAN : FinishReturns(t, co, pass)
  BY <1>2, <1>3, <1>4, FinishEffect DEF ContextInv
<1>6. PICK m \in Nat : m = n - 1
  BY <1>3
<1>7. m # 0 /\ n = m + 1 /\ m # n /\ n - 2 = m - 1
  BY <1>3, <1>6
<1>8. PICK u, again : u = <<t, co>> /\ again = Popped(t, pass).pass
  OBVIOUS
<1>9. /\ calls' \in Seq(AnyFrame) /\ Len(calls') = m
      /\ calls'[m] = Resumed(Unsynced(Below, u), PlaceAfter(t), again)
      /\ \A i \in 1 .. (m - 1) : calls'[i] = LeftBelow(calls[i], t, co)
  BY <1>2, <1>5, <1>6, <1>7, <1>8 DEF FinishReturns
<1>10. \A i \in 1 .. m : Like(calls[i], calls'[i])
  BY <1>2, <1>6, FinishAlike
<1>11. DOMAIN calls' = 1 .. m /\ DOMAIN calls = 1 .. n /\ m \in 1 .. m /\ m \in 1 .. n
  <2>1. \A r \in Seq(AnyFrame) : DOMAIN r = 1 .. Len(r)
    OBVIOUS
  <2>2. m \in 1 .. m /\ m \in 1 .. n
    BY <1>7
  <2> QED  BY <1>2, <1>9, <2>1, <2>2, CallTypes DEF ContextInv
<1>12. Placed(m)'
  <2>1. CASE Below.kind # "event"
    BY <1>3, <1>6, <1>10, <1>11, <2>1 DEF Like, Placed
  <2>2. CASE Below.kind = "event"
    <3>1. Below \in EventFrames
      BY <1>3, <2>2, FrameKinds
    <3>2. PICK h : h = Unsynced(Below, u)
      OBVIOUS
    <3>3. h \in EventFrames /\ h.pc = Below.pc /\ h.again = Below.again /\ h.kind = "event"
      BY <3>1, <3>2, UnsyncedEvent DEF EventFrames
    <3>4. calls'[m] = Resumed(h, PlaceAfter(t), again)
      BY <1>9, <3>2
    <3>5. CASE h.pc = "tools" /\ again
      <4>1. Held(Below, Top, active) /\ ~Below.again
        BY <1>2, <1>3, <1>6, <1>7, <1>11, <2>2, <3>3, <3>5 DEF IteratorsInv, Placed
      <4>2. Held(h, Top, active)
        BY <3>1, <3>2, <4>1, UnsyncedHeld
      <4>3. calls'[m] = [h EXCEPT !.at = PlaceAfter(t)]
        BY <3>3, <3>4, <3>5 DEF Resumed
      <4>4. Going(calls'[m], active', state')
        BY <1>4, <3>3, <4>2, <4>3, FinishGoing
      <4>5. calls'[m].again = h.again
        BY <3>3, <4>3 DEF EventFrames
      <4> QED  BY <1>9, <3>3, <4>1, <4>4, <4>5 DEF Placed
    <3>6. CASE ~(h.pc = "tools" /\ again)
      <4>1. calls'[m].pc # "tools" /\ calls'[m].again = h.again
        BY <3>3, <3>4, <3>6 DEF Resumed, EventFrames, AfterDispatch
      <4> QED  BY <1>3, <1>6, <1>11, <2>2, <3>3, <4>1, PastFramePlaced
    <3> QED  BY <3>5, <3>6
  <2> QED  BY <2>1, <2>2
<1>13. ASSUME NEW i \in 1 .. (m - 1)  PROVE Placed(i)'
  <2>1. i \in 1 .. m /\ i \in 1 .. n /\ i # m /\ i # n /\ i + 1 \in 1 .. m /\ i + 1 \in 1 .. n /\ i + 1 < n
    BY <1>7, <1>13
  <2>2. PICK f : f = calls[i]
    OBVIOUS
  <2>3. f \in AnyFrame /\ calls'[i].kind = f.kind /\ calls'[i] = LeftBelow(f, t, co)
    BY <1>9, <1>10, <1>11, <1>13, <2>1, <2>2, CallTypes DEF ContextInv, Like
  <2>4. CASE f.kind # "event"
    BY <2>3, <2>4 DEF Placed
  <2>5. CASE f.kind = "event" /\ f.pc # "tools"
    <3>1. f \in EventFrames
      BY <2>3, <2>5, FrameKinds
    <3>2. PICK h : h = Unsynced(f, u)
      OBVIOUS
    <3>3. h.pc # "tools" /\ h.again = f.again
      BY <2>5, <3>1, <3>2, UnsyncedEvent
    <3>4. calls'[i] = h
      BY <1>8, <2>3, <3>2, <3>3 DEF LeftBelow, ClosedAt
    <3> QED  BY <1>11, <2>1, <2>2, <2>5, <3>3, <3>4, PastFramePlaced
  <2>6. CASE f.kind = "event" /\ f.pc = "tools"
    <3>1. f \in EventFrames
      BY <2>3, <2>6, FrameKinds
    <3>2. calls[i + 1].kind = "body" /\ i + 1 \in Bodies
      BY <1>2, <1>11, <2>1, <2>2, <2>6 DEF ContextInv, FramesChained, Bodies
    <3>3. calls'[i + 1] = calls[i + 1]
      BY <1>10, <2>1, <3>2 DEF Like
    <3>4. Held(f, calls[i + 1], active) /\ ~f.again
      BY <1>2, <1>11, <2>1, <2>2, <2>6 DEF IteratorsInv, Placed
    <3>5. Held(calls'[i], calls[i + 1], active') /\ calls'[i].again = f.again
      BY <1>2, <1>4, <1>11, <2>1, <2>3, <2>6, <3>1, <3>2, <3>4, FinishHeld
    <3> QED  BY <1>9, <2>1, <3>3, <3>4, <3>5 DEF Placed
  <2> QED  BY <2>4, <2>5, <2>6
<1> QED  BY <1>11, <1>12, <1>13, TopOrBelow DEF IteratorsInv

LEMMA IteratorsStep ==
    ASSUME MainTool # {}, ContextInv, ContextInv', ActiveInv, ActiveInv', IteratorsInv, [Next]_vars
    PROVE  IteratorsInv'
<1>1. CASE UNCHANGED vars
  BY <1>1, SameIterators DEF vars
<1>2. CASE UserEvent
  BY <1>2, UserEventIterators
<1>3. CASE Dispatch
  BY <1>3, WakeToolIterators, MovedOnIterators, StartHandlerIterators, RunToolIterators,
     ProcessQueuedIterators, EndEventIterators DEF Dispatch
<1>4. CASE Handler
  <2>1. Post => IteratorsInv'
    BY SameIterators DEF Post, contexts
  <2> QED  BY <1>4, <2>1, RunNowIterators, ActivateIterators, WaitIterators, FinishIterators DEF Handler
<1>5. CASE Shutdown
  BY <1>5, ShutdownIterators
<1> QED  BY <1>1, <1>2, <1>3, <1>4, <1>5 DEF Next

LEMMA IteratorsInvHolds ==
    ASSUME Restarts = FALSE, MainTool # {}
    PROVE  Spec => [](ContextInv /\ ActiveInv /\ IteratorsInv)
<1>1. Init => ContextInv /\ ActiveInv /\ IteratorsInv
  <2>1. Init => DOMAIN calls = {}
    BY DEF Init
  <2>2. Init => IteratorsInv
    BY <2>1 DEF IteratorsInv
  <2> QED  BY <2>2, InitContexts, InitActive
<1>2. ContextInv /\ ActiveInv /\ IteratorsInv /\ [Next]_vars => (ContextInv /\ ActiveInv /\ IteratorsInv)'
  BY ContextStep, ActiveStep, IteratorsStep
<1> QED  BY <1>1, <1>2, PTL DEF Spec

\* As long as no tool posts the activation of a selection tool, an idle manager has
\* every tool that waits on m_activeTools, once, and no other: runTool() and
\* finishTool() put a tool on the list and take it off exactly when its first
\* handler begins and ends, however handlers nest.
THEOREM ActiveToolsAreWaiting ==
    ASSUME Restarts = FALSE, MainTool # {}
    PROVE  Spec => []ActiveToolsWait
<1>1. ContextInv /\ ActiveInv => ActiveToolsWait
  BY IdleActive
<1> QED  BY <1>1, ActiveInvHolds, PTL

\* However deep dispatching nests, dispatchInternal() never goes on from a node of
\* m_activeTools that has been erased: the node of the tool that it has woken up
\* is erased only by that tool's own end, after which it goes to the next one.
THEOREM IteratorsStayValid ==
    ASSUME Restarts = FALSE, MainTool # {}
    PROVE  Spec => []IteratorsValid
<1>1. ContextInv /\ IteratorsInv => IteratorsValid
  <2> SUFFICES ASSUME ContextInv, IteratorsInv, NEW i \in Frames, calls[i].pc = "tools"
               PROVE  calls[i].at # Erased
    BY DEF IteratorsValid
  <2>1. i \in DOMAIN calls /\ calls[i].kind = "event"
    BY DEF Frames
  <2>2. CASE i = Len(calls)
    BY <2>1, <2>2 DEF IteratorsInv, Placed, Going
  <2>3. CASE i # Len(calls)
    <3>1. calls[i].at \in DOMAIN active
      BY <2>1, <2>3 DEF IteratorsInv, Placed, Held
    <3>2. active \in Seq(Tool)
      BY CallsTyped DEF ContextInv
    <3> QED  BY <3>1, <3>2 DEF Erased
  <2> QED  BY <2>2, <2>3
<1> QED  BY <1>1, IteratorsInvHolds, PTL

\* One event wakes a handler up once at most, although the handlers that it wakes
\* up have other tools put at the front of the list, start handlers and end them.
THEOREM HandlersWokenOnce ==
    ASSUME Restarts = FALSE, MainTool # {}
    PROVE  Spec => []WokenOnce
<1>1. IteratorsInv => WokenOnce
  BY DEF IteratorsInv, Placed, WokenOnce, Frames
<1> QED  BY <1>1, IteratorsInvHolds, PTL
=============================================================================
