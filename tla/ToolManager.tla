----------------------------- MODULE ToolManager -----------------------------
(* TOOL_MANAGER: events are dispatched to tools, whose handlers are          *)
(* coroutines.  A handler that waits gives the processor back to whoever     *)
(* called or resumed it; a handler that runs an action at once has the       *)
(* manager dispatch an event inside of it, so that dispatching nests.  The   *)
(* call stack is state here: event frames (processEvent()) and the bodies of *)
(* coroutines on top of each other, all of it in one thread.                 *)
(*                                                                           *)
(* What a handler does is not fixed: it runs actions, posts them, activates  *)
(* its tool, waits and ends in any order its kind allows.  Three conventions *)
(* of the tools are guards, each at its action: a handler activates its tool *)
(* before it waits; one that was started inside of another handler of its    *)
(* own tool does neither; one that got the null event ends.                  *)
EXTENDS Naturals, Sequences, FiniteSets, SequencesExt

CONSTANTS
    Tool,           \* the registered tools
    MainTool,       \* those with a handler for their own activation (Main)
    Listener,       \* those with a handler for messages
    None,           \* no tool, no coroutine
    MaxFrames,      \* bound: frames of processEvent() on the call stack and posted events
    MaxContexts,    \* bound: contexts of one tool
    Restarts        \* BOOLEAN: do tools post the activation of a selection tool

ASSUME ToolManagerAssumption ==
    /\ MainTool \subseteq Tool /\ Listener \subseteq Tool /\ None \notin Tool
    /\ IsFiniteSet(MainTool)
    /\ MaxFrames \in Nat /\ MaxContexts \in Nat \ {0}
    /\ Restarts \in BOOLEAN

VARIABLES
    state,          \* m_toolState: the current context of each tool
    stack,          \* stateStack of each tool
    active,         \* m_activeTools, the first gets events first
    activeState,    \* m_activeState
    queue,          \* m_eventQueue
    shuttingDown,   \* m_shuttingDown
    calls           \* the call stack, the running frame last

vars == <<state, stack, active, activeState, queue, shuttingDown, calls>>
contexts == <<state, stack>>

Event ==
    [type : {"input", "cancel", "message"}, tool : {None}]
    \cup [type : {"action", "activate"}, tool : Tool]

\* TOOL_EVENT::init(): these are passed on unless a tool says otherwise.
PassedByDefault(e) == e.type \in {"cancel", "message", "activate"}

\* A coroutine is known by its tool and the depth of its context.
Coroutine == Tool \X (1..MaxContexts)

\* TOOL_STATE: co is the depth of the context if it has a coroutine; ready says
\* that there are transitions, pass is the flag of wakeupEvent.
Context == [co : 0..MaxContexts, waiting : BOOLEAN, ready : BOOLEAN, shutdown : BOOLEAN, pass : BOOLEAN]

\* Iterators into m_activeTools are positions that move with their node.
Erased == 0

\* processEvent(): who called it (how) and the active state of that time
\* (saved), where it is (pc), the iterator of dispatchInternal() (at), the tools
\* left to look at in its second loop (rest); sync is the coroutine that
\* doRunAction() waits for.  woken and again are history.
EventFrame(e, how, saved) ==
    [kind |-> "event", event |-> e, how |-> how, saved |-> saved, pc |-> "tools",
     at |-> 1, rest |-> Tool, sync |-> None, woken |-> {}, again |-> FALSE]
\* A handler: fresh until it waits for the first time or activates its tool.
Body(t, co, fresh, resumed) ==
    [kind |-> "body", tool |-> t, co |-> co, fresh |-> fresh, resumed |-> resumed]
\* ShutdownAllTools(): the tools that are left on its copy of the list.
ShutdownFrame(list) == [kind |-> "shutdown", rest |-> list]

EventFrames ==
    [kind : {"event"}, event : Event, how : {"process", "invoke", "action", "sync", "queued"},
     saved : Tool \cup {None}, pc : {"tools", "starts", "activate", "queue"}, at : Nat,
     rest : SUBSET Tool, sync : Coroutine \cup {None}, woken : SUBSET Coroutine, again : BOOLEAN]
BodyFrames ==
    [kind : {"body"}, tool : Tool, co : 1..MaxContexts, fresh : BOOLEAN, resumed : BOOLEAN]
ShutdownFrames == [kind : {"shutdown"}, rest : Seq(Tool)]

ToolsTypeOK ==
    /\ state \in [Tool -> Context] /\ stack \in [Tool -> Seq(Context)]
    /\ active \in Seq(Tool) /\ activeState \in Tool \cup {None}
    /\ queue \in Seq(Event) /\ shuttingDown \in BOOLEAN
    /\ calls \in Seq(EventFrames \cup BodyFrames \cup ShutdownFrames)

NoContext == [co |-> 0, waiting |-> FALSE, ready |-> TRUE, shutdown |-> FALSE, pass |-> FALSE]
\* Mutant: a tool is woken up whose coroutine is gone.
WaitsWithoutCoroutine == [NoContext EXCEPT !.waiting = TRUE]
MainWaits == [NoContext EXCEPT !.co = 1, !.waiting = TRUE]

\* The tools of a new frame: InitTools(), and the selection tools are invoked.
NewStates == [t \in Tool |-> IF t \in MainTool THEN MainWaits ELSE NoContext]

Init ==
    /\ state = NewStates /\ stack = [t \in Tool |-> << >>]
    /\ active = SetToSeq(MainTool) /\ activeState = None
    /\ queue = << >> /\ shuttingDown = FALSE
    /\ calls = << >>

-----------------------------------------------------------------------------
(* The call stack.                                                           *)

Top == Last(calls)
Below == calls[Len(calls) - 1]
InEvent(pc) == calls # << >> /\ Top.kind = "event" /\ Top.pc = pc
InBody == calls # << >> /\ Top.kind = "body"

WithTop(frame) == Append(Front(calls), frame)

Frames == {i \in DOMAIN calls : calls[i].kind = "event"}
Bodies == {i \in DOMAIN calls : calls[i].kind = "body"}
OnCallStack(t, co) == \E i \in Bodies : calls[i].tool = t /\ calls[i].co = co

\* The running handler was started inside of another handler of its tool.
Nested == \E i \in Bodies : i < Len(calls) /\ calls[i].tool = Top.tool

PushEvent(frames, e, how) == Append(frames, EventFrame(e, how, activeState))
\* Posted events will need a frame, too.
MayPush(n) == Cardinality(Frames) + Len(queue) + n <= MaxFrames

\* The other iterators when a node is put at the front, or erased at k.
Shifted(frames) ==
    [i \in DOMAIN frames |->
        IF frames[i].kind = "event" /\ frames[i].pc = "tools" /\ frames[i].at # Erased
        THEN [frames[i] EXCEPT !.at = @ + 1] ELSE frames[i]]
Closed(frames, k) ==
    [i \in DOMAIN frames |->
        IF frames[i].kind = "event" /\ frames[i].pc = "tools"
        THEN [frames[i] EXCEPT !.at = IF @ = k THEN Erased ELSE IF @ > k THEN @ - 1 ELSE @]
        ELSE frames[i]]

FirstIndex(t) == CHOOSE i \in DOMAIN active : active[i] = t /\ \A j \in 1..(i - 1) : active[j] # t

\* Where processEvent() goes when dispatchInternal() returns.
AfterDispatch(e) == IF e.type = "activate" THEN "activate" ELSE "queue"

-----------------------------------------------------------------------------
(* Events from outside.                                                      *)

\* The user, or the frame; while doRunAction() waits for a tool that runs
\* synchronously, wxYield() handles the user's events too.
FromOutside ==
    \/ calls = << >>
    \/ InEvent("queue") /\ Top.sync # None /\ queue = << >>

UserEvent ==
    \E e \in Event :
        /\ FromOutside /\ MayPush(1) /\ ~shuttingDown
        /\ e.type \in {"input", "cancel", "action"}
        /\ calls' = PushEvent(calls, e, "process")
        /\ UNCHANGED <<contexts, active, activeState, queue, shuttingDown>>

-----------------------------------------------------------------------------
(* dispatchInternal(), first loop: handlers that wait.                       *)

WaitingAt(i) == state[active[i]].waiting

\* The next tool that waits is woken up.
WakeTool ==
    \E i \in DOMAIN active :
        LET t == active[i]
            co == state[t].co
        IN /\ InEvent("tools") /\ Top.at # Erased
           /\ i >= Top.at /\ WaitingAt(i)
           /\ \A j \in Top.at..(i - 1) : ~WaitingAt(j)
           /\ state' = [state EXCEPT ![t].waiting = FALSE, ![t].pass = PassedByDefault(Top.event)]
           /\ activeState' = t
           /\ calls' = Append(WithTop([Top EXCEPT !.at = i, !.woken = @ \cup {<<t, co>>},
                                                  !.again = @ \/ <<t, co>> \in Top.woken]),
                              Body(t, co, FALSE, TRUE))
           /\ UNCHANGED <<stack, active, queue, shuttingDown>>

NobodyWaits ==
    /\ InEvent("tools") /\ Top.at # Erased
    /\ \A i \in DOMAIN active : i >= Top.at => ~WaitingAt(i)
    /\ calls' = WithTop([Top EXCEPT !.pc = "starts"])
    /\ UNCHANGED <<contexts, active, activeState, queue, shuttingDown>>

-----------------------------------------------------------------------------
(* dispatchInternal(), second loop: handlers that start.                     *)

Matches(t, e) ==
    \/ e.type = "action" /\ e.tool = t
    \/ e.type = "activate" /\ e.tool = t /\ t \in MainTool
    \/ e.type = "message" /\ t \in Listener

\* The context of its next handler.
NextContext(t) == Len(stack[t]) + (IF state[t].co = 0 THEN 1 ELSE 2)
Startable(t) ==
    t \in Top.rest /\ state[t].ready /\ Matches(t, Top.event) /\ NextContext(t) <= MaxContexts

\* Mutant: the context of a handler that waits is lost.
StartContextInPlace(t) ==
    /\ state' = [state EXCEPT ![t].co = 1, ![t].waiting = FALSE, ![t].ready = FALSE, ![t].shutdown = FALSE]
    /\ UNCHANGED stack

\* TOOL_STATE::Push(); wakeupEvent is not reset.
StartContext(t) ==
    IF state[t].co = 0
    THEN /\ state' = [state EXCEPT ![t].co = 1, ![t].ready = FALSE]
         /\ UNCHANGED stack
    ELSE /\ stack' = [stack EXCEPT ![t] = Append(@, state[t])]
         /\ state' = [state EXCEPT ![t].co = NextContext(t), ![t].waiting = FALSE,
                                   ![t].ready = FALSE, ![t].shutdown = FALSE]

\* The first tool gets the event, unless it is a message; a tool that is run
\* synchronously may say so.
StartHandler ==
    \E t \in Tool :
        LET co == NextContext(t)
        IN /\ InEvent("starts") /\ Startable(t)
           /\ StartContext(t)
           /\ activeState' = t
           /\ \E sync \in {None, <<t, co>>} :
                /\ sync # None => Top.how = "sync"
                /\ calls' = Append(WithTop([Top EXCEPT !.sync = sync,
                                                       !.rest = IF Top.event.type = "message" THEN @ \ {t} ELSE {}]),
                                   Body(t, co, Top.event.type # "activate", FALSE))
           /\ UNCHANGED <<active, queue, shuttingDown>>

NobodyStarts ==
    /\ InEvent("starts") /\ \A t \in Tool : ~Startable(t)
    /\ calls' = WithTop([Top EXCEPT !.pc = AfterDispatch(Top.event)])
    /\ UNCHANGED <<contexts, active, activeState, queue, shuttingDown>>

-----------------------------------------------------------------------------
(* The rest of processEvent().                                               *)

\* Mutant: a tool that is active already is not taken off the list first.
RunToolAgain ==
    LET t == Top.event.tool
    IN /\ InEvent("activate")
       /\ state' = [state EXCEPT ![t].ready = TRUE]
       /\ active' = <<t>> \o active /\ activeState' = t
       /\ calls' = Shifted(WithTop([Top EXCEPT !.pc = "queue"]))
       /\ UNCHANGED <<stack, queue, shuttingDown>>

\* runTool()
RunTool ==
    LET t == Top.event.tool
        next == WithTop([Top EXCEPT !.pc = "queue"])
        k == FirstIndex(t)
    IN /\ InEvent("activate")
       /\ state' = [state EXCEPT ![t].ready = TRUE]
       /\ IF t \in ToSet(active) /\ Len(active) > 1
          THEN /\ active' = <<t>> \o RemoveAt(active, k)
               /\ calls' = IF k = 1 THEN next ELSE Shifted(Closed(next, k))
               /\ UNCHANGED activeState
          ELSE /\ active' = <<t>> \o active
               /\ calls' = Shifted(next)
               /\ activeState' = t
       /\ UNCHANGED <<stack, queue, shuttingDown>>

ProcessQueued ==
    /\ InEvent("queue") /\ queue # << >>
    /\ calls' = PushEvent(calls, Head(queue), "queued")
    /\ queue' = Tail(queue)
    /\ UNCHANGED <<contexts, active, activeState, shuttingDown>>

\* processEvent() returns, and with it its caller: ProcessEvent() and
\* invokeTool() make the current tool the active one, doRunAction() restores it.
EndEvent ==
    /\ InEvent("queue") /\ queue = << >> /\ Top.sync = None
    /\ activeState' = CASE Top.how \in {"process", "invoke"} -> IF active = << >> THEN activeState ELSE Head(active)
                        [] Top.how \in {"action", "sync"} -> Top.saved
                        [] Top.how = "queued" -> activeState
    /\ calls' = Front(calls)
    /\ UNCHANGED <<contexts, active, queue, shuttingDown>>

-----------------------------------------------------------------------------
(* What a handler does.                                                      *)

\* RunAction(), RunSynchronousAction(), CancelTool(), ProcessEvent() of a message.
RunNow ==
    \E e \in Event :
        \E how \in {"process", "action", "sync"} :
            /\ InBody /\ MayPush(IF how = "sync" THEN 2 ELSE 1) /\ ~shuttingDown
            /\ \/ e.type = "action" /\ how \in {"action", "sync"}
               \/ e.type = "cancel" /\ how = "action"
               \/ e.type = "message" /\ how = "process"
            /\ calls' = PushEvent(calls, e, how)
            /\ UNCHANGED <<contexts, active, activeState, queue, shuttingDown>>

\* PostAction()
Post ==
    \E e \in Event :
        /\ InBody /\ MayPush(1) /\ ~shuttingDown
        /\ e.type \in {"action", "cancel"} \/ (e.type = "activate" /\ e.tool \in MainTool /\ Restarts)
        /\ queue' = Append(queue, e)
        /\ UNCHANGED <<contexts, active, activeState, shuttingDown, calls>>

\* TOOL_INTERACTIVE::Activate(), which the handlers for an activation do not call.
Activate ==
    /\ InBody /\ MayPush(1)
    /\ Top.fresh /\ Top.tool \notin MainTool /\ ~Nested
    /\ calls' = PushEvent(WithTop([Top EXCEPT !.fresh = FALSE]),
                          [type |-> "activate", tool |-> Top.tool], "invoke")
    /\ UNCHANGED <<contexts, active, activeState, queue, shuttingDown>>

\* Mutant: dispatchInternal() stays at the tool, or where it was.
ResumedInPlace(frame, at, pass) ==
    IF frame.kind # "event" \/ frame.pc # "tools" \/ pass THEN frame
    ELSE [frame EXCEPT !.pc = AfterDispatch(frame.event)]

\* The frame to which a coroutine gives the processor back: dispatchInternal()
\* goes to the next tool if the event is passed on.
Resumed(frame, at, pass) ==
    IF frame.kind # "event" \/ frame.pc # "tools" THEN frame
    ELSE IF pass THEN [frame EXCEPT !.at = at]
    ELSE [frame EXCEPT !.pc = AfterDispatch(frame.event)]

\* A handler that was woken up may change whether its event is passed on.
Flags == IF Top.resumed /\ ~shuttingDown THEN BOOLEAN ELSE {state[Top.tool].pass}

\* ScheduleWait(), to KiYield().
Wait ==
    LET t == Top.tool
    IN /\ InBody
       /\ ~Top.fresh /\ ~Nested /\ ~state[t].shutdown
       /\ \E pass \in Flags :
            /\ state' = [state EXCEPT ![t].waiting = TRUE, ![t].pass = pass]
            /\ calls' = Append(Front(Front(calls)),
                               IF Below.kind = "event" THEN Resumed(Below, Below.at + 1, pass) ELSE Below)
       /\ UNCHANGED <<stack, active, activeState, queue, shuttingDown>>

\* TOOL_STATE::Pop(); a restored context brings its own wakeupEvent back.
Popped(t, pass) ==
    IF stack[t] = << >> THEN [state[t] EXCEPT !.co = 0, !.ready = TRUE, !.pass = pass]
    ELSE [Last(stack[t]) EXCEPT !.ready = TRUE]

NoSync(frames, co) ==
    [i \in DOMAIN frames |->
        IF frames[i].kind = "event" /\ frames[i].sync = co THEN [frames[i] EXCEPT !.sync = None] ELSE frames[i]]

\* Mutant: a tool is taken off the list although it has another context.
TakenOffAlways(t) == t \in ToSet(active)

\* Pop() has no other context.
TakenOff(t) == stack[t] = << >> /\ t \in ToSet(active)

\* The handler returns: finishTool().  The iterator it returns is the first one
\* of the tool, or the one after it.
Finish ==
    LET t == Top.tool
        k == IF t \in ToSet(active) THEN FirstIndex(t) ELSE Len(active) + 1
        erased == TakenOff(t)
        frames == NoSync(Front(calls), <<t, Top.co>>)
    IN /\ InBody
       /\ Top.fresh \/ Top.resumed
       /\ t \in MainTool /\ ~Top.fresh => state[t].shutdown
       /\ \E pass \in Flags :
            /\ state' = [state EXCEPT ![t] = Popped(t, pass)]
            /\ calls' = Append(IF erased THEN Closed(Front(frames), k) ELSE Front(frames),
                               Resumed(Last(frames), k, Popped(t, pass).pass))
       /\ stack' = [stack EXCEPT ![t] = IF @ = << >> THEN @ ELSE Front(@)]
       /\ active' = IF erased THEN RemoveAt(active, k) ELSE active
       /\ activeState' = IF activeState = t THEN None ELSE activeState
       /\ UNCHANGED <<queue, shuttingDown>>

-----------------------------------------------------------------------------
(* ShutdownAllTools(), when a frame is destroyed.                            *)

ShutdownAllTools ==
    /\ calls = << >> /\ ~shuttingDown
    /\ shuttingDown' = TRUE
    /\ state' = [t \in Tool |-> IF t \in ToSet(active) THEN [state[t] EXCEPT !.shutdown = TRUE] ELSE state[t]]
    /\ calls' = <<ShutdownFrame(active)>>
    /\ UNCHANGED <<stack, active, activeState, queue>>

\* ShutdownTool(): a tool that waits gets the null event.
ShutdownTool ==
    LET t == Head(Top.rest)
        next == WithTop([Top EXCEPT !.rest = Tail(@)])
    IN /\ calls # << >> /\ Top.kind = "shutdown" /\ Top.rest # << >>
       /\ IF t \in ToSet(active) /\ state[t].waiting
          THEN /\ state' = [state EXCEPT ![t].waiting = FALSE, ![t].shutdown = TRUE]
               /\ activeState' = t
               /\ calls' = Append(next, Body(t, state[t].co, FALSE, TRUE))
          ELSE /\ calls' = next
               /\ UNCHANGED <<state, activeState>>
       /\ UNCHANGED <<stack, active, queue, shuttingDown>>

EndShutdown ==
    /\ calls # << >> /\ Top.kind = "shutdown" /\ Top.rest = << >>
    /\ calls' = << >>
    /\ UNCHANGED <<contexts, active, activeState, queue, shuttingDown>>

\* The next frame has a tool manager of its own.
NewFrame ==
    /\ calls = << >> /\ shuttingDown
    /\ state' = NewStates /\ stack' = [t \in Tool |-> << >>]
    /\ active' = SetToSeq(MainTool) /\ activeState' = None
    /\ queue' = << >> /\ shuttingDown' = FALSE
    /\ UNCHANGED calls

-----------------------------------------------------------------------------
Dispatch ==
    WakeTool \/ NobodyWaits \/ StartHandler \/ NobodyStarts \/ RunTool \/ ProcessQueued \/ EndEvent
Handler == RunNow \/ Post \/ Activate \/ Wait \/ Finish
Shutdown == ShutdownAllTools \/ ShutdownTool \/ EndShutdown \/ NewFrame

Next == UserEvent \/ Dispatch \/ Handler \/ Shutdown

Spec == Init /\ [][Next]_vars

-----------------------------------------------------------------------------
(* Properties.                                                               *)

\* A handler has a context as long as its coroutine exists; it waits for an
\* event if and only if it is not on the call stack, on which it is once; and the
\* context of its tool is that of the handler that runs.  Push(), Pop(),
\* ScheduleWait() and dispatchInternal() keep three things together: cofunc, the
\* flag pendingWait and the stack of contexts.
CoroutineRunsOrWaits ==
    /\ \A t \in Tool :
        /\ state[t].co = Len(stack[t]) + 1 \/ (state[t].co = 0 /\ stack[t] = << >>)
        /\ state[t].waiting <=> state[t].co # 0 /\ ~OnCallStack(t, state[t].co)
        /\ \A k \in DOMAIN stack[t] : stack[t][k].co = k /\ (stack[t][k].waiting <=> ~OnCallStack(t, k))
    /\ \A i, j \in Bodies : calls[i].tool = calls[j].tool /\ calls[i].co = calls[j].co => i = j
    /\ InBody => Top.co = state[Top.tool].co

\* No dispatchInternal() goes on from a node of m_activeTools that has been
\* erased while it woke a tool up: by the tool's end, by tools that were run
\* inside of it, by activations (tool_manager.cpp:721-851, 982-1005, 445-487).
IteratorsValid == \A i \in Frames : calls[i].pc = "tools" => calls[i].at # Erased

\* One event wakes a handler up once at most, although tools that are activated
\* meanwhile are put in front of the list that it goes along.
WokenOnce == \A i \in Frames : ~calls[i].again

\* When the manager is idle the active tools are those that wait, each of them
\* once: an active tool gets the next event, and one that waits is not forgotten.
ActiveToolsWait ==
    calls = << >> /\ ~shuttingDown =>
        \A t \in Tool : Cardinality({i \in DOMAIN active : active[i] = t}) = IF state[t].waiting THEN 1 ELSE 0

\* What the manager does not promise, although its comments say so.
\* tool_manager.h, m_activeState: "Pointer to the state object corresponding to
\* the currently executed tool"; ProcessEvent() inside of a handler changes it.
ActiveIsRunning == InBody => activeState = Top.tool
\* tool_manager.cpp:461: "If the tool is already active, bring it to the top";
\* the only tool on the list is put there once more (Restarts).
ActiveOnce == IsInjective(active)
\* tool_manager.h:102: "Shutdown all tools with a currently registered event loop
\* in this tool manager by waking them up with a null event"; a context that
\* Pop() restores is not woken up any more.
ShutdownEndsLoops == shuttingDown /\ calls = << >> => \A t \in Tool : state[t].co = 0
=============================================================================
