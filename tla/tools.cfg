SPECIFICATION Spec
CONSTANTS
    sel = sel
    edit = edit
    Tool = {sel, edit}
    MainTool = {sel}
    Listener = {edit}
    None = None
    MaxFrames = 3
    MaxContexts = 2
    Restarts = FALSE
INVARIANTS ToolsTypeOK CoroutineRunsOrWaits IteratorsValid WokenOnce ActiveToolsWait
