SPECIFICATION Spec
CONSTANTS
    outer = outer
    pipe = pipe
    side = side
    inner = inner
    Script = Script
    None = None
    AbortError = AbortError
    GroupError = GroupError
    ScriptError = ScriptError
    Groups <- MCGroups
    Pipelines <- MCPipelines
    Detached <- MCDetached
    Host <- MCHost
    Root <- MCRoot
    Above <- MCAbove
    Total <- MCTotal
    Width <- MCWidth
    Stages <- MCStages
INVARIANTS
    GroupsJoin
    SlotsAccounted
    HardFailureSurfaces
    SomebodyMoves
PROPERTIES
    NoLateDispatch
CHECK_DEADLOCK FALSE
