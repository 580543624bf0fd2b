SPECIFICATION FairSpec
CONSTANTS
    write = write
    read = read
    cmd = cmd
    spawn = spawn
    t1 = t1
    t2 = t2
    src = src
    Call = {write, read, cmd, spawn}
    Spawns = {spawn}
    Tool = {t1, t2}
    Source = {src}
    SourceOf <- MCSourceOf
    ToolOf <- MCToolOf
    Op <- MCOp
    Outside = {write}
    Listeners <- MCListeners
    DefaultMode = "read-only"
    SessionMode = "workspace-write"
    None = None
    MaxEdits = 2
INVARIANTS TypeOK FreshDefinition RegisteredAndWatched BeyondBaseOnlyIfGranted
PROPERTY LoopComesFree
CHECK_DEADLOCK FALSE
