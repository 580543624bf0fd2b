SPECIFICATION FairSpec
CONSTANTS
    write = write
    read = read
    cmd = cmd
    spawn = spawn
    t1 = t1
    t2 = t2
    src = src
    Call = {read, write, cmd}
    Spawns = {}
    Tool = {t1, t2}
    Source = {src}
    SourceOf <- MCSourceOf
    ToolOf <- MCToolOf
    Op <- MCOp
    Outside = {read}
    Listeners <- MCListeners
    DefaultMode = "danger-full-access"
    SessionMode = None
    None = None
    MaxEdits = 0
INVARIANT NoOrphan
CHECK_DEADLOCK FALSE
