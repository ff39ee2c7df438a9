SPECIFICATION MCSpec
CONSTANTS
    Days = 2
    MaxCount = 1
    Writer = {w1, w2}
    Engine = {e1, e2}
    NoEngine = noengine
    NoRow = none
    LogDays = 3
    Keep = 2
    Lines = 2
    Said = 3
    Thread = {w1, w2}
    Replacer = {w1, w2}
    Reader = {e1, e2}
    Batches = 4
    Visitor = {w1, w2}
    RouteTTL = 2
    WarmTTL = 3
    EngineTTL = 2
    AnswerTTL = 2
SYMMETRY Identical
INVARIANTS
    RecordsTypeOK
    RecordedWasDone
    RestartRemembers
    CountsSettle
    LinesMoveOnce
    ServedIsStored
    ShownIsRecent
PROPERTIES
    RecordNeverShrinks
    ReplacedWhole
CHECK_DEADLOCK FALSE
