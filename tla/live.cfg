SPECIFICATION Spec
CONSTANT NoValue = NoValue
PROPERTIES
    QueuesEnd
    WatchersNotice
    PassesArrive
CHECK_DEADLOCK FALSE
