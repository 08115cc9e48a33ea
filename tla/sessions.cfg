SPECIFICATION Spec
CONSTANTS
    NoValue = NoValue
    Foci = {"stream", "bus", "audit", "hub", "routing", "command",
            "telegram", "socket", "bridge", "registry", "worktree",
            "gitpane", "merge", "watcher", "failover", "failover of two",
            "account", "conversation", "shutdown", "update", "crash", "awake"}
INVARIANTS
    NoSilentLoss
    ChatAnswersOnce
    PlatformsDeliver
    WorkIsKept
    HostsAreHeard
    AccountsFollow
    EndsInOrder
PROPERTIES
    NoStepBack
CHECK_DEADLOCK FALSE
