SPECIFICATION Spec
CONSTANTS
    NoValue = NoValue
    Foci = {"admin", "health", "key", "secret", "migration", "mcp", "server",
            "sql", "pools", "worker", "backup", "replica", "retention",
            "blob", "target", "restore", "export", "zip"}
INVARIANTS
    CredentialsHold
    ConfigurationFollows
    BackupsHold
    RestoresHold
PROPERTIES
    NothingOverwritten
CHECK_DEADLOCK FALSE
