SPECIFICATION Spec
CONSTANTS
    NoValue = NoValue
    Foci = {"memory", "cleaner", "judges", "capture", "document",
            "blueprint", "notes", "vault", "canvas", "page", "skill",
            "curator", "distil", "drafter", "thread", "suggestion", "cost",
            "debate", "plan", "claim", "faults", "backoff", "health"}
INVARIANTS
    MemoryIsTrue
    DocumentsAreTrue
    AgentsAskFirst
PROPERTIES
    HumanDecides
CHECK_DEADLOCK FALSE
