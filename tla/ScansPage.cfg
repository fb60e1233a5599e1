SPECIFICATION Spec
CONSTANTS
    Requests = {"r1", "r2"}
    Handlers = {"list", "scans", "scans page", "commit", "punch"}
    Nobody = "no one"
INVARIANT NobodyStuck
CHECK_DEADLOCK FALSE
