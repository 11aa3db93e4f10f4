SPECIFICATION Spec
CONSTANTS
    Zero = Zero
    K = 2
    Disks <- MCDisks
    Paths <- MCPaths
    Renames <- MCRenames
    Modes <- MCCreating
    Offsets = {0, 3, 5}
    Lengths = {1, 5}
    Programs <- MCRetry
    MaxIo = 12
    Careless = TRUE
INVARIANT Durable
CHECK_DEADLOCK FALSE
