SPECIFICATION Spec
CONSTANTS
    Zero = Zero
    K = 2
    Disks <- MCDisks
    Paths <- MCPaths
    Renames <- MCRenames
    Modes <- MCModes
    Offsets = {0, 3, 5}
    Lengths = {1, 5}
    Programs <- MCPrograms
    MaxIo = 12
    Careless = FALSE
INVARIANTS ChainsSound NoLeak Durable Listing
PROPERTY ImplementsFiles
CHECK_DEADLOCK FALSE
