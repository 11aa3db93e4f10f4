\* kfree of a block that is not of the first cache.
SPECIFICATION HeapSpec
CONSTANTS
  Page <- MCPage
  Size32 = 32
  Size64 = 64
  Large <- MCLarge
  BootSlab <- MCBootSlab
  Count <- MCCount
  BootCount <- MCBootCount
  Freed <- MCFreedAny
INVARIANT CountersMatchMaps
