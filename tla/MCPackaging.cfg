CONSTANTS
  N = 3
  Ids <- MCIds
  Exts <- MCExts
  Plain <- MCPlain
  MaxStem = 4
  MaxExt = 2
  MaxSuffix = 12
  Lower <- MCLower
  Bodies <- MCBodies
  Pngs <- MCPngs
  Pixels <- MCPixels
  Layouts <- MCLayouts
  Skips <- MCSkips
  MaxItems = 3
  MaxInt = 15
  MaxBatchItems = 4
  MaxCells = 3
  maxImagePixels = 8
  maxTotalPixels = 5
  maxCellsPerPage = 8
  captionHeight = 5
SPECIFICATION PackagingSpec
INVARIANT DistinctEntries
INVARIANT EntriesHonest
INVARIANT SheetSound
INVARIANT SheetDrawn
