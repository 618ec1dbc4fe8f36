CONSTANTS
  N = 3
  Ids <- MCIds
  Exts <- MCExts
  Plain <- MCPlain
  MaxStem = 4
  MaxExt = 2
  MaxSuffix = 12
  Lower <- MCLower
  Bodies <- RowBodies
  Pngs <- RowPngs
  Pixels <- MCPixels
  Layouts <- MCLayouts
  Skips <- MCSkips
  MaxItems = 2
  MaxInt = 15
  MaxBatchItems = 4
  MaxCells = 3
  maxImagePixels = 8
  maxTotalPixels = 5
  maxCellsPerPage = 8
  captionHeight = 5
SPECIFICATION PackagingSpec
INVARIANT OneBadRow
