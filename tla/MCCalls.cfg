CONSTANTS
  Drawings <- MCDrawings
  Scales <- MCScales
  RampArgs <- MCRampArgs
  Sizings <- MCSizings
  maxPixels <- MCMaxPixels
  Inks <- MCInks
  Captions <- MCCaptions
  Payloads <- MCPayloads
  Scans <- MCScans
  Keys <- MCKeys
  Barcodes <- MCBarcodes
  Places <- MCPlaces
  Batches <- MCBatches
  MaxItems = 2
SPECIFICATION Spec
INVARIANT SymbolKept
INVARIANT ReportHonest
INVARIANT WritersAgree
INVARIANT RoomKept
INVARIANT PayloadsReread
INVARIANT MistakesCaught
INVARIANT PlacesHonest
INVARIANT TablesKept
