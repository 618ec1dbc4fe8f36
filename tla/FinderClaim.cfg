CONSTANTS
  Drawings <- MCDrawings
  Scales <- MCScales
  RampArgs = {}
  Sizings = {}
  maxPixels <- MCMaxPixels
  Inks = {}
  Captions = {}
  Payloads = {}
  Scans = {}
  Keys = {}
  Barcodes = {}
  Places = {}
  Batches = {}
  MaxItems = 2
SPECIFICATION Spec
INVARIANT FinderReported
