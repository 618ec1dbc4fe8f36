CONSTANTS
  Drawings = {}
  Scales = {}
  RampArgs = {}
  Sizings <- MCSizings
  maxPixels <- MCMaxPixels
  Inks = {}
  Captions = {}
  Payloads = {}
  Scans = {}
  Keys = {}
  Barcodes = {}
  Places = {}
  Batches = {}
  MaxItems = 2
SPECIFICATION Spec
INVARIANT CapMeansWhatItSays
