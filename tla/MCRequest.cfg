SPECIFICATION MCSpec
CONSTANTS
  Symbologies <- MCSymbologies
  Builders <- MCBuilders
  Colours = {"black", "red"}
  FrameKinds = {"border", "banner"}
  Formats = {"png", "svg"}
  Presets <- MCPresets
  LogoRefs <- MCLogoRefs
  BadImages = {"webp"}
  TooLarge = {"7"}
  Messages <- MCMessages
  Configs <- MCConfigs
  Waits <- MCWaits
  Chunks <- MCChunks
  Names <- MCNames
  Literals <- MCLiterals
  Allowlist <- MCAllowlist
  AllowRemote = TRUE
  Timeout = 5
  MaxBytes = 2
  Answers <- MCAnswers
  Replies <- MCReplies
  Refs <- MCRefs
  Uploads <- MCUploads
  MaxBody = 2
  MaxPixels = 30
  MaxDepth = 4
  ScanBudget = 8
  MinDimension = 1
CHECK_DEADLOCK FALSE
INVARIANT TypesOK
INVARIANT RequestHonoured
INVARIANT BoundedOverrun
INVARIANT ServedAsAsked
INVARIANT FetchSound
INVARIANT SearchBounded
INVARIANT CodesReported
PROPERTY CallAnswered
