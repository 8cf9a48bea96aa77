CONSTANTS
  Disks <- AllDisks
  Listed <- TwoReaders
  Texts <- Typed
  TypedNames <- OutputNames
  Levels = {"decode", "reread"}
  Images = {"img"}
  MaxCut = 1
  Parts = 4
  SwapsAt = {"device", "review", "flashReview", "start", "find", "analyze", "revalidate", "lookAgain"}
  MaxSwaps = 1
  NoDisk = NoDisk
  NoText = NoText
  NoRequest = NoRequest
  NoResult = NoResult

SPECIFICATION Spec
INVARIANT TypeOK
INVARIANT RequestIsReviewed
INVARIANT NothingKeptOfLastDevice
INVARIANT ConfirmedModelTouched
INVARIANT WarningStaysListed
INVARIANT OutcomeIsTold
PROPERTY OperationEnds
