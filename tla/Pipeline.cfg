SPECIFICATION MCSpec
CONSTANTS
  Locks <- MCLocks
  Answers <- MCAnswers
  Copies <- MCCopies
  Kinds <- MCKinds
  MaxItems = 3
  None = None
  Ids = {h1, h2, h3}
  Texts <- MCTexts
  BoxWidth = 16
  BoxHeight = 16
  StartSize = 6
  MinSize = 3
  MaxLines = 3
SYMMETRY Symmetry
INVARIANTS
  ReviewsCanBeReported
  RevisionsRaiseNothingNew
  RejectsOnlyUnsafe
  VersionsKeepTheRequest
  LargestFontThatFits
CHECK_DEADLOCK FALSE
