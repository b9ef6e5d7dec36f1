SPECIFICATION Spec
CONSTANTS
  None = None
  Texts <- MCTexts
  Tags <- MCTags
  TagOf <- MCTagOf
  FirstText = 1
  MaxWrites = 2
  MaxErrors = 0
  Regimes <- MCEager
INVARIANT EditsAreEmbedded
CHECK_DEADLOCK FALSE
