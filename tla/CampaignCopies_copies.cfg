SPECIFICATION Spec
CONSTANTS
  None = None
  Texts <- MCTexts
  Tags <- MCTags
  TagOf <- MCTagOf
  FirstText = 1
  MaxWrites = 2
  MaxErrors = 1
  Regimes <- MCRegimes
INVARIANTS CopiesAgree EmbeddingsFollowText
PROPERTY ListConverges
CHECK_DEADLOCK FALSE
