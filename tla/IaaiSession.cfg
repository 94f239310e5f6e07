SPECIFICATION Spec
CONSTANTS
  c1 = c1
  c2 = c2
  Calls <- IaaiCalls
  MaxTokens = 2
  MaxVersion = 3
  BrowserEnabled = TRUE
SYMMETRY Symmetry
INVARIANTS
  TypeOK
  PasswordSentOnce
PROPERTIES
  GivenUpForCause
  TokensNeverGoBack
