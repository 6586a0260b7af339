CONSTANTS
  Handle = {h1, h2, h3}
  MaxWord = 3
  Limit = 2
  Attempts = 2
SPECIFICATION Spec
SYMMETRY Handles
INVARIANT AccountBalances
PROPERTY RefusalsAreHonest
