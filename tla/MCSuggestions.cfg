\* One suggestion, three decisions and two readers while versions appear.
SPECIFICATION SuggestSpec
CONSTANTS
  Comments = {c1}
  MaxVersion = 3
  Deciders = {x1, x2, x3}
  Readers = {p1, p2}
  ContextChars = 1
SYMMETRY Symmetry
INVARIANTS
  OneDecisionWins
  AppliedIsTrue
PROPERTIES
  AppliedOnce
CHECK_DEADLOCK FALSE
