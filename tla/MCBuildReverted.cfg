SPECIFICATION Spec
CONSTANTS
  b1 = b1
  Builders = {b1}
  Including <- EvenContents
  MaxEdits = 2
INVARIANT NeverMismatched
