SPECIFICATION Spec
CONSTANTS
  b1 = b1
  Builders = {b1}
  Including <- EvenContents
  MaxEdits = 3
INVARIANT ReusedUnlessReverted ScriptUnlessReverted
PROPERTY RecordsDescribe
