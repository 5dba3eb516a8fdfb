SPECIFICATION Spec
CONSTANTS
  Documents = {d1, d2}
  MaxEdits = 2
PROPERTIES
  EditsStayApart
CHECK_DEADLOCK FALSE
