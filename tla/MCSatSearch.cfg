CONSTANTS
  MaxWidth = 12
  Widths <- MCWidths
SPECIFICATION Spec
PROPERTIES
  Returns
CHECK_DEADLOCK FALSE
