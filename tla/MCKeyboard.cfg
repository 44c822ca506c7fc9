SPECIFICATION Spec
CONSTANTS
  BUFFER_LEN = 3
  Letters = {"a"}
  Arrows = {"up"}
  Struck = {"a", "up", "left shift", "ctrl", "right ctrl"}
  MaxWire = 2
  NULL = NULL
INVARIANTS TypeOK ModifiersFollow
PROPERTIES Implements
