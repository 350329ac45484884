\* Overlays on a page that logs, fetches and unmounts the widget.
SPECIFICATION Spec
CONSTANTS
  BufferSize = 1
  Cooldown = 2
  MaxDrafts = 2
  MaxNotes = 2
  MaxLost = 1
  MaxDestroys = 1
INVARIANTS
  TypeOK
  SentRight
  InOrder
PROPERTIES
  FabReturns
CHECK_DEADLOCK FALSE
