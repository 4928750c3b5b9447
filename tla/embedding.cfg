CONSTANTS
  MaxCommands = 2
  MaxNotices = 2

SPECIFICATION Spec

PROPERTY RefinesMailboxes

CHECK_DEADLOCK FALSE
