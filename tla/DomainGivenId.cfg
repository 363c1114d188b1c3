SPECIFICATION Spec
CONSTANTS
  Forms <- MCForms
  Names <- MCNames
  Tags <- MCTags
  Class <- MCClass
  Refused = {"?"}
  Retags <- MCRetags
  Uuids <- MCUuids
  MaxIndex = 11
  MaxTags = 3
  MaxCommands = 3
INVARIANT SameIdIsEqual
\* A form that was refused, and an aggregate that has had its commands, stop.
CHECK_DEADLOCK FALSE
