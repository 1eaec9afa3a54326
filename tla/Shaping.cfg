SPECIFICATION ShSpec
CONSTANTS
    Dirs = {"outbound", "inbound"}
    Settings = {0, 1, 2, 3}
    Unrepresentable = {3}
    NotKnown = NotKnown
    Foreign = Foreign
    MaxChanges = 3
    MaxIntrusions = 1
    MaxFailing = 1
INVARIANTS ConfirmedIsInForce
PROPERTIES ForeignIsLeftAlone UnknownIsLeftAlone ChangeIsAnswered
CHECK_DEADLOCK FALSE
