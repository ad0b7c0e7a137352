\* Two tags with DevEUIs in lower case; a greeting and two more messages.
SPECIFICATION Spec
CONSTANTS
    Conns = {c1, c2}
    Devices = {d1, d2}
    Spellings = {"lower"}
    None = None
    MaxSent = 3
    MaxUp = 2
INVARIANTS
    ConfigCurrent
    ConfirmedRouted
PROPERTIES
    AddresseeFound
    HandshakeEnds
    MessagesRead
CHECK_DEADLOCK FALSE
