\* A tag provisioned with its DevEUI in upper case.
SPECIFICATION Spec
CONSTANTS
    Conns = {c1}
    Devices = {d1}
    Spellings = {"upper"}
    None = None
    MaxSent = 2
    MaxUp = 1
PROPERTIES
    AddresseeFound
CHECK_DEADLOCK FALSE
