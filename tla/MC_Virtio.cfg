CONSTANTS
    NSLOTS = 3
    DeviceConfigs <- MC_DeviceConfigs
    NoSlot = NoSlot
SPECIFICATION Spec
INVARIANT HandshakeBeforeUse
