SPECIFICATION FairDevicesSpec
CONSTANTS
    self = self
    other = other
    Device <- MCDevice
    Local = self
    kFailedAttemtpsToAckDeviceDelete = 3
    MaxDeletes = 2
    MaxRestarts = 1
INVARIANT GoneForGood
PROPERTIES
    CallbackEventuallyRuns
    ListSettles
    HiddenDevicesReturnInOneRun
