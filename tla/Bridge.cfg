SPECIFICATION BridgeFairSpec
CONSTANTS
    Devices = {camera, deck}
    Muxed = {deck}
    NoDevice = NoDevice
    MaxRecordings = 2
    Dirs = {d1, d2}
    NoDir = NoDir
INVARIANTS BridgeNoHiddenRecording GivenIsListed
PROPERTIES CompleteStays ListedFinishes
