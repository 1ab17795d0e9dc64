\* Two hosts of the DFU device, two ESCs, four frames of a configurator, four bytes
\* on the single wire; one launch with two upsets; one host of the USB/IP server with
\* two URBs and two bytes for it, against a close at any time.
\* The devices may stop: hosts go away, bounds are used up.
SPECIFICATION Spec
CONSTANTS
    FlashUnits = 4
    FlashSectors <- DfuSectors
    FirmwareImages <- DfuImages
    DfuHosts = 2
    Escs = {e1, e2}
    MaxCommands = 2
    MaxSends = 4
    WireBytes = 4
    ReadBytes = 2
    Parts = {"dfu", "fc", "fourway", "bridge", "lab", "usbip"}
INVARIANTS
    TypesOK
    InStep
    EchoHonest
PROPERTIES
    DfuLoads
    NoDshotInSerial
    ThrottleAfterArming
    DevicesGoOn
    ExitReleases
    GetsAnswer
    QtReturns
    CancelledStartupEnds
    Ends
CHECK_DEADLOCK FALSE
