\* The ahci_port model: a read or write the drive completes after an earlier
\* failed command must be reported as a success.
CONSTANTS
    NSectors = 2
    Requests <- MCRequests
    Junk <- MCJunk
    MaxErrors = 1
SPECIFICATION Spec
PROPERTY DeviceSuccessReported
