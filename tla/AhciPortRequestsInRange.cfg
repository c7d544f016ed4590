\* The ahci_port model: every sector of a command the drive receives must
\* lie on the disk, as the range check of DiskReadWrite is meant to ensure.
CONSTANTS
    NSectors = 2
    Requests <- MCRequests
    Junk <- MCJunk
    MaxErrors = 1
SPECIFICATION Spec
INVARIANT RequestsInRange
