\* Configure, IdentifyDevice and DiskReadWrite calls on a two-sector drive,
\* with requests inside the disk, across its end and past it, one transient
\* drive error, and the values dev_info_ may hold after a failed IDENTIFY.
\* A polling loop that never exits is a state with no step: CallsReturn,
\* not the deadlock check, reports it.
CONSTANTS
    NSectors = 2
    Requests <- MCRequests
    Junk <- MCJunk
    MaxErrors = 1
SPECIFICATION Spec
INVARIANTS TypeOK SuccessIsReal NothingInFlightWhenIdle
PROPERTY CallsReturn
CHECK_DEADLOCK FALSE
