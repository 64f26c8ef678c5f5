SPECIFICATION Spec
CONSTANTS
    v1 = v1
    v2 = v2
    d = d
    dummy = dummy
    l = l
    t = t
    Process <- Processes
    Path <- MCPath
    Below <- MCBelow
    Dummy <- MCDummy
    Target <- MCTarget
    FileSystems <- MCFileSystems
    Permissions <- MCPermissions
    Requests <- MCRequests
SYMMETRY Symmetry
INVARIANT TypeOK
INVARIANT ExistingIsKept
INVARIANT LeavesNoTrace
