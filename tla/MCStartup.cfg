\* Binaries of three versions start, die and restart on one file.
CONSTANTS
    old = old
    mid = mid
    mid2 = mid2
    new = new
    Procs = {old, mid, mid2, new}
    Build <- MCBuild
    Schema <- MCSchema
    Null = Null
    Garbled = Garbled
SPECIFICATION StartupLive
INVARIANTS MarkerMeansTables NoRollback
PROPERTIES MarkerMonotone NewerFileUntouched OpensUnlessNewer
