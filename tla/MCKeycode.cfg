CONSTANTS
    MvccKey <- MCMvccKey
    RawKey <- MCRawKey
    SqlKey <- MCSqlKey
    Malformed = Malformed
    MaxLength = 2
    MaxKeys = 2
SPECIFICATION Spec
INVARIANTS
    DecodesBack
    VersionRangeExact
    PrefixScanExact
    SqlKeysApart
    RowScanCovers
