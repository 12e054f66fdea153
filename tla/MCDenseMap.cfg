\* A first table of four buckets that may double twice.
CONSTANTS
    Keys <- MCKeys
    Values = {0, 1}
    Default = 0
    Hash <- MCHash
    Empty = "empty"
    Tombstone = "tombstone"
    FirstSize = 4
    MaxBuckets = 16
SPECIFICATION Spec
INVARIANTS TypeOK EntriesCounted SearchEnds EachKeyOnce FindIsExact
PROPERTIES ImplementsDictionary
