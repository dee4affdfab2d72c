SPECIFICATION FairSpec
CONSTANTS
    Session = {1, 2}
    Id = {1, 2, 3, 4, 5, 6, 7}
    NoId = NoId
    Label = {l1, l2}
    SealBytes = 2
    MaxChanges = 2
    MaxRecorded = 3
    MaxFailures = 1
INVARIANTS ShownOnce ManifestTrue WellPlaced Delivered
PROPERTIES EventuallyShown
