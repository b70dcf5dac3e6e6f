SPECIFICATION FairSpec
CONSTANTS
    Workers = {w1, w2}
    i1 = i1
    i2 = i2
    Images = {i1, i2}
    Specs <- MCSpecs
    ConfigLists <- MCConfigLists
    NumRetries = 2
    NoImage = NoImage
    MaxErrors = 3
INVARIANTS TypeOK UnfinishedExact OneWorkerPerImage ForgetsWhatIsThere PulledIsPresent
PROPERTIES KeepsFetching
CHECK_DEADLOCK FALSE
