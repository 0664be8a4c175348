SPECIFICATION Spec
CONSTANTS
    junk = junk
    v1 = v1
    v2 = v2
    v3 = v3
    None = None
    Tags = {junk, v1, v2, v3}
    TagList <- MCTagList
    ClassOf <- MCClassOf
    MaxRuns = 3
INVARIANT TypeOK
INVARIANT PublishInv
INVARIANT ImagesMatchTags
INVARIANT DoneIsComplete
INVARIANT NoStaleLink
CHECK_DEADLOCK FALSE
