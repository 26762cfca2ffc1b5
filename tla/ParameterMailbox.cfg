\* Six publications: enough to go round the three slots twice.
SPECIFICATION FairSpec
CONSTANTS
    MaxGeneration = 6
INVARIANTS TypeOK SlotExclusive NoTornRead
PROPERTIES ImplementsLatestValue EventuallyTaken
