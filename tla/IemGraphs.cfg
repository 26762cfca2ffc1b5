SPECIFICATION Spec
CONSTANTS
    Structure = {1, 2}
    SampleRate = {44, 48}
    FadeBlocks = 1
    MaxGeneration = 3
    MaxResources = 1
INVARIANTS TypeOK RebuildExclusive PreviousNotNull DesiredReflected
PROPERTY ChangeTakesEffect
