\* Two sample rates, crossfades of two blocks, five preparations.
SPECIFICATION FairSpec
CONSTANTS
    SampleRate = {44100, 48000}
    FadeBlocks = 2
    MaxGeneration = 5
INVARIANTS TypeOK RebuildExclusive ExchangeSucceeds PreviousNotNull
PROPERTIES ActiveAdvances PreviousReleased
