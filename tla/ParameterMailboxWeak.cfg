\* The armeabi-v7a build: the recheck may overtake the store it protects.
SPECIFICATION WeakSpec
CONSTANTS
    MaxGeneration = 4
INVARIANT NoTornRead
