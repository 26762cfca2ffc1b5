\* Two routes, five stored snapshots, buffers of up to three bytes.
SPECIFICATION Spec
CONSTANTS
    NoHash = NoHash
    NoSnapshot = NoSnapshot
    MaxStagedBytes = 3
    MaxGraphGeneration = 4
    Byte <- MCByte
    DeviceHash <- MCDeviceHash
    Snapshot <- MCSnapshot
    Metadata <- MCMetadata
    Chunk <- MCChunk
    Crc32 <- MCCrc32
    Codec <- MCCodec
INVARIANTS
    TypeOK
    StagingWithinBounds
    GenerationsDescribeAdopted
    AdoptedSoundsNext
    AckDescribesAdopted
PROPERTY ImplementsAtomicSnapshot
