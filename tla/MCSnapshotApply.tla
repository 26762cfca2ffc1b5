-------------------------- MODULE MCSnapshotApply --------------------------
(***************************************************************************)
(* A small instance of SnapshotApply.  A snapshot is encoded as two bytes, *)
(* its number and a terminator; the checksum is a sum, so distinct byte    *)
(* sequences may collide, as CRC-32 values may.                            *)
(***************************************************************************)
EXTENDS SnapshotApply, FiniteSets, TLC

MCDeviceHash == {"speaker", "bluetooth"}

Header(h, a, d, ok) == [device_key_hash |-> h, app_generation |-> a,
                        daemon_generation |-> d, streams_decode |-> ok]

\* Two routes, generations that are newer, older, equal, newer in the second
\* component only, and a snapshot whose parameter stream does not decode.
Stored == << Header("speaker", 1, 2, TRUE),
             Header("bluetooth", 1, 1, TRUE),
             Header("speaker", 2, 1, TRUE),
             Header("bluetooth", 1, 2, TRUE),
             Header("bluetooth", 2, 2, FALSE) >>

MCSnapshot == {Stored[i] : i \in DOMAIN Stored}

Terminator == 7
MCByte == DOMAIN Stored \cup {Terminator}

MCCodec == [b \in {<<i, Terminator>> : i \in DOMAIN Stored} |-> Stored[b[1]]]

MCCrc32(bytes) ==
    (IF Len(bytes) > 0 THEN bytes[1] ELSE 0)
    + (IF Len(bytes) > 1 THEN bytes[2] ELSE 0)

MetadataFor(i) ==
    [app_generation |-> Stored[i].app_generation,
     daemon_generation |-> Stored[i].daemon_generation,
     device_key_hash |-> Stored[i].device_key_hash,
     total_size |-> 2, crc32 |-> MCCrc32(<<i, Terminator>>)]

\* The metadata a daemon sends, and every way it may be wrong.
MCMetadata ==
    {MetadataFor(i) : i \in DOMAIN Stored}
    \cup {[MetadataFor(1) EXCEPT !.total_size = 0],
          [MetadataFor(1) EXCEPT !.total_size = 3],
          [MetadataFor(1) EXCEPT !.total_size = MaxStagedBytes + 1],
          [MetadataFor(1) EXCEPT !.app_generation = 0],
          [MetadataFor(1) EXCEPT !.daemon_generation = 0],
          [MetadataFor(1) EXCEPT !.app_generation = 2],
          [MetadataFor(1) EXCEPT !.device_key_hash = "short"]}

\* Any snapshot in one chunk, and one of them also in two.
MCChunk == {<< >>, <<Terminator>>, <<1>>} \cup {<<i, Terminator>> : i \in DOMAIN Stored}
=============================================================================
