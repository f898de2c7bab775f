\* Handshake, serialization, chunks and their inverses for one message at a time.
CONSTANTS
    Values <- MCValues
    Byte = 17
    Half <- MCHalf
    MaxDepth = 5
    MaxChunk = 8
    Handshakes <- MCHandshakes
    SentMessages <- MCSentMessages
    GraphValues <- MCGraphValues
    RawMessages <- MCRawMessages

SPECIFICATION Spec
INVARIANTS
    CodecTypeOK
    VersionAgreed
    ReaderInvertsWriter
    WholeOrNothing
    MessageSurvives
