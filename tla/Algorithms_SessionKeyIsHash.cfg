CONSTANTS
    ByteBase = 3
    D_BYTES = 2
    N_DIGITS = 3
    Modulus = 727
    Generator = 5
    HASH_BYTES = 2
    PRIVATE_BYTES = 4
    LIMB_BITS = 2
    PRIME_GAP = 3
    SPARE_BITS = 6
    TAG_SIZE = 4
    STREAM_SIZE = 8
    MaxItem = 3
    MaxTlv = 6
    MaxTokens = 15
    ParentRange = 26
    MaxHeaders = 3
    LIMBS = 2
    GAP = 19
    CURVE = 2
    BLOCK_SIZE = 8
    HASH_SIZE = 2
    LENGTH_SIZE = 2
    LENGTH_RANGE = 32
    Symbol <- MCSymbol
    Message <- MCMessage
    Keys <- MCKeys
    MacSizes = {1, 3}
    StatusLine = 3
    TypeLine = 4
    LengthLine = 8
    Uint16 = 256
    BufSize = 86
    Data <- MCData
    Contents <- MCContents
    Buffers = {2, 9, 10, 17, 28, 29}
    Rooms = {0, 3, 4, 20}
SPECIFICATION Spec
INVARIANTS
    SessionKeyIsHash
