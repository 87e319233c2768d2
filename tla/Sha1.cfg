SPECIFICATION Spec
CONSTANTS
    BLOCK = 8
    LENGTH = 4
    OCTET = 2
    OCTET_BITS = 1
    WORD = 4
    IV <- MCIV
    Compress <- MCCompress
    Arrays <- MCArrays
INVARIANTS TypeOK DigestIsOfTheMessage CorruptedForAReason LengthIsOfTheMessage
