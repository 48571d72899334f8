\* Every call on values of three words of two digits.
SPECIFICATION Spec
CONSTANTS
    NWords = 3
    WordDigits = 2
    DigitBits = 1
    MaxDigits = 8
INVARIANTS
    WrapsAround
    PartialProduct
    HexRoundTrip
CHECK_DEADLOCK FALSE
