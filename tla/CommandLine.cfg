SPECIFICATION Spec
CONSTANTS
    f = f
    g = g
    p1f = p1f
    p1g = p1g
    p2f = p2f
    two = two
    zero = zero
    many = many
    odd = odd
    none = none
    CommandLines <- MCCommandLines
    Texts <- MCTexts
    Count <- MCCount
    Partial <- MCPartial
    Format <- MCFormat
    Available = {"json"}
    Empty = none
    Null = Null
    Truncated = Truncated
    Usage = Usage
    Version = Version
    MaxRepetitions = 2
INVARIANTS
    ParsesExactly
    StatusIsTrue
    WritesLast
CHECK_DEADLOCK FALSE
