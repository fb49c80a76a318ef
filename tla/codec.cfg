CONSTANTS
    BufLen = 400
    MaxJoins = 11
SPECIFICATION Spec
INVARIANTS  MembersParsed
