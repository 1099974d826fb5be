SPECIFICATION SesSpec
CONSTANTS
    Passwords = {p1, p2}
    NoPassword = none
    TTL = 3
    Rotation = 1
    MaxTime = 3
    MaxKeys = 6
    MaxTokens = 3
    MaxChanges = 3
SYMMETRY Symmetry
INVARIANTS LiveSessionKept RevokedStaysRevoked NothingProvisional
