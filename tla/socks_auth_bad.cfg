SPECIFICATION Spec
CONSTANTS
    ByteMod = 4
    Char <- MCChar
    Credentials <- MCCredentials
INVARIANT NeverInBadState
CHECK_DEADLOCK FALSE
