SPECIFICATION Spec
CONSTANTS
    t1 = t1
    t2 = t2
    c1 = c1
    c2 = c2
    c3 = c3
    Tabs = {t1, t2}
    Calls = {c1, c2, c3}
    TabOf <- MCTabOf
    Refused = {c3}
    NoCall = NoCall
    MaxTokens = 3
    MaxStrays = 1
    MaxLapsed = 1
SYMMETRY Symmetry
INVARIANTS
    TypeOK
    HoldsCurrentToken
    OneLiveToken
    SignedOutStays
PROPERTY ExpiryIsInvisible
