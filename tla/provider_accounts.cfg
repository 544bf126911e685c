CONSTANTS
    g1 = g1
    g2 = g2
    e1 = e1
    Requests = {r1, r2}
    Accounts = {g1, g2}
    Nobody = Nobody
    Scopes = {gmail, calendar}
    Emails = {e1}
    NoEmail = NoEmail
    Claims <- MCClaims
    MaxUsers = 2
SPECIFICATION Spec
SYMMETRY Symmetry
INVARIANTS
    TokensMatch
    ScopesCovered
PROPERTIES
    SignedInAsBefore
