SPECIFICATION Spec
CONSTANTS
    e1 = e1
    e2 = e2
    r1 = r1
    h1 = h1
    h2 = h2
    Any = Any
    Eval = {e1, e2}
    Rule = {r1}
    Host = {h1}
    Payloads <- High
    Conditions <- OneRule
    Cooldown = 2
    MaxSilence = 0
    MaxChanges = 1
PROPERTY
    RateLimit
