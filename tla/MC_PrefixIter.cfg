CONSTANTS
    DbKeys <- MCDbKeys
    Heights <- MCHeights
    KeyPrefixes <- MCKeyPrefixes
    MaxIters = 2
    BadValues <- MCBadValues
    None = NoItem
    NoItem = NoItem
INIT Init
NEXT Next
INVARIANTS TypeOK KeyOrderTotal IterYieldsPrefixRange
