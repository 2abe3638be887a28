\* Wallet commands under derivation failures, crashes and client timeouts.
CONSTANTS
    MaxCount = 2
    MaxIndex = 4
    MaxPosts = 3
SPECIFICATION Spec
INVARIANT TypeOK
INVARIANT NoKeyReused
PROPERTY ImplementsAccount
