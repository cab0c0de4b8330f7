\* Two threads; sign-ups and sign-ins for the same and for different names.
CONSTANTS
    w1 = w1
    w2 = w2
    Workers <- MCWorkers
    Names <- MCNames
    Passwds <- MCPasswds
    Shards <- MCShards
    ShardOf <- MCShardOf
    Amounts <- MCAmounts
    MaxRequests = 3
SPECIFICATION Spec
SYMMETRY MCSymmetry
INVARIANTS
    UniqueAccounts
    SignUpTrue
    SignInTrue
