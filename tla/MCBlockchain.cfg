SPECIFICATION Spec

CONSTANTS
    a1 = a1
    a2 = a2
    a3 = a3
    a4 = a4
    b1 = b1
    b2 = b2
    c2 = c2
    c3 = c3
    d3 = d3
    t1 = t1
    t2 = t2
    Block <- MCBlock
    Path <- MCPath
    Work <- MCWork
    Txs <- MCTxs
    BadReward <- MCBadReward
    Tx <- MCTx
    Spends <- MCSpends
    Releases <- MCReleases
    HeightMod = 65536

INVARIANTS
    NoDoubleSpend
    NoNestedSwitch
    CheckpointsHold

PROPERTY
    OldChainKept
    ImplementsLedger
