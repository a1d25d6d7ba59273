\* Two handlers and two background Sets on two chains, one of them not enabled any more.
SPECIFICATION FairSpec
CONSTANTS
    c1 = c1
    c2 = c2
    t1 = t1
    t2 = t2
    e1 = e1
    e2 = e2
    eMixed = eMixed
    n1 = n1
    Chain = {c1, c2}
    Enabled = {c1}
    Txid = {t1, t2}
    Evk = {e1, e2, eMixed}
    LowerEvk = {e1, e2}
    Name = {n1}
    None = None
    Bad = Bad
    Readable <- MCReadable
    Decrypted <- MCDecrypted
    Packing <- MCPacking
    MaxUnpacked = 4
    Kept <- MCKept
    Request <- MCRequest
    Handler = {h1, h2}
    Saver = {s1, s2}
    NoKey = NoKey
    NoValue = NoValue
INVARIANTS TypeOK NoCrossing KeylessRefused CachedIsReadable MetaDescribesContent UnpacksAllOrNothing
PROPERTIES SharedFileFrozen SavesBegin AllAnswered
