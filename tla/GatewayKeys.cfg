\* One handler, two viewing keys for one transaction.
SPECIFICATION Spec
CONSTANTS
    c1 = c1
    c2 = c2
    t1 = t1
    t2 = t2
    e1 = e1
    e2 = e2
    eMixed = eMixed
    n1 = n1
    Chain = {c1, c2}
    Enabled = {c1}
    Txid = {t1, t2}
    Evk = {e1, e2, eMixed}
    LowerEvk = {e1, e2}
    Name = {n1}
    None = None
    Bad = Bad
    Readable <- MCReadable
    Decrypted <- MCDecrypted
    Packing <- MCPacking
    MaxUnpacked = 4
    Kept <- MCKept
    Request <- MCTwoKeys
    Handler = {h1}
    Saver = {s1}
    NoKey = NoKey
    NoValue = NoValue
INVARIANTS KeyHonoured
