\* Concurrent credits and debits of one fresh wallet.
SPECIFICATION Spec
CONSTANTS
    student = student
    capture = capture
    webhook = webhook
    purchase = purchase
    booking = booking
    kPay = kPay
    kBuy = kBuy
    kBook = kBook
    NoTxn = NoTxn
    Users <- MCUsers
    Keys <- MCKeys
    Txns <- MCTxns
    TxUser <- MCTxUser
    TxKey <- MCTxKey
    TxDelta <- MCTxDelta
INVARIANT LedgerIInv
INVARIANT NoWalletDrift
PROPERTY ImplementsAtomicLedger
