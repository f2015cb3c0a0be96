SPECIFICATION OfficeSpec
CONSTANTS
    h1 = h1
    u1 = u1
    f1 = f1
    m1 = m1
    Docs = {d1}
    Requests = {h1, h2}
    Users = {u1, u2}
    MaxAmount = 2
    Nil = Nil
    Jobs = {j1}
    Admins = {a1}
    MaxCrashes = 1
    Taxes = {t1, t2}
    Remittances = {m1, m2}
    Refreshers = {f1, f2}
    TaxAmount <- OneAndTwo
    TaxRequests = {h1, h2}
    NoOne = Nil
CHECK_DEADLOCK FALSE
INVARIANTS OfficeTypeOK PaymentsAddUp StatusIsAnnounced MakerIsNotChecker MatchIsBooked MarkHasResult PaidIsRemitted DebtNotHidden
PROPERTIES DocPromiseKept QuietRefreshIsRight EventuallyReconciled
