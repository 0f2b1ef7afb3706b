\* Two receipts and two operator invoices, a command beside the maintenance
\* loop, either backend, any number of stops of the daemon.
SPECIFICATION Spec
CONSTANTS
    Receipts = {r1, r2}
    Sweeps = {s1, s2}
    Backends = {"lnv2", "phoenixd"}
    Commands = {m1}
    Gross = 4
    Credit = 3
    Caps = {2}
SYMMETRY Interchangeable
INVARIANTS
    CapHeld
    Solvent
    BooksAreFloor
CHECK_DEADLOCK FALSE
