CONSTANTS
    note = note
    invoice = invoice
    h1 = h1
    h2 = h2
    mail = mail
    Items = {note}
    Types = {mail}
    TypeOf <- MCTypeOf
    Risk <- MCRisk
    Handlers = {h1, h2}
    Worker = Worker
    Modes = {"autonomous_safe"}
    MaxOps = 2
    MaxRows = 2
    Faults = {}
SPECIFICATION Spec
CHECK_DEADLOCK FALSE
INVARIANTS OneActivePerItem
