CONSTANTS
    note = note
    invoice = invoice
    h1 = h1
    h2 = h2
    mail = mail
    Items = {note, invoice}
    Types = {mail}
    TypeOf <- MCTypeOf
    Risk <- MCRisk
    Handlers = {}
    Worker = Worker
    Modes = {"paused", "autonomous_safe"}
    MaxOps = 1
    MaxRows = 2
    Faults = {}
SPECIFICATION FairSpec
CHECK_DEADLOCK FALSE
PROPERTIES NewIsClassified
