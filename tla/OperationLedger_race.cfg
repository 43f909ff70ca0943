CONSTANTS
    note = note
    invoice = invoice
    h1 = h1
    h2 = h2
    mail = mail
    Items = {note, invoice}
    Types = {mail}
    TypeOf <- MCTypeOf
    Risk <- MCRisk
    Handlers = {h1}
    Worker = Worker
    Modes = {"autonomous_safe"}
    MaxOps = 2
    MaxRows = 2
    Faults = {}
SPECIFICATION Spec
CHECK_DEADLOCK FALSE
PROPERTIES OperatorDecisionStands
