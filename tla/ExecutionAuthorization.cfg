SPECIFICATION Spec
CONSTANTS
    c1 = c1
    c2 = c2
    c3 = c3
    k1 = k1
    write = write
    other = other
    None = None
    Callers = {c1, c2, c3}
    Keys = {k1}
    KeyOf <- MCKeyOf
    BodyOf <- MCBodyOf
    Contract <- MCContract
    Verdict <- MCVerdict
    MaxVersion <- MCMaxVersion
    MaxCalls <- MCMaxCalls
    MaxChanges = 2
    MaxFaults = 1
INVARIANTS TypeOK OneEffectPerKey
PROPERTIES GrantIsGoverned EffectHeedsStop RefusedForCause
CHECK_DEADLOCK FALSE
