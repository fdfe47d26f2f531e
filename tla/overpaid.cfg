SPECIFICATION Spec
CONSTANTS
    c1 = c1
    c2 = c2
    c3 = c3
    v1 = v1
    v2 = v2
    k1 = k1
    k2 = k2
    r1 = r1
    r2 = r2
    u1 = u1
    Order = {c1}
    Variant = {v1}
    Key = {k1, k2}
    KeyOf <- MCKeyOf
    DayOldKeys = {}
    Qty <- MCQtyOneVariant
    MaxQty = 2
    Backorder = {}
    InitialOnHand <- MCThree
    Sweeper = {s1}
    BatchSize = 2
    Staff = {u1}
    Verification = {r1}
    UserOf <- MCOneUser
    Outcomes = {"overpaid"}
    MaxGrants = 2
    ListEdit = {e1}
    DetailEdit = {}
    EditTo = {"cancelled"}
    Faults = FALSE
    None = None
SYMMETRY Alike
PROPERTIES
    OverpaidKeepsHold
