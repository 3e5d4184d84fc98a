SPECIFICATION Spec
CONSTANTS
    s1 = s1
    s2 = s2
    de = de
    fr = fr
    NoRow = NoRow
    Nobody = Nobody
    Manager = Manager
    AnyLanguage = AnyLanguage
    Segments = {s1}
    Languages = {de}
    LangOf <- MCOneLanguage
    Texts = {x, y}
    Members = {m1}
    Requests = {r1}
    Tabs = {t1}
    MaxWrites = 4
    MaxDepartures = 0
PROPERTIES
    EditsInvalidateApproval
CHECK_DEADLOCK FALSE
