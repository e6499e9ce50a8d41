CONSTANTS
    Services = {s1, s2}
    Manuals = {m1}
    Clients = {c1, c2, c3}
    None = None
    Free = Free
SPECIFICATION FairSpec
PROPERTY ServiceNeverAbsent
