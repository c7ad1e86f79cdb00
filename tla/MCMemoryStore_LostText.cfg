SPECIFICATION Spec
CONSTANTS
    agent = agent
    cli = cli
    r1 = r1
    r2 = r2
    d1 = d1
    d2 = d2
    i1 = i1
    i2 = i2
    t1 = t1
    t2 = t2
    Callers = {agent, cli}
    Retrievers = {r1, r2}
    Uses <- MCApart
    Model <- MCModel
    Ids = {i1, i2}
    Texts = {t1, t2}
    Dims = {d1, d2}
    NoDim = NoDim
    Files <- MCFiles
    Remembered <- MCRemembered
    Absent = Absent
INVARIANTS
    ColumnsAgree
