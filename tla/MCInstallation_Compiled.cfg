SPECIFICATION Spec
CONSTANTS
    None = None  Torn = Torn  Altered = Altered  Invalid = Invalid  NoRef = NoRef
    r1 = r1  r2 = r2
    note_docx = note_docx  plan_odt = plan_odt  note = note  plan = plan
    Slots = {"metabase", "java"}  ArgSets <- CommandLines  MaxBuilds = 2
    Processes = {p1, p2}  UpdateFiles <- ReleaseMetadata  Refs = {r1, r2}  Imports <- Imported
    MaxLaunch = 2  MaxVersion = 2  MaxModel = 2
    Base <- Standard  Alternatives <- Others  MaxDeviations = 2
    Requests = {p1, p2}  Policies <- PolicySet  MaxToken = 2
    Jobs = {p1, p2}  Sources = {note_docx, plan_odt}  Stems = {note, plan}
    StemOf <- StemTable  MaxEdits = 1
    Keys = {"k1", "k2"}  Vector <- VectorTable  MaxMigrations = 2  MaxWrites = 2
SYMMETRY Symmetry
INVARIANTS
    CompiledVerifies
CHECK_DEADLOCK FALSE
