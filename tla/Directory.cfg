SPECIFICATION Spec
SYMMETRY ReqSymmetry
CONSTANTS
    r1 = r1  r2 = r2  root = root  ann = ann  Nil = Nil
    Reqs = {r1, r2}
    Domains = {"media", "news"}
    Top = ""
    ParentOf <- MCParentOf
    GroupIds <- TwoGroups
    Principals = {root, ann}
    Callers <- MCCallers
    RootAdmins = {root}
    Users = {"u1"}
    SCIMIds = {"s1", "s2"}
    Sites <- MCSites
INVARIANTS NoOrphans ManagedMirrors UndoRestores AckedChangeProjected
