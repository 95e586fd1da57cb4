SPECIFICATION Spec
CONSTANTS
    f1 = f1
    f2 = f2
    j1 = j1
    j2 = j2
    Folders = {f1, f2}
    Jobs = {j1, j2}
    FolderOf <- MCFolderOf
    Chains = {c1}
    Earlier = Earlier
    Scopes = {"all", "folder"}
    BatchSize = 1
    Rejects = TRUE
INVARIANTS
    TypeOK
    LoneRunSettles
PROPERTIES
    MarksAreTrue
SYMMETRY FolderSymmetry
