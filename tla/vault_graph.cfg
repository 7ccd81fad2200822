SPECIFICATION Spec
CONSTANTS
    Dirs = {"d", "e"}
    Root = "."
    Names = {"n.md", "m.md", "a.png"}
    Markdown = {"n.md", "m.md"}
    Binary = {"a.png"}
    FileOf <- Filed
    Images = {"pic"}
    Contents <- Notes
    Absent = Absent
    Vaults <- Some
    None = None
    Query <- Sought
    Width = 3
    Radius = 1
    MaxEdits = 2
    MaxErrors = 1
CHECK_DEADLOCK FALSE
INVARIANTS
    VaultTypeOK
    WalkIsTrue
    GraphIsTrue
    SearchIsTrue
