SPECIFICATION Spec
CONSTANTS
    c1 = c1
    c2 = c2
    root = root
    base = base
    sub = sub
    subsub = subsub
    spare = spare
    f1 = f1
    up = up
    around = around
    self = self
    deep = deep
    None = None
    Call = {c1, c2}
    Dir = {root, base, sub, subsub, spare}
    File = {f1}
    Link = {up, around, self, deep}
    Name = {"a", "b", "c"}
    Contents <- MCContents
    Requests <- MCRequests
    InitialEntry <- MCInitialEntry
    Root = root
    Preopens = {base}
    Outside = {root}
    MaxFds = 3
    MaxPaths = 2
    MaxExpansions = 3
    MaxChanges = 2
INVARIANTS
    
    NothingLeaks
    FindsWhatPathMeans
PROPERTY
    Terminates
