SPECIFICATION BakSpec
CONSTANTS
    Parts = {"state", "config", "lists"}
    Dirs = {"state", "lists"}
    Config = "config"
    Open = {"state", "lists"}
    MaxFaults = 2
    MaxImports = 2
    MaxWrites = 1
INVARIANTS StateKept CoreOnCurrentState ExportIsSnapshot
