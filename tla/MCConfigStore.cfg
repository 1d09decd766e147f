CONSTANTS
    repl = repl
    shell = shell
    Absent = Absent
    Broken = Broken
    Names <- ApartNames
    EnvName <- ApartEnvName
    Keys <- MCKeys
    OptionKey <- MCOptionKey
    Hosts = {"h1", "h2"}
    Modules = {"pg", "gis"}
    Options = {"require"}
    Values = {"s1", "s2"}
    Commands <- ApartCommands
    Procs <- MCProcs
    Repl <- repl
    Load <- MCLoad
    MaxCommands = 4
SPECIFICATION Spec
INVARIANTS
    ConfigTypeOK
PROPERTIES
    ImplementsConnectionTable
    FailsCleanly
CHECK_DEADLOCK FALSE
