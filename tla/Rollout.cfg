SPECIFICATION Spec
CONSTANTS
    None = None
    Entry <- MCEntry
    Window = 5
    MaxEntries = 4
INVARIANTS VerdictWasTrue FinalNotOlder
