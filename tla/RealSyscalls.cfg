SPECIFICATION LookupSpec
CONSTANTS
    Callers = {t1, t2, t3}
    Registrars = {t1}
    Calls = {open, close}
    Hooks = {f, g}
    Library = Library
    NULL = NULL
INVARIANTS
    NullIsNeverCalled
    NoHookIsLost
