\* Two projects and two providers; every job names its provider.
CONSTANTS
    Paths = {a, b}
    Cwd = a
    Old = {a}
    Sourced = FALSE
    Providers = {p1, p2}
    Ambient = p1
    Implicit = FALSE
    Extends <- NoNames
    MaxTears = 1
    None = None
    Broken = Broken
SPECIFICATION Spec
CONSTRAINT OneOrUsual

    
    
    
PROPERTY
    IndexesKept
