SPECIFICATION Spec
CONSTANTS
    Keys = {k1}
    Values = {a, b}
    Null = Null
    Strategies = {"by_column"}
    MaxTime = 2
    MaxVersions = 2
PROPERTY ChangesAreNoticed
