CONSTANTS
    a = a
    b = b
    c = c
    d = d
    n1 = n1
    n2 = n2
    None = None
    Unset = Unset
    Rejected = Rejected
    Groups = {a, b, c, d}
    MaxSize <- MCMaxSize
    MaxMaxSize = 3
    MaxInitialSize = 4
SPECIFICATION DecisionsSpec
INVARIANTS TemplatesAreRight OptionsAreRight
PROPERTIES ImplementsBalanced DecisionsSettle
