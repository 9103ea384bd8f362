SPECIFICATION Spec
CONSTANTS
    Keys = {1, 2}
    Values = {u, v}
    Nil = Nil
    MaxLayers = 2
SYMMETRY Perms
INVARIANTS
    IteratesSnapshot
PROPERTIES
    RefinesNestedMap
