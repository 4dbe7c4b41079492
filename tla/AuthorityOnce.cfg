SPECIFICATION ModesSpec
CONSTANTS
    Root = root
    Child = child
    Caller = {c1, c2}
    Operation = {f1, f2}
    Nobody = nobody
SYMMETRY Symmetry
INVARIANT SingleUse
