SPECIFICATION Spec
CONSTANTS
    a = a
    b = b
    x = x
    y = y
    m1 = m1
    m2 = m2
    all = all
    alice = alice
    Unnamed = all
    None = None
    Proc = {p1, p2}
    Name = {a, b}
    Content = {x, y}
    Match = {m1, m2}
    Signer = {all, alice}
    Sessions <- KeysOnly
    MaxOverlaps = 1
SYMMETRY Symmetric
PROPERTIES UpdatesKept
INVARIANTS NamesHeld CopiesHeld
