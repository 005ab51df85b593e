\* The stores: one legacy namespace and one for restores, two tables of which
\* either may appear late, two tenants and one tenant process.
CONSTANTS
    Spaces = {legacy, spare}
    Sources = {legacy}
    Tables = {f1, f2}
    LegacyRows = {r1}
    Tenants = {alpha, beta}
    Handles = {h1}
    Archives = {b1, b2}
    MaxIds = 2
    None = None
    t1 = t1  t2 = t2  u1 = u1  u2 = u2  a1 = a1  p1 = p1  p2 = p2  read = read  write = write
    k1 = k1  g1 = g1  s1 = s1  s2 = s2
SPECIFICATION SceneSpec
SYMMETRY Symmetry
PROPERTIES AuthorityCurrent MigrationKeepsHistory
CHECK_DEADLOCK FALSE
