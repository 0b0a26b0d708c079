\* Two users and two services; up to three of these four fit into the file.
\* The process may end, and a write may fail, at any point.
CONSTANTS
  Ids = {u1, u2}
  Names = {s1, s2}
  Nobody = Nobody
  MaxSize = 3
SPECIFICATION Spec
SYMMETRY Symmetry
INVARIANTS TypeOK StoreConsistent
PROPERTY ImplementsCheckpoint
