\* Three threads, an agent, two workflow templates, in files and in a database.
SPECIFICATION Spec
CONSTANTS
  Requests = {r1, r2, r3}
  Agents = {a1}
  Workflows = {w1, w2}
  None = None
SYMMETRY Symmetry
INVARIANTS Kept References
