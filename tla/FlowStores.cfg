\* File and database stores, overlapping saves, a reader, crashes anywhere.
SPECIFICATION Spec
CONSTANTS
  Absent = Absent
  Backends = {"file", "sql"}
  Flows = {1}
  Tags = {1}
  VersionIds = {1, 2}
  Clients = {c1, c2}
  MaxCalls = 3
  MaxBusy = 2
INVARIANT ReadsFaithful
PROPERTY StoresAreAtomic 
SYMMETRY Symmetry
CHECK_DEADLOCK FALSE
