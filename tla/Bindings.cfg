CONSTANTS
  Ids = {1, 2}
  Hosts = {"rust", "node", "python", "dotnet"}
  Sources = {"observer", "langchain", "langgraph", "semantic_kernel"}
  Threads = {t1, t2}
  StatusStrings = {"failed"}
  MaxCalls = 2
  MaxExtras = 1

SYMMETRY ThreadSymmetry
SPECIFICATION Spec
CHECK_DEADLOCK FALSE
INVARIANT Paired
 
INVARIANT BorrowSafe
