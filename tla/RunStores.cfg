\* The three stores fed the same batches, with failures and retries.
SPECIFICATION RunsSpec
CONSTANTS
  None = None
  Runs = {1, 2}
  Busy = {1}
  Plain = {"p"}
  FannedOut = {"f"}
  Talkers = {"p"}
  MaxAttempts = 2
  MaxEvents = 5
  Bits = 4
INVARIANT BackendsAgree ListsAndCountsAgree
CHECK_DEADLOCK FALSE
