\* A native node and a node in a shared library, one subscriber, channels of one place.
SPECIFICATION Spec
CONSTANTS
  Absent = Absent
  Attempts = {1, 2}
  Dylib = {1}
  Keys = {"k"}
  Capacity = 1
  MaxCalls = 2
  Subscribers = {s}
  BROADCAST_CAPACITY = 1
  MaxPublished = 2
INVARIANT CallsKept StringsAndCode QueueInOrder
PROPERTY BlockedCallReturns
CHECK_DEADLOCK FALSE
