\* A provider call: prompts of up to three messages, streams of up to three lines.
SPECIFICATION Spec
CONSTANTS
  None = None
  MaxMessages = 3
  MaxLines = 3
CHECK_DEADLOCK FALSE
INVARIANT RequestFaithful
INVARIANT StreamFaithful
INVARIANT CostOfMostSpecific
