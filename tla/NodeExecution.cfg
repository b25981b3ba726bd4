SPECIFICATION FairSpec
CONSTANTS
    Kinds = {"human", "llm", "other"}
    MaxItems = 2
    max_attempts = 2
    RecordCap = 1
    MaxTasks = 2
    MaxInputs = 2
    MaxMessages = 2
INVARIANT LogFaithful
INVARIANT ConversationFaithful
INVARIANT HumanAnswered
PROPERTY TaskEnds
