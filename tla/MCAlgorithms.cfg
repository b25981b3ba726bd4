SPECIFICATION Spec
CONSTANTS
  MaxTokens = 7
  MaxRows = 4
  MaxProducts = 3
INVARIANT BackEdgesExact
INVARIANT AcceptedGraphsRun
INVARIANT EvaluatesGrammar
INVARIANT DataAnswersRight
