SPECIFICATION MCSpec
CONSTANTS
  ask = ask
  input = input
  bad = bad
  r1 = r1
  r2 = r2
  None = None
  Interactions = {ask, input, bad}
  Kind <- OneOfEach
  Limited = {input}
  Invalid = {bad}
  Responses = {r1, r2}
  Slow = {r1}
INVARIANTS
  TypesAreCorrect
  AnswersAreTheirs
  AcceptedIsAnswered
  RefusedIsUnused
  ReportIsOfThisTurn
  RunIsEarned
PROPERTIES
  WorkEnds
