SPECIFICATION MCSpec
CONSTANTS
  ask = ask
  input = input
  bad = bad
  r1 = r1
  r2 = r2
  None = None
  Interactions = {ask, input}
  Kind <- TwoAsks
  Limited = {}
  Invalid = {}
  Responses = {r1, r2}
  Slow = {}
INVARIANT WaitingIsTracked
