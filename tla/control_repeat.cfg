\* One client repeats its request after the API died in the middle of it.
SPECIFICATION Spec
CONSTANTS
  o1 = o1
  o2 = o2
  k1 = k1
  k2 = k2
  h1 = h1
  h2 = h2
  Operations = {o1}
  Keys = {k1}
  Handlers = {h1}
  GivenActions = {"start"}
  NoCommand = NoCommand
  MaxRevision = 3
INVARIANT RepeatIsNotRefused
