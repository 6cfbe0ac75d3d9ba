\* Two requests at a time, two keys, one operation of up to three revisions.
SPECIFICATION Spec
CONSTANTS
  o1 = o1
  o2 = o2
  k1 = k1
  k2 = k2
  h1 = h1
  h2 = h2
  Operations = {o1}
  Keys = {k1, k2}
  Handlers = {h1, h2}
  GivenActions = {"start", "stop"}
  NoCommand = NoCommand
  MaxRevision = 3
SYMMETRY MCSymmetry
INVARIANT TypeOK
INVARIANT OneWinnerPerRevision
INVARIANT AnswerIsBacked
PROPERTY NotesKept
