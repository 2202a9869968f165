\* Two clients, seven commands that may be sent again, one file, one death;
\* at most two routes in one behaviour (FewRoutes).
CONSTANTS
  c1 = c1
  c2 = c2
  k1 = k1
  b1 = b1
  bad = bad
  Clients = {c1, c2}
  Keys = {k1}
  Bodies = {b1, bad}
  Unreadable = {bad}
  Commands <- SomeCommands
  None = None
  MaxCrashes = 1
CONSTRAINT FewRoutes
SYMMETRY Symmetry
SPECIFICATION Spec
INVARIANTS
  AtMostOnce
  RetriesRepeatTheAnswer
  QuestionMatchesOperation
  IndexFollowsFile
