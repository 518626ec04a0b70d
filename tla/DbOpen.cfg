\* Two processes race to create the database; they die, the power fails, and
\* so may any call on a file.
SPECIFICATION FairSpec
CONSTANT Process = {p1, p2}
INVARIANTS
  TypeOK
  CurrentIsSafe
PROPERTIES
  NeverCreatedOver
  OpenReturns
