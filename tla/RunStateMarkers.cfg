SPECIFICATION FairSpec
CONSTANTS
  Commands = {c1}
  Plans = {p1, p2}
  Shas = {s1, s2}
  Issues = {i1, i2}
  MaxRounds = 3
  NoProgressRounds = 2
  Legacy = FALSE
  None = None
PROPERTIES
  
  DriverSettles
CHECK_DEADLOCK FALSE
