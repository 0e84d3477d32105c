CONSTANTS
  Session = {s1, s2, s3}
  Thread = {t1}
  MaxLobbies = 2
  MaxDepth = 1
  LobbiesFirst = TRUE
  None = none
SPECIFICATION Spec
INVARIANTS
  TypeOK
  

  
CHECK_DEADLOCK FALSE
