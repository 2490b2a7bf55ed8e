SPECIFICATION Spec
INVARIANTS
  TypeOK
  MoneyIsConserved
  
  TricksAreFair
  HandsAreJudgedRight
CONSTRAINT Unspoiled
CHECK_DEADLOCK FALSE
