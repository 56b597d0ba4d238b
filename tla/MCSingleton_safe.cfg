SPECIFICATION AloneSpec
CONSTANTS
  p1 = p1
  p2 = p2
  p3 = p3
  Procs <- MCThree
  Created = FALSE
  MaxRef = 2
INVARIANTS TypeOK SemaphoreConserved OneUser
PROPERTIES MutexSpec
