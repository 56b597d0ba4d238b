SPECIFICATION Spec
CONSTANTS
  p1 = p1
  p2 = p2
  p3 = p3
  Procs <- MCTwo
  Created = FALSE
  MaxRef = 1
INVARIANTS CreatedUsable
