SPECIFICATION Spec
CONSTANTS
  Keys = {0, 1, 2, 3}
  Buffers = {b1, b2}
  MaxRecords = 1
  Addresses = {a1, a2, a3}
  NULL = NULL
  Free = Free
INVARIANTS
  ViewsAgree
  CountExact
PROPERTY
  ImplementsLru
\* cache_destroy is the last call
CHECK_DEADLOCK FALSE
