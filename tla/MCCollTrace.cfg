\* A ring of 3 slots, two writing blocks and 5 entries, so the ring wraps
\* and the head passes the tail's slot index; the kernels run at most 2
\* entries ahead of the printer.
CONSTANTS
  NumItems = 3
  Blocks = {b1, b2}
  Entries = 5
  MaxPending = 2
SPECIFICATION Spec
INVARIANT TraceInOrder
PROPERTY TraceThreadJoins
CHECK_DEADLOCK FALSE
