\* Three slots for three keys, so that the ring wraps and, when nobody reads,
\* is full; the keyboard delivers at most three bytes ahead of the handler.
CONSTANTS
  RING = 3
  Key <- Keys
  MaxTyped = 3
  MaxWait = 3
SPECIFICATION Spec
INVARIANTS PendingWindow NoStuckModifier
PROPERTIES AtMostOnce Drained
CHECK_DEADLOCK FALSE
