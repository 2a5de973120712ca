SPECIFICATION Spec
CONSTANTS
  Conns = {x1, x2}
  QueueCapacity = 1
  BatchSize = 2
  StoreMayFail = FALSE
  MaxRestarts = 0
INVARIANT NewestEventKept
