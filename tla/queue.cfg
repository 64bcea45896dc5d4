\* A queue of two cells at least, up to nine values: growing to sixteen cells and back.
SPECIFICATION Spec
CONSTANTS
  Values = {v1, v2}
  Nil = Nil
  minQueueLen = 2
  MaxCount = 9
INVARIANTS
  BufferTypeOK
  NoStaleCells
PROPERTIES
  ImplementsFifo
