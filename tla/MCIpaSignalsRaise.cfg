SPECIFICATION Spec
CONSTANTS
  Schemas = {x1}
  NoSchema = NoSchema
  Signals = {s1, s2, s3}
  Callbacks = {f, g}
  NoCallback = NoCallback
  Junk = Junk
  FirstCapacity = 1
INVARIANT RaisesRegistered
SYMMETRY Symmetry
CHECK_DEADLOCK FALSE
