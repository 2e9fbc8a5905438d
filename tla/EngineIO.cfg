SPECIFICATION RSpec
CONSTANTS
  Buffers <- MCBuffers
  Ciphers <- MCCiphers
  InLens = {0, 1, 512}
  Cuts = {1}
  Closes = TRUE
  Renegotiates = FALSE
  Forces = FALSE
  Patient = TRUE
  Parts = 2
  Cap = 1024
INVARIANTS
  TypeOK
  RegistersFit
  OneAtATime
  TypesKept
  NeverStuck
  InputIsRead
PROPERTY
  ImplementsEngine
CHECK_DEADLOCK FALSE
