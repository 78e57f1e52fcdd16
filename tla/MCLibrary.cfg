SPECIFICATION MCSpec
CONSTANTS
  AxisValues = {0, 1}
  BufferSize = 4
  Offsets = {0, 1}
  Factors = {0, 100}
  Changing <- ChangingHere
  MaxSpeed = 1
  MaxZero = 100
  Devices = {d1, d2}
  Staying = {d2}
  NoDevice = NoDevice
  MaxPlugs = 2
  Chunk = 2
  Data <- DataHere
  Magic <- MagicHere
  Bytes = {0, 3}
  Bits = 8
  Places = {0}
INVARIANTS FramesTrue KeysFollow OnceEach Undamaged OneCopyEnough BitsOnce
PROPERTIES DevicesProvided PollComesBack
CHECK_DEADLOCK FALSE
