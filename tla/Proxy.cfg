SPECIFICATION ProxyFairSpec
CONSTANTS
  main = main
  down = down
  up = up
  Users = {main, down, up}
  Readers = {down, up}
  Writers = {main, down, up}
  Sizes = {}
  Lengths = {}
  MAX_BUFF_SIZE = 2
  CloseErrors = FALSE
  MaxIn = 2
  MaxWrites = 2
  Header = 2
INVARIANTS HeaderFirst
PROPERTIES RelaysStream ShutsDown
CHECK_DEADLOCK FALSE
