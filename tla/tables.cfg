SPECIFICATION ErasingSpec
CONSTANTS
  Fds = {1, 2, 3, 4}
  listenFd = 0
INVARIANTS TypeOK IndexConsistent ErasesOne
