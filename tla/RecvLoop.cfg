SPECIFICATION Spec
CONSTANTS
  o1 = o1
  o2 = o2
  Undecodable = Undecodable
  Bodies <- MCBodies
  Datagrams <- MCDatagrams
  MaxSize = 79
  MaxSeqs = {0, 2}
  MaxInbox = 1
  MaxAcc = 3
INVARIANTS TypeOK FreeSpace NeverMisreads Cursors
PROPERTY WholeDatagrams
CHECK_DEADLOCK FALSE
