SPECIFICATION Spec
CONSTANTS
  RxNum = 4
  TxNum = 2
  RxW = 8
  TxW = 4
  Bdc = 1
  Batch = 2
  Pool = 16
  Networks <- MCNetworks
  Null = Null
INVARIANTS
  DescriptorsAccounted
  BuffersApart
  EchoedInOrder
PROPERTIES
  QueuesArePools
  FramesTaken
  Restocked
