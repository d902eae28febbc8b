SPECIFICATION FairSpec
CONSTANTS
  init_task = init_task
  KThreads = {1}
  UTasks = {2, 3}
  NULL = NULL
  MaxFrames = 3
INVARIANTS
  TypeOK
  PreemptExact
  Parked
  OneCreator
  SwitchTargetQueued
  QueueLinked
  OwnAddressSpace
  ZombieBeforeZombie
PROPERTIES
  ImplementsTaskQueue
  NoStarvationAlive
