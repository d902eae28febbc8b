SPECIFICATION Spec
CONSTANTS
  init_task = init_task
  KThreads = {1}
  UTasks = {2, 3}
  NULL = NULL
  MaxFrames = 3
PROPERTY SelectsRunning
