CONSTANTS
  Fault = Fault
  Cpus = {1, 2}
  Tasks <- SomeTasks
  Slots = 2
  Depth = 2
  MaxEvents = 3
SPECIFICATION Spec
PROPERTY WholeSamples
CHECK_DEADLOCK FALSE
