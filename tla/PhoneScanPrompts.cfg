CONSTANT MaxEvents = 2
SPECIFICATION ScanFairSpec
PROPERTIES ContinuousPrompting
CHECK_DEADLOCK FALSE
