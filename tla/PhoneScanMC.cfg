CONSTANT MaxEvents = 4
SPECIFICATION ScanFairSpec
INVARIANTS ScanTypeOK
PROPERTIES RestsAfterPrompt PromptsUnlessStuck
CHECK_DEADLOCK FALSE
