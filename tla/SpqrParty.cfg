SPECIFICATION Spec
CONSTANT MaxEpoch = 9
INVARIANT KeyLogExact
INVARIANT VulnerableWindow
