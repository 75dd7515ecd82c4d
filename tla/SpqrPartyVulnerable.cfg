SPECIFICATION Spec
CONSTANT MaxEpoch = 1
PROPERTY EmissionLandsVulnerable
