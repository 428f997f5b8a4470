SPECIFICATION LiveSpec
CONSTANT Descriptor = {d1, d2, d3}
INVARIANTS NonePendingBetweenPulses PendingIsSilent
PROPERTY PulseCompletes
