SPECIFICATION Spec
CONSTANT Monitors = {m1, m2}
INVARIANT InterruptsItsBackup
