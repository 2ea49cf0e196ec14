SPECIFICATION Spec
INVARIANTS
    HealthyStarts
