SPECIFICATION Spec
CONSTANTS
    free = free
    pro = pro
    e1 = e1
    Plans = {free, pro}
    FreePlan = free
    NoPlan = none
    Limit <- MCLimit
    Events = {e1}
    EventPlan <- MCEventPlan
    MaxMonth = 2
    Records = {i1, i2}
    Actors = {r1, r2}
    MaxVersion = 2
CHECK_DEADLOCK FALSE
SYMMETRY Symmetry
INVARIANTS TypeOK QuotaHeld EventsAppliedOnce MeterNeverUndercounts SubmissionsMatchRecords
