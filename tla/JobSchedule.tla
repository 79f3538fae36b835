---------------------------- MODULE JobSchedule ----------------------------
(***************************************************************************)
(* The periodic producers of src/backend/internal/jobs.  Every replica's   *)
(* maintenance loop reads ITS clock, names the current period of each      *)
(* schedule after it, and later runs the enqueue script, whose SET NX of   *)
(* the idempotency key lets the first replica of a period push the job and *)
(* turns the others away - as long as the key has not expired.             *)
(*                                                                         *)
(* Time is discrete and global; replica r's clock shows now + skew[r].     *)
(* What happens to a pushed job is in JobQueue: nothing there touches the  *)
(* key, so acknowledging the job does not let the period be pushed again.  *)
(***************************************************************************)
EXTENDS Integers, FiniteSets

CONSTANTS
    Replicas,       \* server processes that run the maintenance loop
    Steady,         \* those that are never stopped
    NoPass,         \* no maintenance pass in progress
    Every,          \* length of a schedule's period
    TTL,            \* IdempotencyTTL
    MaxSkew,        \* how far one clock is ahead of another
    MaxDelay,       \* longest time from reading the clock to the script
    MaxGap,         \* longest time between two passes of a steady replica
    MaxFailed,      \* bound: enqueue scripts that fail
    MaxTime         \* bound of the clock

ASSUME JobScheduleAssumption ==
    /\ Steady \subseteq Replicas
    /\ Every \in Nat \ {0}
    /\ TTL \in Nat /\ MaxSkew \in Nat /\ MaxDelay \in Nat
    /\ MaxGap \in Nat \ {0}
    /\ MaxFailed \in Nat /\ MaxTime \in Nat

\* No period in progress is NoPass: a pass is a record of a period and a time.
ASSUME NoPassAssumption == NoPass \notin [period : Nat, at : Nat]

Times == 0..MaxTime
Periods == 0..((MaxTime + MaxSkew) \div Every)

VARIABLES
    now,            \* the time
    skew,           \* each replica's clock minus the slowest possible one
    pass,           \* each replica's maintenance pass: its period and start
    last,           \* when each steady replica last read its clock
    expires,        \* per period: when its idempotency key expires, 0 if never set
    pushed,         \* per period: how many jobs were enqueued for it
    failed          \* failed scripts

scheduleVars == <<now, skew, pass, last, expires, pushed, failed>>

ScheduleInit ==
    /\ now = 0
    /\ skew \in [Replicas -> 0..MaxSkew]
    /\ pass = [r \in Replicas |-> NoPass]
    /\ last = [r \in Steady |-> 0]
    /\ expires = [p \in Periods |-> 0]
    /\ pushed = [p \in Periods |-> 0]
    /\ failed = 0

Period(r) == (now + skew[r]) \div Every

\* maintain begins: the one reading of the clock that names the period.
Begin(r) ==
    /\ pass[r] = NoPass
    /\ pass' = [pass EXCEPT ![r] = [period |-> Period(r), at |-> now]]
    /\ last' = [s \in Steady |-> IF s = r THEN now ELSE last[s]]
    /\ UNCHANGED <<now, skew, expires, pushed, failed>>

End(r) == pass' = [pass EXCEPT ![r] = NoPass] /\ UNCHANGED <<now, skew, last>>

\* Mutant: the key lives for one period, whatever IdempotencyTTL says.
PushOnePeriod(r) ==
    LET p == pass[r].period
    IN  /\ pass[r] # NoPass
        /\ expires[p] <= now
        /\ expires' = [expires EXCEPT ![p] = now + Every]
        /\ pushed' = [pushed EXCEPT ![p] = @ + 1]
        /\ End(r)
        /\ UNCHANGED failed

\* The enqueue script finds no key of that period: it sets it and pushes a job.
\* A second run of the same call by the Redis client finds its own key.
Push(r) ==
    LET p == pass[r].period
    IN  /\ pass[r] # NoPass
        /\ expires[p] <= now
        /\ expires' = [expires EXCEPT ![p] = now + TTL]
        /\ pushed' = [pushed EXCEPT ![p] = @ + 1]
        /\ End(r)
        /\ UNCHANGED failed

\* The script finds the key and returns the id it holds: no job is pushed.
Suppressed(r) ==
    /\ pass[r] # NoPass
    /\ expires[pass[r].period] > now
    /\ End(r)
    /\ UNCHANGED <<expires, pushed, failed>>

\* Mutant: the key is set before the call that pushes the job, which fails.
PushFailsKeepsKey(r) ==
    /\ pass[r] # NoPass
    /\ failed < MaxFailed
    /\ failed' = failed + 1
    /\ End(r)
    /\ expires' = [expires EXCEPT ![pass[r].period] = now + TTL]
    /\ UNCHANGED pushed

\* Redis did not run the script: a warning, and nothing until the next pass.
PushFails(r) ==
    /\ pass[r] # NoPass
    /\ failed < MaxFailed
    /\ failed' = failed + 1
    /\ End(r)
    /\ UNCHANGED <<expires, pushed>>

\* The process ends in the middle of a pass.
Crash(r) ==
    /\ r \notin Steady
    /\ pass[r] # NoPass
    /\ End(r)
    /\ UNCHANGED <<expires, pushed, failed>>

\* The clock moves: a pass does not last longer than MaxDelay, and a steady
\* replica begins its next one within MaxGap.
Tick ==
    /\ now < MaxTime
    /\ \A r \in Replicas : pass[r] # NoPass => now < pass[r].at + MaxDelay
    /\ \A r \in Steady : pass[r] = NoPass => now < last[r] + MaxGap
    /\ now' = now + 1
    /\ UNCHANGED <<skew, pass, last, expires, pushed, failed>>

ScheduleNext ==
    \/ Tick
    \/ \E r \in Replicas : Begin(r) \/ Push(r) \/ Suppressed(r) \/ PushFails(r) \/ Crash(r)

ScheduleSpec == ScheduleInit /\ [][ScheduleNext]_scheduleVars

-----------------------------------------------------------------------------
(* Properties *)

\* The clock, the passes, the keys and the counts keep their types.
ScheduleTypeOK ==
    /\ now \in Times
    /\ skew \in [Replicas -> 0..MaxSkew]
    /\ pass \in [Replicas -> {NoPass} \cup [period : Periods, at : Times]]
    /\ last \in [Steady -> Times]
    /\ expires \in [Periods -> Nat]
    /\ pushed \in [Periods -> Nat]
    /\ failed \in 0..MaxFailed

\* What IdempotencyTTL has to be at least for the key to outlast its period.
TTLSuffices == TTL >= Every + MaxSkew + MaxDelay

\* What the pace of the passes has to be for no period to be missed: a steady replica,
\* a pass that ends before the next is due, and a pass to spare for every failure.
GapsSuffice ==
    /\ Steady # {} /\ MaxSkew < Every
    /\ MaxDelay <= MaxGap
    /\ Every >= (MaxFailed + 1) * MaxGap

\* A pass is young, and its period is the one its replica's clock showed; a pushed
\* period has a key that lives TTL from some reading of a clock in that period.
KeyOutlivesPeriod ==
    /\ \A r \in Replicas : pass[r] # NoPass =>
        /\ pass[r].at <= now /\ now <= pass[r].at + MaxDelay
        /\ pass[r].period * Every <= pass[r].at + MaxSkew
        /\ pass[r].at < (pass[r].period + 1) * Every
    /\ \A p \in Periods : pushed[p] # 0 => p * Every + TTL <= expires[p] + MaxSkew

\* However many replicas with clocks apart, slow scripts and failures there are, a
\* period of a schedule gets at most one job.  Needs TTLSuffices.
OneJobPerPeriod == \A p \in Periods : pushed[p] <= 1

\* No period but the one the process started in is skipped: once it is over for the
\* slowest clock and its last pass has ended, it has its job, though some scripts
\* failed and some replicas crashed.  Needs GapsSuffice.
EveryPeriodHasAJob ==
    \A p \in Periods \ {0} : (p + 1) * Every + MaxDelay <= now => pushed[p] >= 1
=============================================================================
