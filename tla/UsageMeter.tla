----------------------------- MODULE UsageMeter -----------------------------
(***************************************************************************)
(* A tenant's plan and the monthly counter of one metered resource.        *)
(*                                                                         *)
(* Consuming reads the plan's limit in one transaction and books the unit  *)
(* in a second one, which locks the row of the month it runs in.  The      *)
(* subscription row is made on the first reading, or by the provider's     *)
(* events, which arrive in any order and more than once.                   *)
(***************************************************************************)
EXTENDS Integers, Sequences

CONSTANTS
    Plans, FreePlan, NoPlan,    \* NoPlan: the tenant has no subscription row yet
    Limit,                      \* units a plan allows a month
    Events,                     \* ids of subscription events
    EventPlan,                  \* the plan an event's price stands for
    MaxMonth                    \* bound: months, the first being 1

ASSUME UsageMeterAssumption ==
    /\ FreePlan \in Plans /\ NoPlan \notin Plans
    /\ Limit \in [Plans -> Nat]
    /\ EventPlan \in [Events -> Plans \ {FreePlan}]
    /\ MaxMonth \in Nat \ {0}

VARIABLES
    month,          \* the current billing month
    subscription,   \* the plan of the tenant's subscription row
    usage,          \* usage_counters: units booked, by month
    priced,         \* plans whose Stripe price is configured
    processed,      \* billing_events
    applied,        \* history: the events whose effect was committed, in order
    granted         \* history: the largest limit the tenant ever had

plans == <<subscription, priced, processed, applied, granted>>
meter == <<month, usage, plans>>

Months == 1..MaxMonth

MeterInit ==
    /\ month = 1
    /\ subscription = NoPlan
    /\ usage = [m \in Months |-> 0]
    /\ priced = {}
    /\ processed = {}
    /\ applied = <<>>
    /\ granted = 0

Larger(a, b) == IF a < b THEN b ELSE a

-----------------------------------------------------------------------------
(* Time and the provider *)

NextMonth ==
    /\ month < MaxMonth
    /\ month' = month + 1
    /\ UNCHANGED <<usage, plans>>

\* A start of the server with the prices in its configuration.
ConfigurePrices ==
    /\ priced' = Plans \ {FreePlan}
    /\ UNCHANGED <<month, usage, subscription, processed, applied, granted>>

Adopt(p) ==
    /\ subscription' = p
    /\ granted' = Larger(granted, Limit[p])

\* One transaction: the id, the plan of the price, the subscription.  A known id
\* ends it early; an unknown price undoes it, id included, so a redelivery may
\* succeed.  A deleted subscription keeps its plan: only its status changes, which
\* the meter does not read.
ApplyEvent(e) ==
    /\ e \notin processed
    /\ EventPlan[e] \in priced
    /\ processed' = processed \cup {e}
    /\ Adopt(EventPlan[e])
    /\ applied' = Append(applied, e)
    /\ UNCHANGED <<month, usage, priced>>

-----------------------------------------------------------------------------
(* The parts of Consume *)

\* Overview of a tenant with a subscription.
Subscribed(limit) ==
    /\ subscription # NoPlan
    /\ limit = Limit[subscription]
    /\ UNCHANGED meter

\* Mutant: the insertion replaces the row another transaction made meanwhile.
SubscribeFreeReplaces ==
    /\ Adopt(FreePlan)
    /\ UNCHANGED <<month, usage, priced, processed, applied>>

\* Overview of a tenant without one: the row is unique, so the second of two such
\* insertions fails, and the request with it.
SubscribeFree ==
    /\ subscription = NoPlan
    /\ Adopt(FreePlan)
    /\ UNCHANGED <<month, usage, priced, processed, applied>>

\* Mutant: the unit asked for is not counted in.
AdmitsLate(limit) == usage[month] <= limit

\* RecordUsage of one unit against a limit read before.
Admits(limit) == usage[month] + 1 <= limit

Book ==
    /\ usage' = [usage EXCEPT ![month] = @ + 1]
    /\ UNCHANGED <<month, plans>>

\* Mutant: nothing keeps the counter from falling below zero.
GiveBackUnclamped ==
    /\ usage' = [usage EXCEPT ![month] = @ - 1]
    /\ UNCHANGED <<month, plans>>

\* RecordUsage of minus one unit, in the month of NOW, never below zero.
GiveBack ==
    /\ usage' = [usage EXCEPT ![month] = IF @ > 0 THEN @ - 1 ELSE 0]
    /\ UNCHANGED <<month, plans>>

-----------------------------------------------------------------------------
MeterTypeOK ==
    /\ month \in Months
    /\ subscription \in Plans \cup {NoPlan}
    /\ usage \in [Months -> Nat]
    /\ priced \in SUBSET Plans
    /\ processed \in SUBSET Events
    /\ applied \in Seq(Events)
    /\ granted \in Nat

\* Whatever plan a request read, whatever it waited for since: no month's counter
\* passes the largest limit the tenant ever had.
QuotaHeld == \A m \in Months : usage[m] <= granted

\* Every event recorded as processed took effect, once, and a plan the provider
\* reported is never lost to the free plan that a first reading makes.
EventsAppliedOnce ==
    /\ processed = {applied[k] : k \in 1..Len(applied)}
    /\ \A j, k \in 1..Len(applied) : applied[j] = applied[k] => j = k
    /\ applied # <<>> => subscription = EventPlan[applied[Len(applied)]]
=============================================================================
