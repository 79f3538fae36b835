---------------------------- MODULE JobLifecycle ----------------------------
(***************************************************************************)
(* What the job queue promises its callers, with no queue in it.  An       *)
(* accepted job is pending, and may be handled again and again, until it   *)
(* is gone, dead or lost.  It goes only after a call of its handler        *)
(* succeeded.  It dies only when MaxAttempts failed calls were counted,    *)
(* none of them twice, and comes back only with a clean count.  It is lost *)
(* only to an error in reading it.  A success does not save it from more   *)
(* calls: until it is gone it may still fail and die.  And a failed call   *)
(* need not be counted: a crash may come before.                           *)
(***************************************************************************)
EXTENDS Naturals

CONSTANTS
    Jobs,           \* job ids
    MaxAttempts     \* counted failures after which a job is dead

VARIABLES
    status,         \* "new", "pending", "gone", "dead" or "lost"
    tries,          \* failed calls counted since the job was accepted or revived
    failed,         \* failed calls since then, up to MaxAttempts
    succeeded,      \* jobs a call of whose handler succeeded
    errors          \* errors in reading a job

vars == <<status, tries, failed, succeeded, errors>>

Init ==
    /\ status = [id \in Jobs |-> "new"]
    /\ tries = [id \in Jobs |-> 0]
    /\ failed = [id \in Jobs |-> 0]
    /\ succeeded = {}
    /\ errors = 0

Turns(id, from, to) == status[id] = from /\ status' = [status EXCEPT ![id] = to]

Accept(id) ==
    /\ Turns(id, "new", "pending")
    /\ UNCHANGED <<tries, failed, succeeded, errors>>

Succeed(id) ==
    /\ status[id] = "pending"
    /\ succeeded' = succeeded \cup {id}
    /\ UNCHANGED <<status, tries, failed, errors>>

Fail(id) ==
    /\ status[id] = "pending"
    /\ failed[id] < MaxAttempts
    /\ failed' = [failed EXCEPT ![id] = @ + 1]
    /\ UNCHANGED <<status, tries, succeeded, errors>>

Counted(id) == tries[id] < failed[id] /\ tries' = [tries EXCEPT ![id] = @ + 1]

Retry(id) ==
    /\ status[id] = "pending"
    /\ tries[id] + 1 < MaxAttempts
    /\ Counted(id)
    /\ UNCHANGED <<status, failed, succeeded, errors>>

Bury(id) ==
    /\ Turns(id, "pending", "dead")
    /\ tries[id] + 1 = MaxAttempts
    /\ Counted(id)
    /\ UNCHANGED <<failed, succeeded, errors>>

Revive(id) ==
    /\ Turns(id, "dead", "pending")
    /\ tries' = [tries EXCEPT ![id] = 0]
    /\ failed' = [failed EXCEPT ![id] = 0]
    /\ UNCHANGED <<succeeded, errors>>

Finish(id) ==
    /\ Turns(id, "pending", "gone")
    /\ id \in succeeded
    /\ tries' = [tries EXCEPT ![id] = 0]
    /\ UNCHANGED <<failed, succeeded, errors>>

Lose(id) ==
    /\ Turns(id, "pending", "lost")
    /\ errors' = errors + 1
    /\ UNCHANGED <<tries, failed, succeeded>>

Next ==
    \E id \in Jobs :
        \/ Accept(id) \/ Succeed(id) \/ Fail(id) \/ Retry(id)
        \/ Bury(id) \/ Revive(id) \/ Finish(id) \/ Lose(id)

Spec == Init /\ [][Next]_vars
=============================================================================
