---------------------------- MODULE JobLifecycle ----------------------------
(***************************************************************************)
(* What a job promises to whoever enqueued it, without workers, leases,    *)
(* tokens or clocks: it is attempted one or more times, it succeeds at     *)
(* most once and for good, and it is given up only after MaxAttempts       *)
(* attempts, from where an operator may start it afresh.                   *)
(***************************************************************************)
EXTENDS Naturals

CONSTANTS
    Job,
    MaxAttempts

VARIABLES
    stage,     \* where each job is
    attempts   \* attempts since the job was last queued

jobVars == <<stage, attempts>>

Init ==
    /\ stage = [j \in Job |-> "absent"]
    /\ attempts = [j \in Job |-> 0]

Move(j, from, to) ==
    /\ stage[j] \in from
    /\ stage' = [stage EXCEPT ![j] = to]

Create(j) ==
    /\ Move(j, {"absent"}, "waiting")
    /\ UNCHANGED attempts

(* A running job is attempted again when its worker was lost. *)
Attempt(j) ==
    /\ Move(j, {"waiting", "running"}, "running")
    /\ attempts' = [attempts EXCEPT ![j] = @ + 1]

Succeed(j) ==
    /\ Move(j, {"running"}, "succeeded")
    /\ UNCHANGED attempts

Postpone(j) ==
    /\ attempts[j] < MaxAttempts
    /\ Move(j, {"running"}, "waiting")
    /\ UNCHANGED attempts

GiveUp(j) ==
    /\ attempts[j] >= MaxAttempts
    /\ Move(j, {"running"}, "dead")
    /\ UNCHANGED attempts

StartAfresh(j) ==
    /\ Move(j, {"dead"}, "waiting")
    /\ attempts' = [attempts EXCEPT ![j] = 0]

Next ==
    \E j \in Job :
        \/ Create(j)
        \/ Attempt(j)
        \/ Succeed(j)
        \/ Postpone(j)
        \/ GiveUp(j)
        \/ StartAfresh(j)

Spec == Init /\ [][Next]_jobVars
=============================================================================
