----------------------------- MODULE MCThreads -----------------------------
(* For TLC: two threads that start and join one daemon, and two that         *)
(* thrd_create can give; or the program with two INVITE workers; or a        *)
(* forwarder that is started up to three times.  The three have nothing in   *)
(* common, and only one of them moves.                                       *)
EXTENDS SingleFlag, Lifecycle, Forwarder

CONSTANTS w1, w2
MCCallers == {"main", "sweep"}
MCWorkers == {"w1", "w2"}
MCInviteWorkers == {w1, w2}

VARIABLE part    \* which of them moves

\* A program whose first mutex could not be had, after its end.
Gone ==
    /\ stage = "exited" /\ todo = <<>> /\ held = {} /\ misused = FALSE
    /\ state = 0 /\ dstate = 0 /\ daemon = "none" /\ rounds = 0
    /\ worker = [w \in InviteWorkers |-> "none"] /\ joined = "nobody"

MCInit ==
    /\ part \in {"flag", "program", "forwarder"}
    /\ Init /\ ForwarderInit
    /\ IF part = "program" THEN LifecycleInit ELSE Gone

MCNext ==
    \/ part = "flag" /\ Next /\ UNCHANGED <<part, lifecycleVars, forwarderVars>>
    \/ part = "program" /\ LifecycleNext /\ UNCHANGED <<part, vars, forwarderVars>>
    \/ part = "forwarder" /\ ForwarderNext /\ UNCHANGED <<part, vars, lifecycleVars>>

\* No fair action is enabled in a part that does not move.
MCSpec ==
    /\ MCInit /\ [][MCNext]_<<part, vars, lifecycleVars, forwarderVars>>
    /\ Fairness /\ LifecycleFairness

\* The program and the forwarder keep their types.
TypesOK == LifecycleTypeOK /\ ForwarderTypeOK
===========================================================================
