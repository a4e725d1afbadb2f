------------------------------ MODULE AtMostOnce ------------------------------
(***************************************************************************)
(* What a contained native operation promises its caller: a request is     *)
(* started at most once, an answer is the answer of that very request, a   *)
(* refusal means that it was not started and never will be, and after any  *)
(* other failure the caller cannot tell.  NativeWorker implements this.    *)
(***************************************************************************)
CONSTANTS Calls, Answers, Refusals, Losses

VARIABLES
    outcome,    \* what the caller of each request knows
    started,    \* how often an operation has been started for it
    done        \* the answer the operation came to, "none" before that

vars == <<outcome, started, done>>

Init ==
    /\ outcome = [c \in Calls |-> "none"]
    /\ started = [c \in Calls |-> 0]
    /\ done = [c \in Calls |-> "none"]

Issue(c) ==
    /\ outcome[c] = "none"
    /\ outcome' = [outcome EXCEPT ![c] = "pending"]
    /\ UNCHANGED <<started, done>>

\* Not accepted at all: no operation is started, now or later.
Refuse(c) ==
    /\ outcome[c] \in {"none", "pending"}
    /\ started[c] = 0
    /\ \E r \in Refusals : outcome' = [outcome EXCEPT ![c] = r]
    /\ UNCHANGED <<started, done>>

\* The caller may have given up; a refused request is never started.
Start(c) ==
    /\ outcome[c] \in Losses \cup {"pending"}
    /\ started[c] = 0
    /\ started' = [started EXCEPT ![c] = 1]
    /\ UNCHANGED <<outcome, done>>

Finish(c) ==
    /\ started[c] = 1
    /\ done[c] = "none"
    /\ \E a \in Answers : done' = [done EXCEPT ![c] = a]
    /\ UNCHANGED <<outcome, started>>

Answer(c) ==
    /\ outcome[c] = "pending"
    /\ done[c] \in Answers
    /\ outcome' = [outcome EXCEPT ![c] = done[c]]
    /\ UNCHANGED <<started, done>>

Lose(c) ==
    /\ outcome[c] = "pending"
    /\ \E l \in Losses : outcome' = [outcome EXCEPT ![c] = l]
    /\ UNCHANGED <<started, done>>

Next == \E c \in Calls :
    Issue(c) \/ Refuse(c) \/ Start(c) \/ Finish(c) \/ Answer(c) \/ Lose(c)

Spec == Init /\ [][Next]_vars
===============================================================================
