--------------------------- MODULE AdmissionService ---------------------------
(***************************************************************************)
(* What the webhook server promises its clients, without mutex, goroutines *)
(* or connections: calls are served one at a time, a served call has one   *)
(* answer out of those that are its own, and the client of the call gets   *)
(* that answer at most once or nothing at all.                             *)
(***************************************************************************)
CONSTANTS
    Call,     \* the calls
    Answers,  \* Answers[c]: the answers call c may be given
    None      \* no answer

VARIABLES
    stage,     \* "new", "waiting", "serving", "served" or "over"
    answer,    \* the answer a served call was given
    received   \* the answer the client has

svars == <<stage, answer, received>>

SInit ==
    /\ stage = [c \in Call |-> "new"]
    /\ answer = [c \in Call |-> None]
    /\ received = [c \in Call |-> None]

Submit(c) ==
    /\ stage[c] = "new"
    /\ stage' = [stage EXCEPT ![c] = "waiting"]
    /\ UNCHANGED <<answer, received>>

\* One at a time.
Begin(c) ==
    /\ stage[c] = "waiting"
    /\ \A d \in Call : stage[d] # "serving"
    /\ stage' = [stage EXCEPT ![c] = "serving"]
    /\ UNCHANGED <<answer, received>>

Finish(c) ==
    /\ stage[c] = "serving"
    /\ stage' = [stage EXCEPT ![c] = "served"]
    /\ \E a \in Answers[c] : answer' = [answer EXCEPT ![c] = a]
    /\ UNCHANGED received

\* The client of a served call gets the answer, or is gone.
Deliver(c) ==
    /\ stage[c] = "served"
    /\ stage' = [stage EXCEPT ![c] = "over"]
    /\ received' \in {received, [received EXCEPT ![c] = answer[c]]}
    /\ UNCHANGED answer

\* Calls may fail together, with no answer.
Drop(D) ==
    /\ \A c \in D : stage[c] \in {"waiting", "serving", "served"}
    /\ stage' = [c \in Call |-> IF c \in D THEN "over" ELSE stage[c]]
    /\ answer' = [c \in Call |-> IF c \in D THEN None ELSE answer[c]]
    /\ UNCHANGED received

SNext ==
    \/ \E c \in Call : Submit(c) \/ Begin(c) \/ Finish(c) \/ Deliver(c)
    \/ \E D \in SUBSET Call : Drop(D)

SSpec == SInit /\ [][SNext]_svars
=============================================================================
