------------------------------- MODULE Admission -------------------------------
(***************************************************************************)
(* The dispatcher inside the process that main() starts and stops, and the *)
(* API server that calls it.  Every step is one of Dispatcher, one of      *)
(* Server, both together (a handler starting or ending, the process        *)
(* ending), or one of the API server.                                      *)
(*                                                                         *)
(* The API server is external.  What the source relies on is modelled: it  *)
(* gives up after TimeoutSeconds, it takes a response only with status 200 *)
(* and the UID it sent, and without such a response it applies             *)
(* FailurePolicy, which every hook sets.                                   *)
(***************************************************************************)
EXTENDS Dispatcher

CONSTANTS
    Policy,   \* Policy[u]: FailurePolicy of the hook at u
    Hook,     \* see Server
    Path,
    Flags

Outcomes == {"admitted", "rejected"}
Causes == {"timeout", "panic", "crash", "exit0", "exit1", "refused"}

ASSUME AdmissionAssumption ==
    /\ Policy \in [URI -> {"Ignore", "Fail"}]
    /\ None \notin Outcomes /\ None \notin Causes

VARIABLES
    life, flags, uriOf, todo, seen, mux,   \* see Server
    outcome,   \* what the API server did with the request: "admitted",
               \* "rejected" or None
    cause      \* history: what cost the call its connection, or None

active == {c \in Call : pc[c] \in InFlight}

Main == INSTANCE Server

setup == <<flags, uriOf, todo, seen, mux>>
sysvars == <<vars, life, setup, outcome, cause>>

SysInit ==
    /\ Init
    /\ Main!MainInit
    /\ outcome = [c \in Call |-> None]
    /\ cause = [c \in Call |-> None]

\* A step of Dispatcher that neither starts nor ends a handler.
Inside(c) ==
    /\ \/ Lock(c) \/ Route(c) \/ ReadAndValidate(c)
       \/ Query(c) \/ QueryReturns(c) \/ Authorized(c)
       \/ SendResponse(c) \/ SendResponseAgain(c)
    /\ UNCHANGED <<life, setup, outcome, cause>>

Arrive(c) ==
    /\ cause[c] = None
    /\ Receive(c)
    /\ Main!Accept(c)
    /\ UNCHANGED <<outcome, cause>>

Leave(c) ==
    /\ Flush(c)
    /\ Main!Return(c)
    /\ UNCHANGED <<outcome, cause>>

HookPanics(c) ==
    /\ Panic(c)
    /\ Main!Return(c)
    /\ cause' = [cause EXCEPT ![c] = IF conn[c] = "open" THEN "panic" ELSE @]
    /\ UNCHANGED outcome

TimeOut(c) ==
    /\ HangUp(c)
    /\ cause' = [cause EXCEPT ![c] = "timeout"]
    /\ UNCHANGED <<life, setup, outcome>>

\* The calls that still have a connection lose it because of what.
Cut(what) ==
    cause' = [c \in Call |-> IF conn[c] = "open" THEN what ELSE cause[c]]

Overflow(c) ==
    /\ StackOverflow(c)
    /\ Main!Crash
    /\ Cut("crash")
    /\ UNCHANGED outcome

\* main() ends the process: os.Exit(1), or its return after a drain.
MainExits ==
    /\ Exit
    /\ \/ /\ Main!ServerFailed \/ Main!DrainAborted
          /\ Cut("exit1")
       \/ /\ Main!Drained
          /\ Cut("exit0")
    /\ UNCHANGED outcome

\* main() moves on without touching a handler.
MainRuns ==
    /\ UNCHANGED <<vars, outcome, cause>>
    /\ Main!Starting \/ Main!Signal

StartedAgain ==
    /\ IF proc = "running" THEN UNCHANGED vars ELSE Restart
    /\ Main!StartAgain
    /\ UNCHANGED <<outcome, cause>>

\* No process listens, and the connection is refused.
Refused(c) ==
    /\ pc[c] = "idle"
    /\ life \notin {"serving", "draining"}
    /\ cause[c] = None
    /\ cause' = [cause EXCEPT ![c] = "refused"]
    /\ UNCHANGED <<vars, life, setup, outcome>>

\* The API server has the response it asked for.
Accepted(c) == wire[c] # None /\ wire[c].status = 200 /\ wire[c].uid = c

\* It follows that response, or the hook's FailurePolicy without one.
Admits(c) ==
    IF Accepted(c) THEN wire[c].verdict \in {"allow", "patch"}
                   ELSE Policy[shape[c].uri] = "Ignore"

\* The call is over for the API server.
Settle(c) ==
    /\ outcome[c] = None
    /\ conn[c] = "closed"
    /\ pc[c] # "idle" \/ cause[c] = "refused"
    /\ outcome' = [outcome EXCEPT ![c] =
         IF Admits(c) THEN "admitted" ELSE "rejected"]
    /\ UNCHANGED <<vars, life, setup, cause>>

SysNext ==
    \/ \E c \in Call :
         \/ Arrive(c) \/ Inside(c) \/ Leave(c) \/ HookPanics(c)
         \/ Overflow(c) \/ TimeOut(c) \/ Refused(c) \/ Settle(c)
    \/ MainExits \/ MainRuns \/ StartedAgain

SysSpec == SysInit /\ [][SysNext]_sysvars

-----------------------------------------------------------------------------
(* Properties. *)

\* What the API server records of a call, by type.
SideTypeOK ==
    /\ outcome \in [Call -> Outcomes \cup {None}]
    /\ cause \in [Call -> Causes \cup {None}]

\* The type invariant of the whole system: dispatcher, main() and API server.
SysTypeOK == TypeOK /\ Main!MainTypeOK /\ SideTypeOK

(***************************************************************************)
(* A hook with FailurePolicy Fail (imagecontentpolicies) fails closed: the *)
(* request behind a call to it is admitted only if the hook, asked about   *)
(* this very call, allowed it, whatever times out, panics or restarts.     *)
(***************************************************************************)
FailClosed ==
    \A c \in Call :
      outcome[c] = "admitted" /\ Policy[shape[c].uri] = "Fail" =>
        decided[c] \in {"allow", "patch"}

(***************************************************************************)
(* A hook with FailurePolicy Ignore never blocks a request it did not      *)
(* decide against, however slow, stuck or absent the server is.            *)
(***************************************************************************)
OutageBlocksNothing ==
    \A c \in Call :
      outcome[c] = "rejected" /\ Policy[shape[c].uri] = "Ignore" =>
        decided[c] \in {"deny", "error"}

(***************************************************************************)
(* A request that the hook denied goes through only if the denial did not  *)
(* reach the API server in time, because of its timeout or of the end of   *)
(* the process, and only for a hook with FailurePolicy Ignore.             *)
(***************************************************************************)
DenialLostOnlyToTimeoutOrExit ==
    \A c \in Call :
      outcome[c] = "admitted" /\ decided[c] = "deny" =>
        /\ Policy[shape[c].uri] = "Ignore"
        /\ cause[c] \in {"timeout", "crash", "exit1"}

(***************************************************************************)
(* Shutdown drains: when main() returns (exit status 0) after a signal no  *)
(* call loses its connection, also not one that came while it drained.     *)
(***************************************************************************)
DrainCutsNoCall == \A c \in Call : cause[c] # "exit0"

(***************************************************************************)
(* An answer that is late stays without effect: once the API server has    *)
(* timed out, it never gets the response that the handler, which is not    *)
(* told, goes on to produce.                                               *)
(***************************************************************************)
LateAnswerIsDropped ==
    \A c \in Call : cause[c] # None => wire[c] = None

(***************************************************************************)
(* The inductive invariant: what the API server's side knows of a call.    *)
(***************************************************************************)
SideInv(c) ==
    /\ conn[c] = "open" => pc[c] \in InFlight /\ cause[c] = None
    /\ cause[c] = "refused" => pc[c] = "idle"
    /\ cause[c] = "panic" => pc[c] = "aborted" /\ decided[c] = "panic"
    /\ cause[c] # "exit0"
    /\ cause[c] # None => wire[c] = None
    /\ pc[c] # "idle" /\ conn[c] = "closed" /\ wire[c] = None => cause[c] # None
    /\ outcome[c] # None =>
         /\ conn[c] = "closed"
         /\ pc[c] # "idle" \/ cause[c] = "refused"
         /\ outcome[c] = "admitted" <=> Admits(c)

SysInv == SideTypeOK /\ \A c \in Call : SideInv(c)

=============================================================================
