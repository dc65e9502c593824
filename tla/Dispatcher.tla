------------------------------- MODULE Dispatcher -------------------------------
(***************************************************************************)
(* The request path of the webhook server: Dispatcher.HandleRequest        *)
(* (pkg/dispatcher/dispatcher.go) run by one goroutine of net/http per     *)
(* call, the mutex that serialises those goroutines, and SendResponse      *)
(* (pkg/helpers/response.go).                                              *)
(*                                                                         *)
(* A call is one HTTP exchange with the API server.  It carries at most    *)
(* one AdmissionReview, so a call also stands for the UID of its review.   *)
(* What a hook decides is abstract here: Verdicts gives, for each          *)
(* registered URI, what Authorized may come to.                            *)
(***************************************************************************)
EXTENDS Naturals

CONSTANTS
    Call,        \* the calls of the API server
    URI,         \* the paths a call may ask for
    Registered,  \* the paths in the dispatcher's hook map
    Verdicts,    \* Verdicts[u]: the outcomes of Authorized of the hook at u
    CallsOut,    \* the paths whose Authorized itself queries the API server
    Arrivals,    \* the shapes of calls that may arrive
    MaxDepth,    \* frames of SendResponse a goroutine stack holds
    None         \* no call, no response, no UID

Verdict == {"allow", "deny", "patch", "error", "errorNoUID", "panic"}

(***************************************************************************)
(* The shape of a call: its path, whether url.Parse accepts the request    *)
(* URI, whether its body is a review, something ParseHTTPRequest refuses,  *)
(* or never arrives in full, and whether the hook's Validate accepts it.   *)
(***************************************************************************)
Shape == [uri : URI, url : BOOLEAN,
          body : {"review", "unparsable", "stalled"}, valid : BOOLEAN]

Response == [status : {200, 400, 404}, uid : Call \cup {None},
             verdict : Verdict \ {"panic", "errorNoUID"}]

ASSUME DispatcherAssumption ==
    /\ None \notin Call /\ None \notin Verdict /\ None \notin Response
    /\ Registered \subseteq URI
    /\ Verdicts \in [Registered -> SUBSET Verdict]
    /\ CallsOut \subseteq Registered
    /\ Arrivals \subseteq Shape
    /\ MaxDepth \in Nat \ {0}

VARIABLES
    proc,     \* the server process: "running", "exited" or "overflowed"
    mu,       \* Dispatcher.mu: the call whose goroutine holds it, or None
    pc,       \* where the goroutine of each call is
    shape,    \* the shape of each call, as the API server sends it
    resp,     \* the response the goroutine is about to send
    depth,    \* how often SendResponse has called itself for this call
    conn,     \* the client's end of the connection: "open" or "closed"
    wire,     \* the response the client received, or None
    decided   \* history: the verdict the hook reached for the call, or None

vars == <<proc, mu, pc, shape, resp, depth, conn, wire, decided>>

Critical == {"route", "read", "hook", "query", "queried", "send"}
Ended    == {"done", "aborted", "lost"}
InFlight == {"lock", "flush"} \cup Critical

Init ==
    /\ proc = "running"
    /\ mu = None
    /\ pc = [c \in Call |-> "idle"]
    /\ shape \in [Call -> Arrivals]
    /\ resp = [c \in Call |-> None]
    /\ depth = [c \in Call |-> 0]
    /\ conn = [c \in Call |-> "closed"]
    /\ wire = [c \in Call |-> None]
    /\ decided = [c \in Call |-> None]

-----------------------------------------------------------------------------
(* Building a response. *)

\* admissionctl.Errored: not allowed, and no UID.
Errored(status) == [status |-> status, uid |-> None, verdict |-> "error"]

\* utils.WebhookResponse, and the hooks that set the UID themselves.
WebhookResponse(c, verdict) == [status |-> 200, uid |-> c, verdict |-> verdict]

\* Faulty variant: what cannot be decoded is let through.
LenientHookResponse(c, verdict) ==
    WebhookResponse(c, IF verdict = "errorNoUID" THEN "allow" ELSE verdict)

\* Faulty variant: the UID is set on what is allowed only.
UnsignedHookResponse(c, verdict) ==
    IF verdict \in {"errorNoUID", "deny"} THEN Errored(200) ELSE WebhookResponse(c, verdict)

\* What Authorized returns: some hooks return a bare Errored when they cannot
\* decode the object.
HookResponse(c, verdict) ==
    IF verdict = "errorNoUID" THEN Errored(200) ELSE WebhookResponse(c, verdict)

\* ParseHTTPRequest fails on a missing, empty or unreadable body, on another
\* content type, on what does not decode, and on a review without a request.
ParseHTTPRequest(c) == shape[c].body = "review"

-----------------------------------------------------------------------------
(* The steps of HandleRequest for call c. *)

\* net/http accepts the call and starts the handler's goroutine.
Receive(c) ==
    /\ proc = "running"
    /\ pc[c] = "idle"
    /\ pc' = [pc EXCEPT ![c] = "lock"]
    /\ conn' = [conn EXCEPT ![c] = "open"]
    /\ UNCHANGED <<proc, mu, shape, resp, depth, wire, decided>>

\* Faulty variant: no mutex.
UnguardedLock(c) ==
    /\ pc[c] = "lock"
    /\ mu' = c
    /\ pc' = [pc EXCEPT ![c] = "route"]
    /\ UNCHANGED <<proc, shape, resp, depth, conn, wire, decided>>

\* d.mu.Lock()
Lock(c) ==
    /\ pc[c] = "lock"
    /\ mu = None
    /\ mu' = c
    /\ pc' = [pc EXCEPT ![c] = "route"]
    /\ UNCHANGED <<proc, shape, resp, depth, conn, wire, decided>>

\* Faulty variant: the response is kept in the Dispatcher, not in the handler.
SharedReply(c, m) ==
    /\ resp' = [d \in Call |-> m]
    /\ pc' = [pc EXCEPT ![c] = "send"]
    /\ UNCHANGED <<proc, mu, shape, depth, conn, wire>>

\* The goroutine of c goes on to SendResponse with response m.
Reply(c, m) ==
    /\ resp' = [resp EXCEPT ![c] = m]
    /\ pc' = [pc EXCEPT ![c] = "send"]
    /\ UNCHANGED <<proc, mu, shape, depth, conn, wire>>

\* url.Parse and the look-up in the hook map.
Route(c) ==
    /\ pc[c] = "route"
    /\ \/ /\ ~shape[c].url
          /\ Reply(c, Errored(400))
          /\ UNCHANGED decided
       \/ /\ shape[c].url
          /\ shape[c].uri \notin Registered
          /\ Reply(c, Errored(404))
          /\ UNCHANGED decided
       \/ /\ shape[c].url
          /\ shape[c].uri \in Registered
          /\ pc' = [pc EXCEPT ![c] = "read"]
          /\ UNCHANGED <<proc, mu, shape, resp, depth, conn, wire, decided>>

\* Faulty variant: the handler does not write the 400 of a body it cannot parse.
ReadAndValidateAs200(c) ==
    /\ pc[c] = "read"
    /\ shape[c].body = "stalled" => conn[c] = "closed"
    /\ IF ParseHTTPRequest(c) /\ shape[c].valid
       THEN /\ pc' = [pc EXCEPT ![c] = "hook"]
            /\ UNCHANGED <<proc, mu, shape, resp, depth, conn, wire, decided>>
       ELSE Reply(c, Errored(200)) /\ UNCHANGED decided

\* Faulty variant: an invalid review gets a denial instead of a bare error.
ReadAndDenyInvalid(c) ==
    /\ pc[c] = "read"
    /\ shape[c].body = "stalled" => conn[c] = "closed"
    /\ IF ParseHTTPRequest(c) /\ shape[c].valid
       THEN /\ pc' = [pc EXCEPT ![c] = "hook"]
            /\ UNCHANGED <<proc, mu, shape, resp, depth, conn, wire, decided>>
       ELSE /\ Reply(c, IF ParseHTTPRequest(c) THEN WebhookResponse(c, "deny") ELSE Errored(400))
            /\ UNCHANGED decided

\* ParseHTTPRequest reads the body to its end, which a stalled body has only
\* when the client closes the connection, and hook().Validate looks at it.
ReadAndValidate(c) ==
    /\ pc[c] = "read"
    /\ shape[c].body = "stalled" => conn[c] = "closed"
    /\ \/ /\ ~ParseHTTPRequest(c)
          /\ Reply(c, Errored(400))
          /\ UNCHANGED decided
       \/ /\ ParseHTTPRequest(c)
          /\ ~shape[c].valid
          /\ Reply(c, Errored(200))
          /\ UNCHANGED decided
       \/ /\ ParseHTTPRequest(c)
          /\ shape[c].valid
          /\ pc' = [pc EXCEPT ![c] = "hook"]
          /\ UNCHANGED <<proc, mu, shape, resp, depth, conn, wire, decided>>

\* Authorized of a hook at CallsOut asks the API server with a context that
\* has no deadline, and waits.  A series of queries is one such wait.
Query(c) ==
    /\ pc[c] = "hook"
    /\ shape[c].uri \in CallsOut
    /\ pc' = [pc EXCEPT ![c] = "query"]
    /\ UNCHANGED <<proc, mu, shape, resp, depth, conn, wire, decided>>

\* The API server answers the query, or the transport gives up on it.
QueryReturns(c) ==
    /\ pc[c] = "query"
    /\ pc' = [pc EXCEPT ![c] = "queried"]
    /\ UNCHANGED <<proc, mu, shape, resp, depth, conn, wire, decided>>

\* hook().Authorized(request) returns, and its response goes to SendResponse.
Authorized(c) ==
    /\ pc[c] \in {"hook", "queried"}
    /\ \E v \in Verdicts[shape[c].uri] \ {"panic"} :
         /\ Reply(c, HookResponse(c, v))
         /\ decided' = [decided EXCEPT ![c] = v]

\* defer d.mu.Unlock(): runs when HandleRequest returns and when it panics.
Unlock == mu' = None

\* Faulty variant: Unlock is not deferred, and a panic skips it.
PanicKeepsLock(c) ==
    /\ pc[c] \in {"hook", "queried"}
    /\ "panic" \in Verdicts[shape[c].uri]
    /\ pc' = [pc EXCEPT ![c] = "aborted"]
    /\ conn' = [conn EXCEPT ![c] = "closed"]
    /\ decided' = [decided EXCEPT ![c] = "panic"]
    /\ UNCHANGED <<proc, mu, shape, resp, depth, wire>>

\* A hook dereferences a field the object does not have.  net/http recovers
\* the panic after the deferred Unlock and closes the connection.
Panic(c) ==
    /\ pc[c] \in {"hook", "queried"}
    /\ "panic" \in Verdicts[shape[c].uri]
    /\ Unlock
    /\ pc' = [pc EXCEPT ![c] = "aborted"]
    /\ conn' = [conn EXCEPT ![c] = "closed"]
    /\ decided' = [decided EXCEPT ![c] = "panic"]
    /\ UNCHANGED <<proc, shape, resp, depth, wire>>

\* SendResponse encodes into the connection's buffer, and HandleRequest
\* returns.  A write error of that buffer is sticky, so this succeeds only if
\* no earlier attempt for this call failed.
SendResponse(c) ==
    /\ pc[c] = "send"
    /\ depth[c] = 0
    /\ Unlock
    /\ pc' = [pc EXCEPT ![c] = "flush"]
    /\ UNCHANGED <<proc, shape, resp, depth, conn, wire, decided>>

\* Faulty variant: encoding fails for a client that is still there, because the
\* response itself cannot be marshalled.
SendUnencodable(c) ==
    /\ pc[c] = "send"
    /\ depth[c] < MaxDepth
    /\ depth' = [depth EXCEPT ![c] = @ + 1]
    /\ resp' = [resp EXCEPT ![c] = Errored(@.status)]
    /\ UNCHANGED <<proc, mu, pc, shape, conn, wire, decided>>

\* Encode reports that the client is gone (the response outgrew the buffer),
\* and SendResponse calls itself with a 500.
SendResponseAgain(c) ==
    /\ pc[c] = "send"
    /\ conn[c] = "closed"
    /\ depth[c] < MaxDepth
    /\ depth' = [depth EXCEPT ![c] = @ + 1]
    /\ resp' = [resp EXCEPT ![c] = Errored(@.status)]
    /\ UNCHANGED <<proc, mu, pc, shape, conn, wire, decided>>

\* The process is gone with every goroutine in it, and every connection.
Die(how) ==
    /\ proc' = how
    /\ mu' = None
    /\ pc' = [c \in Call |-> IF pc[c] \in InFlight THEN "lost" ELSE pc[c]]
    /\ conn' = [c \in Call |-> "closed"]
    /\ UNCHANGED <<shape, resp, depth, wire, decided>>

\* The stack is full: the runtime ends the process, recover() cannot help.
StackOverflow(c) ==
    /\ pc[c] = "send"
    /\ depth[c] = MaxDepth
    /\ Die("overflowed")

\* Faulty variant: the answer reaches a client that has given up.
FlushToAnyone(c) ==
    /\ pc[c] = "flush"
    /\ wire' = [wire EXCEPT ![c] = resp[c]]
    /\ conn' = [conn EXCEPT ![c] = "closed"]
    /\ pc' = [pc EXCEPT ![c] = "done"]
    /\ UNCHANGED <<proc, mu, shape, resp, depth, decided>>

\* net/http flushes the buffer once the handler has returned.
Flush(c) ==
    /\ pc[c] = "flush"
    /\ wire' = [wire EXCEPT ![c] = IF conn[c] = "open" THEN resp[c] ELSE None]
    /\ conn' = [conn EXCEPT ![c] = "closed"]
    /\ pc' = [pc EXCEPT ![c] = "done"]
    /\ UNCHANGED <<proc, mu, shape, resp, depth, decided>>

\* The client's timeout: TimeoutSeconds of the hook has passed.
HangUp(c) ==
    /\ pc[c] \in InFlight
    /\ conn[c] = "open"
    /\ conn' = [conn EXCEPT ![c] = "closed"]
    /\ UNCHANGED <<proc, mu, pc, shape, resp, depth, wire, decided>>

\* The process ends for a reason outside the request path.
Exit ==
    /\ proc = "running"
    /\ Die("exited")

\* The container is started again, with a fresh Dispatcher.
Restart ==
    /\ proc # "running"
    /\ proc' = "running"
    /\ UNCHANGED <<mu, pc, shape, resp, depth, conn, wire, decided>>

Handler(c) ==
    \/ Route(c) \/ ReadAndValidate(c)
    \/ Query(c) \/ Authorized(c) \/ Panic(c)
    \/ SendResponse(c) \/ SendResponseAgain(c) \/ StackOverflow(c)
    \/ Flush(c)

Next ==
    \/ \E c \in Call :
         \/ Receive(c) \/ Lock(c)
         \/ Handler(c) \/ QueryReturns(c) \/ HangUp(c)
    \/ Exit
    \/ Restart

Spec == Init /\ [][Next]_vars

(***************************************************************************)
(* Fairness.  A runnable goroutine runs.  sync.Mutex hands itself to a     *)
(* goroutine that has waited for a millisecond, so no waiter starves       *)
(* (strong fairness of Lock).  The client's timer fires, since every hook  *)
(* sets TimeoutSeconds.  A query ends: the API client's transport drops a  *)
(* connection that no longer answers pings.                                *)
(***************************************************************************)
Fairness ==
    \A c \in Call :
      /\ SF_vars(Lock(c))
      /\ WF_vars(Handler(c))
      /\ WF_vars(QueryReturns(c))
      /\ WF_vars(HangUp(c))

FairSpec == Spec /\ Fairness

-----------------------------------------------------------------------------
(* Properties. *)

\* The type invariant: among it, the stack never holds more than MaxDepth frames
\* of SendResponse.
TypeOK ==
    /\ proc \in {"running", "exited", "overflowed"}
    /\ mu \in Call \cup {None}
    /\ pc \in [Call -> {"idle"} \cup InFlight \cup Ended]
    /\ shape \in [Call -> Arrivals]
    /\ resp \in [Call -> Response \cup {None}]
    /\ depth \in [Call -> 0..MaxDepth]
    /\ conn \in [Call -> {"open", "closed"}]
    /\ wire \in [Call -> Response \cup {None}]
    /\ decided \in [Call -> Verdict \cup {None}]

(***************************************************************************)
(* The mutex is held exactly while one handler is between Lock and the     *)
(* deferred Unlock.  So no two calls are ever inside the hooks together,   *)
(* and no path (early return, panic, dying process) leaves it locked.      *)
(***************************************************************************)
MutexGuardsHooks ==
    \A c \in Call : pc[c] \in Critical <=> mu = c

\* Everything that happens to the call before a hook is asked.
Parsed(c) ==
    shape[c].url /\ shape[c].uri \in Registered /\ ParseHTTPRequest(c)

(***************************************************************************)
(* What the client of a call receives is the response the hook built for   *)
(* that very call, or a bare error if no hook was asked: never the         *)
(* response of another call and never the 500 of a failed SendResponse.    *)
(***************************************************************************)
OwnAnswer ==
    \A c \in Call :
      wire[c] # None =>
        wire[c] = IF decided[c] # None THEN HookResponse(c, decided[c])
                  ELSE Errored(wire[c].status)

(***************************************************************************)
(* HandleRequest's comment on status codes: once the body is parsed into a *)
(* request the HTTP status is 200, and it is something else otherwise.     *)
(***************************************************************************)
StatusSaysParsed ==
    \A c \in Call :
      wire[c] # None => (wire[c].status = 200 <=> Parsed(c))

(***************************************************************************)
(* "Why would the second one succeed?" asks the TODO in SendResponse.  It  *)
(* never does: a call whose SendResponse recursed has lost its client, is  *)
(* not answered, and can leave the mutex only with the process.            *)
(***************************************************************************)
RetryIsFutile ==
    \A c \in Call :
      depth[c] > 0 => /\ conn[c] = "closed"
                      /\ wire[c] = None
                      /\ mu = c \/ pc[c] = "lost"

(***************************************************************************)
(* The inductive invariant: what is known of a call at each point.  Until  *)
(* it reaches SendResponse nothing is decided or sent; from there on it    *)
(* carries the right response, unless SendResponse failed for it.          *)
(***************************************************************************)
RightResponse(c) ==
    /\ resp[c] \in Response
    /\ resp[c] = IF decided[c] # None THEN HookResponse(c, decided[c])
                 ELSE Errored(resp[c].status)
    /\ resp[c].status = 200 <=> Parsed(c)

CallInv(c) ==
    /\ pc[c] \in {"idle", "lock", "route", "read", "hook", "query", "queried"} =>
         decided[c] = None /\ depth[c] = 0
    /\ pc[c] \in {"read", "hook", "query", "queried"} =>
         shape[c].url /\ shape[c].uri \in Registered
    /\ pc[c] \in {"hook", "query", "queried"} => Parsed(c)
    /\ pc[c] = "send" => resp[c] \in Response
    /\ pc[c] \in {"send", "flush", "done"} /\ depth[c] = 0 => RightResponse(c)
    /\ depth[c] > 0 => pc[c] \in {"send", "lost"} /\ conn[c] = "closed"
    /\ wire[c] # None => pc[c] = "done" /\ depth[c] = 0 /\ wire[c] = resp[c]

IInv == TypeOK /\ MutexGuardsHooks /\ \A c \in Call : CallInv(c)

(***************************************************************************)
(* Every call that reached the server ends: it is answered, its connection *)
(* is aborted by a panic, or it is lost with the process.                  *)
(***************************************************************************)
EveryCallEnds ==
    \A c \in Call : pc[c] = "lock" ~> pc[c] \in Ended

-----------------------------------------------------------------------------
(* The dispatcher implements AdmissionService. *)

StageOf(p) ==
    CASE p = "idle" -> "new"
      [] p = "lock" -> "waiting"
      [] p \in Critical -> "serving"
      [] p = "flush" -> "served"
      [] OTHER -> "over"

Stage == [c \in Call |-> StageOf(pc[c])]

Given == [c \in Call |-> IF pc[c] \in {"flush", "done"} THEN resp[c] ELSE None]

Service == INSTANCE AdmissionService WITH
    stage <- Stage, answer <- Given, received <- wire,
    Answers <- [c \in Call |-> {m \in Response : m.uid \in {c, None}}]

(***************************************************************************)
(* HandleRequest under its mutex is a service that takes one call at a     *)
(* time and gives each call at most one answer, its own.                   *)
(***************************************************************************)
ImplementsService == Service!SSpec
=============================================================================
