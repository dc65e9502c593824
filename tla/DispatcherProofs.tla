--------------------------- MODULE DispatcherProofs ---------------------------
(***************************************************************************)
(* Proofs about Dispatcher, for any number of calls, any registered hooks  *)
(* and any verdicts of theirs.                                             *)
(***************************************************************************)
EXTENDS Dispatcher, TLAPS

\* The responses the handlers build are responses.
LEMMA ResponseTypes ==
    ASSUME NEW c \in Call
    PROVE  /\ \A st \in {200, 400, 404} : Errored(st) \in Response
           /\ \A v \in Verdict \ {"panic"} : HookResponse(c, v) \in Response
  BY DEF Response, Errored, HookResponse, WebhookResponse, Verdict

\* A fresh Dispatcher with no call in it satisfies the invariant.
LEMMA InitInv == Init => IInv
  BY DispatcherAssumption
  DEF Init, IInv, TypeOK, MutexGuardsHooks, CallInv, Critical, InFlight, Ended,
      Parsed

\* What is known of call d survives a step that touches only other calls.
LEMMA Frame ==
    ASSUME NEW d \in Call, CallInv(d),
           pc'[d] = pc[d], shape' = shape, resp'[d] = resp[d],
           depth'[d] = depth[d], conn'[d] \in {conn[d], "closed"},
           wire'[d] = wire[d], decided'[d] = decided[d]
    PROVE  CallInv(d)'
  BY DEF CallInv, RightResponse, Parsed, ParseHTTPRequest, HookResponse,
         WebhookResponse, Errored

\* IInv is inductive: one step per action, and in each the calls the action
\* does not touch are left to Frame.
LEMMA StepInv == IInv /\ [Next]_vars => IInv'
<1> SUFFICES ASSUME IInv, [Next]_vars PROVE IInv'
  OBVIOUS
<1> USE DispatcherAssumption
<1>t. /\ TypeOK
      /\ MutexGuardsHooks
      /\ \A c \in Call : CallInv(c)
  BY DEF IInv
<1>1. ASSUME NEW c \in Call, Receive(c) PROVE IInv'
  <2>1. TypeOK'
    BY <1>1, <1>t DEF Receive, TypeOK, InFlight
  <2>2. MutexGuardsHooks'
    BY <1>1, <1>t DEF Receive, TypeOK, MutexGuardsHooks, Critical
  <2>3. CallInv(c)'
    BY <1>1, <1>t DEF Receive, TypeOK, CallInv
  <2>4. \A d \in Call \ {c} : CallInv(d)'
    BY <1>1, <1>t, Frame DEF Receive, TypeOK
  <2> QED BY <2>1, <2>2, <2>3, <2>4 DEF IInv
<1>2. ASSUME NEW c \in Call, Lock(c) PROVE IInv'
  <2>1. TypeOK'
    BY <1>2, <1>t DEF Lock, TypeOK, InFlight, Critical
  <2>2. MutexGuardsHooks'
    BY <1>2, <1>t DEF Lock, TypeOK, MutexGuardsHooks, Critical
  <2>3. CallInv(c)'
    BY <1>2, <1>t DEF Lock, TypeOK, CallInv
  <2>4. \A d \in Call \ {c} : CallInv(d)'
    BY <1>2, <1>t, Frame DEF Lock, TypeOK
  <2> QED BY <2>1, <2>2, <2>3, <2>4 DEF IInv
<1>3. ASSUME NEW c \in Call, Route(c) PROVE IInv'
  <2>0. /\ mu = c
        /\ pc[c] = "route"
        /\ shape[c] \in Shape
    BY <1>3, <1>t DEF Route, TypeOK, MutexGuardsHooks, Critical
  <2>1. TypeOK'
    BY <1>3, <1>t, ResponseTypes DEF Route, Reply, TypeOK, InFlight, Critical
  <2>2. MutexGuardsHooks'
    BY <1>3, <1>t, <2>0 DEF Route, Reply, TypeOK, MutexGuardsHooks, Critical
  <2>3. CallInv(c)'
    BY <1>3, <1>t, <2>0, ResponseTypes
    DEF Route, Reply, TypeOK, CallInv, RightResponse, Parsed, Errored, Response
  <2>4. \A d \in Call \ {c} : CallInv(d)'
    BY <1>3, <1>t, Frame DEF Route, Reply, TypeOK
  <2> QED BY <2>1, <2>2, <2>3, <2>4 DEF IInv
<1>4. ASSUME NEW c \in Call, ReadAndValidate(c) PROVE IInv'
  <2>0. /\ mu = c
        /\ pc[c] = "read"
        /\ shape[c].url /\ shape[c].uri \in Registered
    BY <1>4, <1>t DEF ReadAndValidate, TypeOK, MutexGuardsHooks, Critical, CallInv
  <2>1. TypeOK'
    BY <1>4, <1>t, ResponseTypes
    DEF ReadAndValidate, Reply, TypeOK, InFlight, Critical
  <2>2. MutexGuardsHooks'
    BY <1>4, <1>t, <2>0
    DEF ReadAndValidate, Reply, TypeOK, MutexGuardsHooks, Critical
  <2>3. CallInv(c)'
    BY <1>4, <1>t, <2>0, ResponseTypes
    DEF ReadAndValidate, Reply, TypeOK, CallInv, RightResponse, Parsed,
        ParseHTTPRequest, Errored, Response
  <2>4. \A d \in Call \ {c} : CallInv(d)'
    BY <1>4, <1>t, Frame DEF ReadAndValidate, Reply, TypeOK
  <2> QED BY <2>1, <2>2, <2>3, <2>4 DEF IInv
<1>5. ASSUME NEW c \in Call, Query(c) \/ QueryReturns(c) PROVE IInv'
  <2>1. TypeOK'
    BY <1>5, <1>t DEF Query, QueryReturns, TypeOK, InFlight, Critical
  <2>2. MutexGuardsHooks'
    BY <1>5, <1>t DEF Query, QueryReturns, TypeOK, MutexGuardsHooks, Critical
  <2>3. CallInv(c)'
    BY <1>5, <1>t
    DEF Query, QueryReturns, TypeOK, CallInv, Parsed, ParseHTTPRequest
  <2>4. \A d \in Call \ {c} : CallInv(d)'
    BY <1>5, <1>t, Frame DEF Query, QueryReturns, TypeOK
  <2> QED BY <2>1, <2>2, <2>3, <2>4 DEF IInv
<1>6. ASSUME NEW c \in Call, Authorized(c) PROVE IInv'
  <2>0. PICK v \in Verdicts[shape[c].uri] \ {"panic"} :
          /\ Reply(c, HookResponse(c, v))
          /\ decided' = [decided EXCEPT ![c] = v]
    BY <1>6 DEF Authorized
  <2>1. /\ v \in Verdict \ {"panic"}
        /\ HookResponse(c, v) \in Response
        /\ HookResponse(c, v).status = 200
        /\ v # None
        /\ Parsed(c)
        /\ depth[c] = 0
        /\ wire[c] = None
    <3>1. pc[c] \in {"hook", "queried"} /\ shape[c].uri \in Registered
      BY <1>6, <1>t DEF Authorized, CallInv
    <3>2. v \in Verdict \ {"panic"}
      BY <3>1
    <3>3. HookResponse(c, v) \in Response
      BY <3>2, ResponseTypes
    <3>4. HookResponse(c, v).status = 200
      BY DEF HookResponse, Errored, WebhookResponse
    <3>5. Parsed(c) /\ depth[c] = 0 /\ wire[c] = None
      BY <3>1, <1>t DEF CallInv
    <3> QED BY <3>2, <3>3, <3>4, <3>5 DEF Verdict
  <2>2. TypeOK'
    BY <2>0, <2>1, <1>t DEF Reply, TypeOK, InFlight, Critical
  <2>3. MutexGuardsHooks'
    BY <1>6, <2>0, <1>t DEF Authorized, Reply, TypeOK, MutexGuardsHooks, Critical
  <2>4. CallInv(c)'
    <3>1. /\ pc'[c] = "send"
          /\ resp'[c] = HookResponse(c, v)
          /\ decided'[c] = v
          /\ shape' = shape /\ depth' = depth /\ conn' = conn /\ wire' = wire
      BY <2>0, <1>t DEF Reply, TypeOK
    <3>2. RightResponse(c)'
      BY <3>1, <2>1 DEF RightResponse, Parsed, ParseHTTPRequest, HookResponse,
                        Errored, WebhookResponse
    <3> QED BY <3>1, <3>2, <2>1 DEF CallInv
  <2>5. \A d \in Call \ {c} : CallInv(d)'
    BY <2>0, <1>t, Frame DEF Reply, TypeOK
  <2> QED BY <2>2, <2>3, <2>4, <2>5 DEF IInv
<1>7. ASSUME NEW c \in Call, Panic(c) PROVE IInv'
  <2>1. TypeOK'
    BY <1>7, <1>t DEF Panic, Unlock, TypeOK, Ended, Verdict
  <2>2. MutexGuardsHooks'
    BY <1>7, <1>t DEF Panic, Unlock, TypeOK, MutexGuardsHooks, Critical
  <2>3. CallInv(c)'
    BY <1>7, <1>t DEF Panic, TypeOK, CallInv
  <2>4. \A d \in Call \ {c} : CallInv(d)'
    BY <1>7, <1>t, Frame DEF Panic, TypeOK
  <2> QED BY <2>1, <2>2, <2>3, <2>4 DEF IInv
<1>8. ASSUME NEW c \in Call, SendResponse(c) PROVE IInv'
  <2>1. TypeOK'
    BY <1>8, <1>t DEF SendResponse, Unlock, TypeOK, InFlight
  <2>2. MutexGuardsHooks'
    BY <1>8, <1>t DEF SendResponse, Unlock, TypeOK, MutexGuardsHooks, Critical
  <2>3. CallInv(c)'
    BY <1>8, <1>t
    DEF SendResponse, TypeOK, CallInv, RightResponse, Parsed, ParseHTTPRequest,
        HookResponse, WebhookResponse, Errored
  <2>4. \A d \in Call \ {c} : CallInv(d)'
    BY <1>8, <1>t, Frame DEF SendResponse, TypeOK
  <2> QED BY <2>1, <2>2, <2>3, <2>4 DEF IInv
<1>9. ASSUME NEW c \in Call, SendResponseAgain(c) PROVE IInv'
  <2>0. resp[c] \in Response /\ Errored(resp[c].status) \in Response
    BY <1>9, <1>t DEF SendResponseAgain, CallInv, Response, Errored, Verdict
  <2>1. TypeOK'
    BY <1>9, <1>t, <2>0 DEF SendResponseAgain, TypeOK
  <2>2. MutexGuardsHooks'
    BY <1>9, <1>t DEF SendResponseAgain, MutexGuardsHooks
  <2>3. CallInv(c)'
    BY <1>9, <1>t, <2>0 DEF SendResponseAgain, TypeOK, CallInv
  <2>4. \A d \in Call \ {c} : CallInv(d)'
    BY <1>9, <1>t, Frame DEF SendResponseAgain, TypeOK
  <2> QED BY <2>1, <2>2, <2>3, <2>4 DEF IInv
<1>10. ASSUME NEW how \in {"exited", "overflowed"}, Die(how) PROVE IInv'
  <2>1. TypeOK'
    BY <1>10, <1>t DEF Die, TypeOK, InFlight, Ended, Critical
  <2>2. MutexGuardsHooks'
    BY <1>10, <1>t DEF Die, TypeOK, MutexGuardsHooks, InFlight, Critical
  <2>3. ASSUME NEW d \in Call PROVE CallInv(d)'
    <3>1. CASE pc[d] \in InFlight
      BY <3>1, <1>10, <1>t DEF Die, TypeOK, CallInv, InFlight, Critical
    <3>2. CASE pc[d] \notin InFlight
      BY <3>2, <1>10, <1>t, Frame DEF Die, TypeOK
    <3> QED BY <3>1, <3>2
  <2> QED BY <2>1, <2>2, <2>3 DEF IInv
<1>11. ASSUME NEW c \in Call, Flush(c) PROVE IInv'
  <2>0. RightResponse(c) /\ depth[c] = 0 /\ resp[c] \in Response
    BY <1>11, <1>t DEF Flush, CallInv, TypeOK, RightResponse
  <2>1. TypeOK'
    BY <1>11, <1>t, <2>0 DEF Flush, TypeOK, Ended
  <2>2. MutexGuardsHooks'
    BY <1>11, <1>t DEF Flush, TypeOK, MutexGuardsHooks, Critical
  <2>3. CallInv(c)'
    BY <1>11, <1>t, <2>0
    DEF Flush, TypeOK, CallInv, RightResponse, Parsed, ParseHTTPRequest,
        HookResponse, WebhookResponse, Errored
  <2>4. \A d \in Call \ {c} : CallInv(d)'
    BY <1>11, <1>t, Frame DEF Flush, TypeOK
  <2> QED BY <2>1, <2>2, <2>3, <2>4 DEF IInv
<1>12. ASSUME NEW c \in Call, HangUp(c) PROVE IInv'
  <2>1. TypeOK'
    BY <1>12, <1>t DEF HangUp, TypeOK
  <2>2. MutexGuardsHooks'
    BY <1>12, <1>t DEF HangUp, MutexGuardsHooks
  <2>3. \A d \in Call : CallInv(d)'
    BY <1>12, <1>t, Frame DEF HangUp, TypeOK
  <2> QED BY <2>1, <2>2, <2>3 DEF IInv
<1>13. ASSUME Restart \/ UNCHANGED vars PROVE IInv'
  <2>1. TypeOK' /\ MutexGuardsHooks'
    BY <1>13, <1>t DEF Restart, vars, TypeOK, MutexGuardsHooks
  <2>2. \A d \in Call : CallInv(d)'
    BY <1>13, <1>t, Frame DEF Restart, vars
  <2> QED BY <2>1, <2>2 DEF IInv
<1> QED
  BY <1>1, <1>2, <1>3, <1>4, <1>5, <1>6, <1>7, <1>8, <1>9, <1>10, <1>11,
     <1>12, <1>13 DEF Next, Handler, StackOverflow, Exit

(***************************************************************************)
(* The inductive invariant, and so type correctness, holds of every        *)
(* behaviour of the dispatcher.                                            *)
(***************************************************************************)
THEOREM Invariance == Spec => []IInv
  BY InitInv, StepInv, PTL DEF Spec

(***************************************************************************)
(* Type correctness of the dispatcher's variables, the bound on the frames *)
(* of SendResponse included.                                               *)
(***************************************************************************)
THEOREM TypeCorrect == Spec => []TypeOK
<1>1. IInv => TypeOK
  BY DEF IInv
<1> QED BY <1>1, Invariance, PTL

(***************************************************************************)
(* The mutex of the dispatcher is held exactly while one handler is        *)
(* between Lock and the deferred Unlock, whatever path the handler takes.  *)
(***************************************************************************)
THEOREM MutexTheorem == Spec => []MutexGuardsHooks
<1>1. IInv => MutexGuardsHooks
  BY DEF IInv
<1> QED BY <1>1, Invariance, PTL

(***************************************************************************)
(* A client never gets anything but the response its own call was given.   *)
(***************************************************************************)
THEOREM OwnAnswerTheorem == Spec => []OwnAnswer
<1>1. IInv => OwnAnswer
  BY DEF IInv, CallInv, RightResponse, OwnAnswer
<1> QED BY <1>1, Invariance, PTL

(***************************************************************************)
(* The comment on HandleRequest: status 200 if and only if the body was    *)
(* parsed into a request for a registered hook.                            *)
(***************************************************************************)
THEOREM StatusTheorem == Spec => []StatusSaysParsed
<1>1. IInv => StatusSaysParsed
  BY DEF IInv, CallInv, RightResponse, StatusSaysParsed
<1> QED BY <1>1, Invariance, PTL

(***************************************************************************)
(* A SendResponse that failed is never followed by one that succeeds.      *)
(***************************************************************************)
THEOREM RetryTheorem == Spec => []RetryIsFutile
<1>1. IInv => RetryIsFutile
  BY DEF IInv, CallInv, TypeOK, RetryIsFutile, MutexGuardsHooks, Critical
<1> QED BY <1>1, Invariance, PTL

-----------------------------------------------------------------------------
(***************************************************************************)
(* The dispatcher implements AdmissionService: its initial states are      *)
(* initial states of the service under the mapping Stage, Given, wire, and *)
(* each of its steps is a step of the service or changes nothing of it.    *)
(***************************************************************************)

\* The stage each point of the handler stands for.
LEMMA StageValues ==
    /\ StageOf("idle") = "new"
    /\ StageOf("lock") = "waiting"
    /\ \A p \in Critical : StageOf(p) = "serving"
    /\ StageOf("flush") = "served"
    /\ \A p \in Ended : StageOf(p) = "over"
  BY DEF StageOf, Critical, Ended

\* A step that moves at most call c changes only c's stage and answer.
LEMMA OthersStay ==
    ASSUME TypeOK, NEW c \in Call, NEW p \in {"idle"} \cup InFlight \cup Ended,
           pc' = [pc EXCEPT ![c] = p],
           \A d \in Call \ {c} : resp'[d] = resp[d]
    PROVE  /\ Stage' = [Stage EXCEPT ![c] = StageOf(p)]
           /\ Given' = [Given EXCEPT ![c] =
                          IF p \in {"flush", "done"} THEN resp'[c] ELSE None]
  BY DEF TypeOK, Given, Stage

\* The same for a step that leaves c without an answer.
LEMMA OthersStayUnanswered ==
    ASSUME TypeOK, NEW c \in Call,
           NEW p \in ({"idle"} \cup InFlight \cup Ended) \ {"flush", "done"},
           pc' = [pc EXCEPT ![c] = p],
           \A d \in Call \ {c} : resp'[d] = resp[d]
    PROVE  /\ Stage' = [Stage EXCEPT ![c] = StageOf(p)]
           /\ Given' = [Given EXCEPT ![c] = None]
  BY OthersStay

\* A fresh Dispatcher is a service that has no call yet.
LEMMA InitRefines == Init => Service!SInit
  BY StageValues DEF Init, Service!SInit, Given, Stage

\* Every step of the dispatcher is a step of the service, or none.
LEMMA StepRefines ==
    IInv /\ [Next]_vars => [Service!SNext]_(Service!svars)
<1> SUFFICES ASSUME IInv, [Next]_vars PROVE [Service!SNext]_(Service!svars)
  OBVIOUS
<1> USE StageValues
<1>t. /\ TypeOK
      /\ MutexGuardsHooks
      /\ \A c \in Call : CallInv(c)
  BY DEF IInv
<1>1. ASSUME NEW c \in Call, Receive(c) PROVE Service!Submit(c)
  <2>1. /\ Stage' = [Stage EXCEPT ![c] = "waiting"]
        /\ Given' = [Given EXCEPT ![c] = None]
    <3>1. /\ "lock" \in ({"idle"} \cup InFlight \cup Ended) \ {"flush", "done"}
          /\ pc' = [pc EXCEPT ![c] = "lock"]
          /\ resp' = resp
      BY <1>1 DEF Receive, InFlight
    <3> QED BY <3>1, <1>t, OthersStayUnanswered
  <2>2. Stage[c] = "new" /\ Given[c] = None /\ wire' = wire
    BY <1>1, <1>t DEF Receive, Stage, Given, TypeOK
  <2>3. Given' = Given
    BY <2>1, <2>2 DEF Given
  <2> QED BY <2>1, <2>2, <2>3 DEF Service!Submit
<1>2. ASSUME NEW c \in Call, Lock(c) PROVE Service!Begin(c)
  <2>1. /\ Stage' = [Stage EXCEPT ![c] = "serving"]
        /\ Given' = [Given EXCEPT ![c] = None]
    <3>1. /\ "route" \in Critical
          /\ "route" \in ({"idle"} \cup InFlight \cup Ended) \ {"flush", "done"}
          /\ pc' = [pc EXCEPT ![c] = "route"]
          /\ resp' = resp
      BY <1>2 DEF Lock, InFlight, Critical
    <3> QED BY <3>1, <1>t, OthersStayUnanswered
  <2>2. Stage[c] = "waiting" /\ Given[c] = None /\ wire' = wire
    BY <1>2, <1>t DEF Lock, Stage, Given, TypeOK
  <2>3. Given' = Given
    BY <2>1, <2>2 DEF Given
  <2>4. ASSUME NEW d \in Call PROVE Stage[d] # "serving"
    <3>1. pc[d] \notin Critical
      BY <1>2, <1>t, DispatcherAssumption DEF Lock, MutexGuardsHooks
    <3> QED BY <3>1, <1>t DEF Stage, TypeOK, InFlight
  <2> QED BY <2>1, <2>2, <2>3, <2>4 DEF Service!Begin
\* The steps of a handler that keep the mutex change nothing of the service.
<1>3. ASSUME NEW c \in Call,
             \/ Route(c) \/ ReadAndValidate(c) \/ Query(c) \/ QueryReturns(c)
             \/ Authorized(c) \/ SendResponseAgain(c)
      PROVE  UNCHANGED <<Stage, Given, wire>>
  <2>1. PICK p \in Critical : pc' = [pc EXCEPT ![c] = p]
    BY <1>3, <1>t
    DEF Route, ReadAndValidate, Query, QueryReturns, Authorized, Reply,
        SendResponseAgain, TypeOK, Critical
  <2>2. \A d \in Call \ {c} : resp'[d] = resp[d]
    BY <1>3, <1>t
    DEF Route, ReadAndValidate, Query, QueryReturns, Authorized, Reply,
        SendResponseAgain, TypeOK
  <2>3. pc[c] \in Critical /\ wire' = wire
    BY <1>3
    DEF Route, ReadAndValidate, Query, QueryReturns, Authorized, Reply,
        SendResponseAgain, Critical
  <2>4. /\ Stage' = [Stage EXCEPT ![c] = "serving"]
        /\ Given' = [Given EXCEPT ![c] = None]
    <3>1. p \in ({"idle"} \cup InFlight \cup Ended) \ {"flush", "done"}
      BY DEF InFlight, Critical
    <3> QED BY <3>1, <2>1, <2>2, <1>t, OthersStayUnanswered
  <2>5. Stage[c] = "serving" /\ Given[c] = None
    BY <2>3 DEF Stage, Given, Critical
  <2>6. Stage' = Stage
    BY <2>4, <2>5, Zenon DEF Stage
  <2>7. Given' = Given
    BY <2>4, <2>5, Zenon DEF Given
  <2> QED BY <2>3, <2>6, <2>7
<1>4. ASSUME NEW c \in Call, Panic(c) PROVE Service!Drop({c})
  <2>1. /\ Stage' = [Stage EXCEPT ![c] = "over"]
        /\ Given' = [Given EXCEPT ![c] = None]
    <3>1. /\ "aborted" \in Ended
          /\ "aborted" \in ({"idle"} \cup InFlight \cup Ended) \ {"flush", "done"}
          /\ pc' = [pc EXCEPT ![c] = "aborted"]
          /\ resp' = resp
      BY <1>4 DEF Panic, Ended
    <3> QED BY <3>1, <1>t, OthersStayUnanswered
  <2>2. Stage[c] = "serving" /\ wire' = wire
    BY <1>4 DEF Panic, Stage, Critical
  <2> QED BY <2>1, <2>2 DEF Service!Drop, Stage, Given
<1>5. ASSUME NEW c \in Call, SendResponse(c) PROVE Service!Finish(c)
  <2>1. /\ Stage' = [Stage EXCEPT ![c] = "served"]
        /\ Given' = [Given EXCEPT ![c] = resp[c]]
    BY <1>5, <1>t, OthersStay DEF SendResponse, InFlight
  <2>2. Stage[c] = "serving" /\ wire' = wire
    BY <1>5 DEF SendResponse, Stage, Critical
  <2>3. resp[c] \in Response /\ resp[c].uid \in {c, None}
    <3>1. RightResponse(c)
      BY <1>5, <1>t DEF SendResponse, CallInv
    <3>2. \A v : HookResponse(c, v).uid \in {c, None}
      BY DEF HookResponse, Errored, WebhookResponse
    <3>3. \A st : Errored(st).uid = None
      BY DEF Errored
    <3> QED BY <3>1, <3>2, <3>3 DEF RightResponse
  <2> QED BY <2>1, <2>2, <2>3 DEF Service!Finish
<1>6. ASSUME NEW c \in Call, Flush(c) PROVE Service!Deliver(c)
  <2>1. /\ Stage' = [Stage EXCEPT ![c] = "over"]
        /\ Given' = [Given EXCEPT ![c] = resp[c]]
    BY <1>6, <1>t, OthersStay DEF Flush, Ended
  <2>2. Stage[c] = "served" /\ Given[c] = resp[c] /\ wire[c] = None
    BY <1>6, <1>t DEF Flush, Stage, Given, CallInv
  <2>3. Given' = Given
    BY <2>1, <2>2 DEF Given
  <2>4. wire' \in {wire, [wire EXCEPT ![c] = Given[c]]}
    BY <1>6, <1>t, <2>2 DEF Flush, TypeOK
  <2> QED BY <2>1, <2>2, <2>3, <2>4 DEF Service!Deliver
<1>7. ASSUME NEW how, Die(how)
      PROVE  Service!Drop({c \in Call : pc[c] \in InFlight})
  <2> DEFINE D == {c \in Call : pc[c] \in InFlight}
  <2>1. \A c \in D : Stage[c] \in {"waiting", "serving", "served"}
    BY DEF Stage, InFlight
  <2>2. Stage' = [c \in Call |-> IF c \in D THEN "over" ELSE Stage[c]]
    BY <1>7 DEF Die, Stage, Ended
  <2>3. Given' = [c \in Call |-> IF c \in D THEN None ELSE Given[c]]
    BY <1>7 DEF Die, Given, InFlight
  <2> QED BY <1>7, <2>1, <2>2, <2>3 DEF Die, Service!Drop
<1>8. ASSUME \/ \E c \in Call : HangUp(c)
             \/ Restart
             \/ UNCHANGED vars
      PROVE  UNCHANGED <<Stage, Given, wire>>
  BY <1>8 DEF HangUp, Restart, vars, Stage, Given
<1> QED
  <2>1. CASE \E c \in Call : Receive(c) \/ Lock(c) \/ SendResponse(c) \/ Flush(c)
    BY <2>1, <1>1, <1>2, <1>5, <1>6 DEF Service!SNext
  <2>2. CASE \E c \in Call : Panic(c)
    BY <2>2, <1>4 DEF Service!SNext
  <2>3. CASE \E how : Die(how)
    BY <2>3, <1>7 DEF Service!SNext
  <2>4. CASE UNCHANGED <<Stage, Given, wire>>
    BY <2>4 DEF Service!svars
  <2> QED
    BY <2>1, <2>2, <2>3, <2>4, <1>3, <1>8 DEF Next, Handler, StackOverflow, Exit

(***************************************************************************)
(* HandleRequest under its mutex implements the one-at-a-time service, for *)
(* any number of concurrent calls.                                         *)
(***************************************************************************)
THEOREM Refinement == Spec => ImplementsService
<1>1. Init => Service!SInit
  BY InitRefines
<1>2. IInv /\ [Next]_vars => [Service!SNext]_(Service!svars)
  BY StepRefines
<1> QED
  BY <1>1, <1>2, Invariance, PTL DEF Spec, ImplementsService, Service!SSpec

-----------------------------------------------------------------------------
(* Calls go forward only. *)

\* How many steps call c can still take.
Left(c) ==
    CASE pc[c] = "idle" -> MaxDepth + 9
      [] pc[c] = "lock" -> MaxDepth + 8
      [] pc[c] = "route" -> MaxDepth + 7
      [] pc[c] = "read" -> MaxDepth + 6
      [] pc[c] = "hook" -> MaxDepth + 5
      [] pc[c] = "query" -> MaxDepth + 4
      [] pc[c] = "queried" -> MaxDepth + 3
      [] pc[c] = "send" -> MaxDepth + 2 - depth[c]
      [] pc[c] = "flush" -> 1
      [] OTHER -> 0

\* A step of the goroutine of call c, its waits included.
Runs(c) == Receive(c) \/ Lock(c) \/ Handler(c) \/ QueryReturns(c)

(***************************************************************************)
(* No step of any call, client or process takes a call back, and each step *)
(* of its goroutine brings it closer to its end, the steps in which        *)
(* SendResponse calls itself included.                                     *)
(***************************************************************************)
NoCallGoesBack ==
    \A c \in Call : /\ Left(c)' \in 0..Left(c)
                    /\ Runs(c) => Left(c)' < Left(c)

\* Left counts down to zero from what the stack can hold.
LEMMA LeftTyped ==
    ASSUME TypeOK, NEW c \in Call
    PROVE  Left(c) \in Nat /\ Left(c) <= MaxDepth + 9
  BY DispatcherAssumption DEF TypeOK, Left, InFlight, Critical, Ended

\* What a step of the goroutine of c does to c.
LEMMA RunsForward ==
    ASSUME TypeOK, TypeOK', NEW c \in Call, CallInv(c), Runs(c)
    PROVE  Left(c)' < Left(c)
<1> USE DispatcherAssumption
<1>1. CASE Receive(c) \/ Lock(c) \/ QueryReturns(c)
  BY <1>1 DEF Receive, Lock, QueryReturns, TypeOK, Left
<1>2. CASE Route(c) \/ ReadAndValidate(c) \/ Query(c)
  BY <1>2 DEF Route, ReadAndValidate, Query, Reply, TypeOK, CallInv, Left
<1>3. CASE Authorized(c) \/ Panic(c)
  BY <1>3 DEF Authorized, Panic, Reply, TypeOK, CallInv, Left
<1>4. CASE SendResponse(c) \/ SendResponseAgain(c)
  BY <1>4 DEF SendResponse, SendResponseAgain, TypeOK, Left
<1>5. CASE StackOverflow(c) \/ Flush(c)
  BY <1>5 DEF StackOverflow, Die, Flush, TypeOK, InFlight, Critical, Left
<1> QED BY <1>1, <1>2, <1>3, <1>4, <1>5 DEF Runs, Handler

\* What it does to the others: nothing, unless it takes the process with it.
LEMMA OthersForward ==
    ASSUME TypeOK, NEW c \in Call, NEW d \in Call \ {c}, Runs(c)
    PROVE  Left(d)' = Left(d) \/ Left(d)' = 0
<1>1. CASE StackOverflow(c)
  BY <1>1 DEF StackOverflow, Die, TypeOK, Left
<1>2. CASE ~StackOverflow(c)
  <2>1. pc'[d] = pc[d] /\ depth'[d] = depth[d]
    <3>1. /\ pc \in [Call -> {"idle"} \cup InFlight \cup Ended]
          /\ depth \in [Call -> 0..MaxDepth]
      BY DEF TypeOK
    <3>2. CASE Receive(c) \/ Lock(c) \/ QueryReturns(c) \/ Query(c) \/ Panic(c) \/ Flush(c)
      BY <3>1, <3>2 DEF Receive, Lock, QueryReturns, Query, Panic, Flush
    <3>3. CASE Route(c) \/ ReadAndValidate(c) \/ Authorized(c)
      BY <3>1, <3>3 DEF Route, ReadAndValidate, Authorized, Reply
    <3>4. CASE SendResponse(c) \/ SendResponseAgain(c)
      BY <3>1, <3>4 DEF SendResponse, SendResponseAgain
    <3> QED BY <1>2, <3>2, <3>3, <3>4 DEF Runs, Handler
  <2> QED BY <2>1 DEF Left
<1> QED BY <1>1, <1>2

(***************************************************************************)
(* Calls go forward only (NoCallGoesBack), and from Receive on a call      *)
(* takes at most nine steps and the frames of a stack: the half of         *)
(* EveryCallEnds that does not depend on fairness.                         *)
(***************************************************************************)
THEOREM Forward == Spec => [][NoCallGoesBack]_vars
<1>1. IInv /\ IInv' /\ [Next]_vars => [NoCallGoesBack]_vars
  <2> SUFFICES ASSUME IInv, IInv', Next, NEW d \in Call
               PROVE  /\ Left(d)' \in 0..Left(d)
                      /\ Runs(d) => Left(d)' < Left(d)
    BY DEF NoCallGoesBack
  <2>t. TypeOK /\ TypeOK' /\ CallInv(d)
    BY DEF IInv
  <2>1. Left(d) \in Nat /\ Left(d)' \in Nat
    <3>1. Left(d) \in Nat
      BY <2>t, LeftTyped
    <3>2. Left(d)' \in Nat
      BY <2>t, DispatcherAssumption DEF TypeOK, Left, InFlight, Critical, Ended
    <3> QED BY <3>1, <3>2
  <2>2. Runs(d) => Left(d)' < Left(d)
    BY <2>t, RunsForward
  <2>3. ASSUME NEW c \in Call \ {d}, Runs(c) PROVE Left(d)' = Left(d) \/ Left(d)' = 0
    BY <2>t, <2>3, OthersForward
  <2>4. CASE Exit \/ Restart \/ \E c \in Call : HangUp(c)
    <3>1. Left(d)' = Left(d) \/ Left(d)' = 0
      BY <2>4, <2>t DEF Exit, Die, Restart, HangUp, TypeOK, Left
    <3> QED BY <3>1, <2>1, <2>2
  <2>5. CASE \E c \in Call : Runs(c)
    BY <2>1, <2>2, <2>3, <2>5
  <2> QED BY <2>4, <2>5 DEF Next, Runs
<1> QED BY <1>1, Invariance, PTL DEF Spec
=============================================================================
