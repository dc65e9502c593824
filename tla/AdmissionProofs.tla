---------------------------- MODULE AdmissionProofs ----------------------------
(***************************************************************************)
(* Proofs about Admission, for any number of calls, any registered hooks   *)
(* and any verdicts of theirs: the dispatcher's theorems hold of the whole *)
(* system, and so do those of main(), and with them what the API server    *)
(* makes of a call is right.                                               *)
(***************************************************************************)
EXTENDS Admission, DispatcherProofs, TLAPS

\* A step of the system is a step of the dispatcher, or leaves it alone.
LEMMA StepIsDispatcher == [SysNext]_sysvars => [Next]_vars
  BY DEF SysNext, sysvars, Next, Handler, Arrive, Inside, Leave, HookPanics,
         Overflow, TimeOut, Refused, Settle, MainExits, MainRuns, StartedAgain,
         Main!Starting, Main!Signal, Exit

(***************************************************************************)
(* The system contains the dispatcher: whatever main(), the container      *)
(* runtime and the API server do, its invariant holds.                     *)
(***************************************************************************)
THEOREM SystemRunsDispatcher == SysSpec => Spec /\ []IInv
<1>1. SysInit => Init
  BY DEF SysInit
<1> QED
  BY <1>1, StepIsDispatcher, Invariance, PTL DEF SysSpec, Spec

\* What a step of main() does to its own variables.
LEMMA MainStepTypes ==
    ASSUME Main!MainTypeOK, [SysNext]_sysvars PROVE Main!MainTypeOK'
<1> USE DEF Main!MainTypeOK, Main!Gone, Main!boot, active
<1>1. CASE UNCHANGED <<life, setup>>
  BY <1>1 DEF setup
<1>2. CASE Main!Starting
  BY <1>2 DEF Main!Starting, Main!RegisterHook, Main!RegistrationDone,
              Main!StartServing
<1>3. CASE Main!Signal \/ Main!ServerFailed \/ Main!Crash \/ Main!DrainAborted
           \/ Main!Drained \/ Main!StartAgain
  BY <1>3 DEF Main!Signal, Main!ServerFailed, Main!Crash, Main!DrainAborted,
              Main!Drained, Main!StartAgain
<1>4. CASE \E c \in Call : Main!Accept(c) \/ Main!Return(c)
  BY <1>4 DEF Main!Accept, Main!Return
<1> QED
  BY <1>1, <1>2, <1>3, <1>4
  DEF SysNext, sysvars, Arrive, Inside, Leave, HookPanics, Overflow, TimeOut,
      Refused, Settle, MainExits, MainRuns, StartedAgain, setup

\* What the API server knows of call d survives what happens to other calls.
LEMMA SideFrame ==
    ASSUME NEW d \in Call, SideInv(d),
           pc'[d] = pc[d], shape' = shape, conn'[d] = conn[d],
           wire'[d] = wire[d], decided'[d] = decided[d],
           outcome'[d] = outcome[d], cause'[d] = cause[d]
    PROVE  SideInv(d)'
  BY DEF SideInv, Admits, Accepted

\* A step under the mutex moves its own call, to another place in flight.
LEMMA InsideMoves ==
    ASSUME IInv, NEW c \in Call, Inside(c)
    PROVE  /\ pc[c] \in InFlight \ {"flush"}
           /\ pc'[c] \in InFlight
           /\ \A e \in Call \ {c} : pc'[e] = pc[e] /\ decided'[e] = decided[e]
           /\ UNCHANGED <<shape, conn, wire, outcome, cause>>
<1> DEFINE Moves == /\ pc[c] \in InFlight \ {"flush"}
                    /\ pc'[c] \in InFlight
                    /\ \A e \in Call \ {c} : pc'[e] = pc[e] /\ decided'[e] = decided[e]
                    /\ UNCHANGED <<shape, conn, wire>>
<1> USE DEF InFlight, Critical
<1>t. /\ pc \in [Call -> {"idle"} \cup InFlight \cup Ended]
      /\ decided \in [Call -> Verdict \cup {None}]
  BY DEF IInv, TypeOK
<1>1. ASSUME Lock(c) \/ Query(c) \/ QueryReturns(c) PROVE Moves
  BY <1>1, <1>t DEF Lock, Query, QueryReturns
<1>2. ASSUME Route(c) PROVE Moves
  BY <1>2, <1>t DEF Route, Reply
<1>3. ASSUME ReadAndValidate(c) PROVE Moves
  BY <1>3, <1>t DEF ReadAndValidate, Reply
<1>4. ASSUME Authorized(c) PROVE Moves
  BY <1>4, <1>t DEF Authorized, Reply
<1>5. ASSUME SendResponse(c) \/ SendResponseAgain(c) PROVE Moves
  BY <1>5, <1>t DEF SendResponse, SendResponseAgain
<1>6. Moves
  BY <1>1, <1>2, <1>3, <1>4, <1>5 DEF Inside
<1> QED BY <1>6 DEF Inside

\* A handler's step under the mutex matters to no one outside.
LEMMA InsideKeeps ==
    ASSUME IInv, SysInv, NEW c \in Call, Inside(c), NEW d \in Call
    PROVE  SideInv(d)'
<1>1. /\ pc[c] \in InFlight \ {"flush"}
      /\ pc'[c] \in InFlight
      /\ \A e \in Call \ {c} : pc'[e] = pc[e] /\ decided'[e] = decided[e]
      /\ UNCHANGED <<shape, conn, wire, outcome, cause>>
  BY InsideMoves
<1>2. CASE d = c
  BY <1>1, <1>2 DEF SysInv, SideInv, Admits, Accepted, InFlight, Critical
<1>3. CASE d # c
  BY <1>1, <1>3, SideFrame DEF SysInv
<1> QED BY <1>2, <1>3


\* Before any call, with main() at its first line, the invariant holds.
LEMMA SysInitInv == SysInit => SysInv /\ Main!MainTypeOK
  BY AdmissionAssumption DEF Causes, Outcomes, SysInit, Init, Main!MainInit, Main!MainTypeOK, Main!Gone, SysInv,
         SideTypeOK, SideInv, active

\* The end of the process costs every open connection, for a cause that is
\* not exit status 0 unless there is no open connection.
LEMMA CutKeeps ==
    ASSUME IInv, SysInv, NEW how, Die(how), NEW what \in Causes \ {"refused", "panic"},
           Cut(what), UNCHANGED outcome,
           what = "exit0" => \A c \in Call : conn[c] = "closed"
    PROVE  SysInv'
<1>1. SideTypeOK'
  BY DEF SysInv, SideTypeOK, Cut
<1>2. ASSUME NEW d \in Call PROVE SideInv(d)'
  <2>1. /\ conn'[d] = "closed"
        /\ cause'[d] = IF conn[d] = "open" THEN what ELSE cause[d]
        /\ pc'[d] = IF pc[d] \in InFlight THEN "lost" ELSE pc[d]
        /\ UNCHANGED <<shape, wire, decided, outcome>>
    BY DEF Die, Cut
  <2>2. CASE conn[d] = "open"
    <3>1. pc[d] \in InFlight /\ outcome[d] = None /\ what # "exit0"
      BY <2>2 DEF SysInv, SideInv
    <3>2. wire[d] = None
      BY <3>1 DEF IInv, CallInv, InFlight, Critical
    <3> QED BY <2>1, <2>2, <3>1, <3>2, AdmissionAssumption DEF SideInv
  <2>3. CASE conn[d] = "closed"
    BY <2>1, <2>3 DEF SysInv, SideInv, Admits, Accepted, InFlight, Critical
  <2> QED BY <2>2, <2>3 DEF IInv, TypeOK
<1> QED BY <1>1, <1>2 DEF SysInv

\* SysInv is inductive relative to IInv: one step per action of the system.
LEMMA SysStepInv == IInv /\ SysInv /\ [SysNext]_sysvars => SysInv'
<1> SUFFICES ASSUME IInv, SysInv, [SysNext]_sysvars PROVE SysInv'
  OBVIOUS
<1> USE AdmissionAssumption
<1>1. ASSUME NEW c \in Call, Inside(c) PROVE SysInv'
  <2>1. SideTypeOK'
    BY <1>1 DEF Inside, SysInv, SideTypeOK
  <2> QED BY <1>1, <2>1, InsideKeeps DEF SysInv
<1>2. ASSUME NEW c \in Call, Arrive(c) PROVE SysInv'
  <2>1. SideTypeOK'
    BY <1>2 DEF Arrive, SysInv, SideTypeOK
  <2>2. SideInv(c)'
    BY <1>2 DEF Arrive, Receive, SysInv, SideInv, IInv, TypeOK, CallInv, InFlight,
                Causes
  <2>3. \A d \in Call \ {c} : SideInv(d)'
    BY <1>2, SideFrame DEF Arrive, Receive, SysInv, IInv, TypeOK
  <2> QED BY <2>1, <2>2, <2>3 DEF SysInv
<1>3. ASSUME NEW c \in Call, Leave(c) PROVE SysInv'
  <2>0. resp[c] # None /\ wire[c] = None
    BY <1>3, DispatcherAssumption
    DEF Leave, Flush, IInv, CallInv, RightResponse, TypeOK
  <2>1. SideTypeOK'
    BY <1>3 DEF Leave, SysInv, SideTypeOK
  <2>2. SideInv(c)'
    <3>1. /\ pc[c] = "flush" /\ pc'[c] = "done" /\ conn'[c] = "closed"
          /\ conn[c] \in {"open", "closed"}
          /\ wire'[c] = IF conn[c] = "open" THEN resp[c] ELSE None
          /\ UNCHANGED <<shape, decided, outcome, cause>>
      BY <1>3 DEF Leave, Flush, IInv, TypeOK
    <3>2. SideInv(c)
      BY DEF SysInv
    <3>3. CASE conn[c] = "open"
      BY <2>0, <3>1, <3>2, <3>3 DEF SideInv
    <3>4. CASE conn[c] = "closed"
      BY <2>0, <3>1, <3>2, <3>4 DEF SideInv, Admits, Accepted
    <3> QED BY <3>1, <3>3, <3>4
  <2>3. \A d \in Call \ {c} : SideInv(d)'
    BY <1>3, SideFrame DEF Leave, Flush, SysInv, IInv, TypeOK
  <2> QED BY <2>1, <2>2, <2>3 DEF SysInv
<1>4. ASSUME NEW c \in Call, HookPanics(c) PROVE SysInv'
  <2>0. wire[c] = None /\ pc[c] \in {"hook", "queried"}
    BY <1>4 DEF HookPanics, Panic, IInv, CallInv
  <2>1. SideTypeOK'
    BY <1>4 DEF HookPanics, SysInv, SideTypeOK, Causes
  <2>2. SideInv(c)'
    BY <1>4, <2>0
    DEF HookPanics, Panic, SysInv, SideInv, SideTypeOK, Admits, Accepted, IInv,
        TypeOK, Causes
  <2>3. \A d \in Call \ {c} : SideInv(d)'
    BY <1>4, SideFrame DEF HookPanics, Panic, SysInv, SideTypeOK, IInv, TypeOK
  <2> QED BY <2>1, <2>2, <2>3 DEF SysInv
<1>5. ASSUME NEW c \in Call, TimeOut(c) PROVE SysInv'
  <2>0. wire[c] = None
    BY <1>5 DEF TimeOut, HangUp, IInv, CallInv, InFlight, Critical
  <2>1. SideTypeOK'
    BY <1>5 DEF TimeOut, SysInv, SideTypeOK, Causes
  <2>2. SideInv(c)'
    BY <1>5, <2>0
    DEF TimeOut, HangUp, SysInv, SideInv, SideTypeOK, Admits, Accepted, IInv,
        TypeOK, Causes, InFlight, Critical
  <2>3. \A d \in Call \ {c} : SideInv(d)'
    BY <1>5, SideFrame DEF TimeOut, HangUp, SysInv, SideTypeOK, IInv, TypeOK
  <2> QED BY <2>1, <2>2, <2>3 DEF SysInv
<1>6. ASSUME NEW c \in Call, Refused(c) PROVE SysInv'
  <2>0. conn[c] = "closed" /\ outcome[c] = None /\ wire[c] = None
    BY <1>6
    DEF Refused, SysInv, SideInv, IInv, TypeOK, CallInv, InFlight, Critical,
        Causes
  <2>1. SideTypeOK'
    BY <1>6 DEF Refused, SysInv, SideTypeOK, Causes
  <2>2. SideInv(c)'
    BY <1>6, <2>0 DEF Refused, vars, SideInv, SysInv, SideTypeOK
  <2>3. \A d \in Call \ {c} : SideInv(d)'
    BY <1>6, SideFrame DEF Refused, vars, SysInv, SideTypeOK
  <2> QED BY <2>1, <2>2, <2>3 DEF SysInv
<1>7. ASSUME NEW c \in Call, Settle(c) PROVE SysInv'
  <2>1. SideTypeOK'
    BY <1>7 DEF Settle, SysInv, SideTypeOK, Outcomes
  <2>2. SideInv(c)'
    BY <1>7
    DEF Settle, vars, SysInv, SideInv, SideTypeOK, Admits, Accepted, Outcomes
  <2>3. \A d \in Call \ {c} : SideInv(d)'
    BY <1>7, SideFrame DEF Settle, vars, SysInv, SideTypeOK
  <2> QED BY <2>1, <2>2, <2>3 DEF SysInv
<1>8. ASSUME NEW c \in Call, Overflow(c) PROVE SysInv'
  BY <1>8, CutKeeps DEF Overflow, StackOverflow, Causes
<1>9. ASSUME MainExits PROVE SysInv'
  <2>1. CASE Main!Drained /\ Cut("exit0")
    <3>1. \A c \in Call : conn[c] = "closed"
      BY <2>1 DEF Main!Drained, active, SysInv, SideInv, IInv, TypeOK
    <3> QED BY <1>9, <2>1, <3>1, CutKeeps DEF MainExits, Exit, Causes
  <2>2. CASE Cut("exit1")
    BY <1>9, <2>2, CutKeeps DEF MainExits, Exit, Causes
  <2> QED BY <1>9, <2>1, <2>2 DEF MainExits
<1>10. ASSUME MainRuns \/ StartedAgain \/ UNCHANGED sysvars PROVE SysInv'
  <2>1. UNCHANGED <<pc, shape, conn, wire, decided, outcome, cause>>
    BY <1>10 DEF MainRuns, StartedAgain, sysvars, vars, Restart
  <2> QED BY <2>1, SideFrame DEF SysInv, SideTypeOK
<1> QED
  BY <1>1, <1>2, <1>3, <1>4, <1>5, <1>6, <1>7, <1>8, <1>9, <1>10 DEF SysNext

(***************************************************************************)
(* Both inductive invariants hold of the server together with main() and   *)
(* the API server.                                                         *)
(***************************************************************************)
THEOREM SysInvariance == SysSpec => [](IInv /\ SysInv)
  BY SysInitInv, SysStepInv, SystemRunsDispatcher, PTL DEF SysSpec


\* A response that the API server accepts carries the hook's own decision.
LEMMA AcceptedIsDecided ==
    ASSUME IInv, NEW c \in Call, Accepted(c)
    PROVE  /\ decided[c] \notin {None, "errorNoUID"}
           /\ wire[c].verdict = decided[c]
<1>1. wire[c] # None /\ wire[c].uid = c /\ c # None
  BY DispatcherAssumption DEF Accepted
<1>2. wire[c] = IF decided[c] # None THEN HookResponse(c, decided[c])
                ELSE Errored(wire[c].status)
  <2>1. CallInv(c)
    BY DEF IInv
  <2>2. pc[c] = "done" /\ depth[c] = 0 /\ wire[c] = resp[c]
    BY <1>1, <2>1 DEF CallInv
  <2>3. RightResponse(c)
    BY <2>1, <2>2 DEF CallInv
  <2> QED BY <2>2, <2>3 DEF RightResponse
<1>3. \A st : Errored(st).uid = None
  BY DEF Errored
<1>4. decided[c] # None /\ wire[c] = HookResponse(c, decided[c])
  BY <1>1, <1>2, <1>3
<1>5. decided[c] # "errorNoUID"
  BY <1>1, <1>3, <1>4 DEF HookResponse
<1> QED BY <1>4, <1>5 DEF HookResponse, WebhookResponse

\* Conversely, a decision that was received is accepted.
LEMMA DecidedIsAccepted ==
    ASSUME IInv, NEW c \in Call, wire[c] # None,
           decided[c] \in Verdict \ {"errorNoUID"}
    PROVE  Accepted(c) /\ wire[c].verdict = decided[c]
<1>1. wire[c] = HookResponse(c, decided[c])
  <2>1. CallInv(c)
    BY DEF IInv
  <2>2. pc[c] = "done" /\ depth[c] = 0 /\ wire[c] = resp[c]
    BY <2>1 DEF CallInv
  <2>3. RightResponse(c)
    BY <2>1, <2>2 DEF CallInv
  <2>4. decided[c] # None
    BY DispatcherAssumption
  <2> QED BY <2>2, <2>3, <2>4 DEF RightResponse
<1> QED BY <1>1 DEF Accepted, HookResponse, WebhookResponse

(***************************************************************************)
(* Type correctness of dispatcher, main() and API server together.         *)
(***************************************************************************)
THEOREM SysTypeCorrect == SysSpec => []SysTypeOK
<1>1. SysInit => Main!MainTypeOK
  BY SysInitInv
<1>2. Main!MainTypeOK /\ [SysNext]_sysvars => Main!MainTypeOK'
  BY MainStepTypes
<1>3. IInv /\ SysInv /\ Main!MainTypeOK => SysTypeOK
  BY DEF IInv, SysInv, SysTypeOK
<1> QED BY <1>1, <1>2, <1>3, SysInvariance, PTL DEF SysSpec

(***************************************************************************)
(* FailurePolicy Fail fails closed.                                        *)
(***************************************************************************)
THEOREM FailClosedTheorem == SysSpec => []FailClosed
<1>1. ASSUME IInv, SysInv, NEW c \in Call, outcome[c] = "admitted",
             Policy[shape[c].uri] = "Fail"
      PROVE  decided[c] \in {"allow", "patch"}
  <2>1. Accepted(c) /\ wire[c].verdict \in {"allow", "patch"}
    BY <1>1, AdmissionAssumption DEF SysInv, SideInv, Admits, Outcomes
  <2> QED BY <1>1, <2>1, AcceptedIsDecided
<1>2. IInv /\ SysInv => FailClosed
  BY <1>1 DEF FailClosed
<1> QED BY <1>2, SysInvariance, PTL

(***************************************************************************)
(* FailurePolicy Ignore blocks nothing that the hook did not decide on.    *)
(***************************************************************************)
THEOREM OutageTheorem == SysSpec => []OutageBlocksNothing
<1>1. ASSUME IInv, SysInv, NEW c \in Call, outcome[c] = "rejected",
             Policy[shape[c].uri] = "Ignore"
      PROVE  decided[c] \in {"deny", "error"}
  <2>1. Accepted(c) /\ wire[c].verdict \notin {"allow", "patch"}
    BY <1>1, AdmissionAssumption DEF SysInv, SideInv, Admits, Outcomes
  <2>2. wire[c].verdict = decided[c] /\ wire[c] \in Response
    BY <1>1, <2>1, AcceptedIsDecided DEF IInv, TypeOK, Accepted
  <2> QED BY <2>1, <2>2 DEF Response, Verdict
<1>2. IInv /\ SysInv => OutageBlocksNothing
  BY <1>1 DEF OutageBlocksNothing
<1> QED BY <1>2, SysInvariance, PTL

(***************************************************************************)
(* A denial is overridden only by a timeout or the end of the process.     *)
(***************************************************************************)
THEOREM DenialTheorem == SysSpec => []DenialLostOnlyToTimeoutOrExit
<1>1. ASSUME IInv, SysInv, NEW c \in Call, outcome[c] = "admitted",
             decided[c] = "deny"
      PROVE  /\ Policy[shape[c].uri] = "Ignore"
             /\ cause[c] \in {"timeout", "crash", "exit1"}
  <2>1. ~Accepted(c) /\ Policy[shape[c].uri] = "Ignore"
    BY <1>1, AcceptedIsDecided, AdmissionAssumption
    DEF SysInv, SideInv, Admits, Outcomes
  <2>2. wire[c] = None
    BY <1>1, <2>1, DecidedIsAccepted DEF Verdict
  <2>3. pc[c] # "idle"
    BY <1>1, DispatcherAssumption DEF IInv, CallInv, Verdict
  <2>4. cause[c] # None /\ cause[c] \notin {"refused", "panic", "exit0"}
    BY <1>1, <2>2, <2>3, AdmissionAssumption DEF SysInv, SideInv, Outcomes
  <2> QED BY <1>1, <2>1, <2>4 DEF SysInv, SideTypeOK, Causes
<1>2. IInv /\ SysInv => DenialLostOnlyToTimeoutOrExit
  BY <1>1 DEF DenialLostOnlyToTimeoutOrExit
<1> QED BY <1>2, SysInvariance, PTL

(***************************************************************************)
(* Exit status 0 after a drain has cost no call its connection.            *)
(***************************************************************************)
THEOREM DrainTheorem == SysSpec => []DrainCutsNoCall
<1>1. IInv /\ SysInv => DrainCutsNoCall
  BY DEF SysInv, SideInv, DrainCutsNoCall
<1> QED BY <1>1, SysInvariance, PTL

(***************************************************************************)
(* A late answer is dropped.                                               *)
(***************************************************************************)
THEOREM LateAnswerTheorem == SysSpec => []LateAnswerIsDropped
<1>1. IInv /\ SysInv => LateAnswerIsDropped
  BY DEF SysInv, SideInv, LateAnswerIsDropped
<1> QED BY <1>1, SysInvariance, PTL

-----------------------------------------------------------------------------
(* The process by itself, and inside the system. *)

\* What Server shows of main() by itself: MainInv is inductive and says enough.
LEMMA MainInductive ==
    /\ Main!MainInit => Main!MainInv
    /\ Main!MainInv => Main!ServesUniqueURIs
    /\ Main!MainInv /\ [Main!MainNext]_(Main!mainvars) => Main!MainInv'
  BY Main!MainStepInv, Main!MainInvServes

\* A step of the system is a step of main(), or leaves it alone.
LEMMA StepIsMain ==
    ASSUME IInv, [SysNext]_sysvars PROVE [Main!MainNext]_(Main!mainvars)
<1>1. ASSUME NEW c \in Call, Inside(c) PROVE UNCHANGED Main!mainvars
  <2>1. /\ pc[c] \in InFlight /\ pc'[c] \in InFlight
        /\ \A e \in Call \ {c} : pc'[e] = pc[e]
    BY <1>1, InsideMoves
  <2>2. \A e \in Call : pc'[e] \in InFlight <=> pc[e] \in InFlight
    BY <2>1, Zenon
  <2>3. active' = active
    BY <2>2, Zenon DEF active
  <2> QED BY <1>1, <2>3 DEF Inside, setup, Main!mainvars
<1>2. ASSUME NEW c \in Call, TimeOut(c) \/ Refused(c) \/ Settle(c) PROVE UNCHANGED Main!mainvars
  <2>1. UNCHANGED <<pc, life, setup>>
    BY <1>2 DEF TimeOut, HangUp, Refused, Settle, vars
  <2> QED BY <2>1 DEF setup, Main!mainvars, active
<1>3. CASE UNCHANGED sysvars
  BY <1>3 DEF sysvars, vars, setup, Main!mainvars, active
<1>4. ASSUME NEW c \in Call, Arrive(c) \/ Leave(c) \/ HookPanics(c) \/ Overflow(c)
      PROVE Main!MainNext
  BY <1>4 DEF Arrive, Leave, HookPanics, Overflow, Main!MainNext
<1>5. CASE MainExits \/ MainRuns \/ StartedAgain
  BY <1>5 DEF MainExits, MainRuns, StartedAgain, Main!MainNext, Main!Draining
<1> QED BY <1>1, <1>2, <1>3, <1>4, <1>5 DEF SysNext

(***************************************************************************)
(* The system contains main() as Server describes it, up to fairness:      *)
(* dispatcher and API server do nothing to it that it does not do by       *)
(* itself.  So it, too, serves unique URIs only.                           *)
(***************************************************************************)
THEOREM SystemRunsServer ==
    SysSpec => /\ Main!MainInit /\ [][Main!MainNext]_(Main!mainvars)
               /\ []Main!ServesUniqueURIs
<1>1. SysInit => Main!MainInit
  BY DEF SysInit
<1>2. IInv /\ [SysNext]_sysvars => [Main!MainNext]_(Main!mainvars)
  BY StepIsMain
<1> QED BY <1>1, <1>2, MainInductive, SysInvariance, PTL DEF SysSpec

(***************************************************************************)
(* While a handler runs, main() is past registration, so that the hook it  *)
(* runs is the only one at its URI.                                        *)
(***************************************************************************)
CallsMeetOneHook == active # {} => life \in {"serving", "draining"} /\ Main!UniqueURIs

\* A call meets the one hook of its URI (CallsMeetOneHook).
THEOREM CallsMeetOneHookTheorem == SysSpec => []CallsMeetOneHook
<1>1. SysInit => active = {}
  BY DEF SysInit, Main!MainInit
<1> DEFINE Up == active # {} => life \in {"serving", "draining"}
<1>2. Up /\ [Main!MainNext]_(Main!mainvars) => Up'
  BY DEF Main!MainNext, Main!mainvars, Main!Starting, Main!RegisterHook, Main!RegistrationDone,
         Main!StartServing, Main!Accept, Main!Return, Main!ServerFailed, Main!Crash, Main!Signal,
         Main!Draining, Main!Drained, Main!DrainAborted, Main!StartAgain, Main!boot, Main!Gone
<1>3. Up /\ Main!ServesUniqueURIs => CallsMeetOneHook
  BY DEF CallsMeetOneHook, Main!ServesUniqueURIs
<1>4. SysInit => Up
  BY <1>1
<1> HIDE DEF Up
<1> QED BY <1>2, <1>3, <1>4, SystemRunsServer, PTL DEF SysSpec
=============================================================================
