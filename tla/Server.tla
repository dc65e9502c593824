-------------------------------- MODULE Server --------------------------------
(***************************************************************************)
(* main() of cmd/main.go: registering the hooks with net/http, serving,    *)
(* and draining connections on a signal.                                   *)
(***************************************************************************)
EXTENDS Naturals, TLAPS

CONSTANTS
    Hook,    \* the names in webhooks.Webhooks
    Path,    \* the URIs hooks may have
    Flags,   \* the values of the flags -testhooks and -tls to start with
    Call     \* the calls of the API server

VARIABLES
    life,    \* how far main() is, or how the process ended
    flags,   \* [testHooks, useTLS]
    uriOf,   \* GetURI() of each hook
    todo,    \* the hooks the registration loop has not come to
    seen,    \* the map of that name
    mux,     \* the patterns net/http has a handler for
    active   \* the calls whose handler has not returned

boot == <<flags, uriOf, todo, seen, mux>>
mainvars == <<life, flags, uriOf, todo, seen, mux, active>>

Gone == {"exit0", "exit1", "panicked"}

MainInit ==
    /\ life = "registering"
    /\ flags \in Flags
    /\ uriOf \in [Hook -> Path]
    /\ todo = Hook
    /\ seen = {}
    /\ mux = {}
    /\ active = {}

\* Faulty variant: a pattern that is there already is silently replaced, so that
\* only seen is left to notice.
RegisterBySeen(h) ==
    /\ life = "registering"
    /\ h \in todo
    /\ todo' = todo \ {h}
    /\ seen' = seen \cup {h}
    /\ mux' = mux \cup {uriOf[h]}
    /\ life' = IF uriOf[h] \in seen THEN "panicked" ELSE life
    /\ UNCHANGED <<flags, uriOf, active>>

\* Faulty variant: the pattern is looked up after it was added.
RegisterThenLook(h) ==
    /\ life = "registering"
    /\ h \in todo
    /\ todo' = todo \ {h}
    /\ seen' = seen \cup {h}
    /\ mux' = mux \cup {uriOf[h]}
    /\ life' = IF uriOf[h] \in mux' THEN "panicked" ELSE life
    /\ UNCHANGED <<flags, uriOf, active>>

\* One iteration of the loop over webhooks.Webhooks, a map, so in any order.
\* seen is looked up by URI and filled by name.  http.HandleFunc panics on a
\* pattern it already has.
RegisterHook(h) ==
    /\ life = "registering"
    /\ h \in todo
    /\ todo' = todo \ {h}
    /\ seen' = seen \cup {h}
    /\ mux' = mux \cup {uriOf[h]}
    /\ life' = IF uriOf[h] \in seen \/ uriOf[h] \in mux THEN "panicked" ELSE life
    /\ UNCHANGED <<flags, uriOf, active>>

\* The loop is over: -testhooks ends here.  Otherwise the metrics server is
\* configured, and its errors are only logged.
RegistrationDone ==
    /\ life = "registering"
    /\ todo = {}
    /\ life' = IF flags.testHooks THEN "exit0" ELSE "starting"
    /\ UNCHANGED <<boot, active>>

\* With -tls the CA file must be readable; then the server goroutine starts.
StartServing ==
    /\ life = "starting"
    /\ \/ life' = "serving"
       \/ flags.useTLS /\ life' = "exit1"
    /\ UNCHANGED <<boot, active>>

\* net/http starts a handler.  Shutdown closes the listener, yet a connection
\* it has not found idle may still bring a call.
Accept(c) ==
    /\ life \in {"serving", "draining"}
    /\ c \notin active
    /\ active' = active \cup {c}
    /\ UNCHANGED <<life, boot>>

\* A handler is done, and its response flushed.
Return(c) ==
    /\ c \in active
    /\ active' = active \ {c}
    /\ UNCHANGED <<life, boot>>

\* ListenAndServe(TLS) returned: select takes errCh.
ServerFailed ==
    /\ life = "serving"
    /\ life' = "exit1"
    /\ active' = {}
    /\ UNCHANGED boot

\* A goroutine brings the process down.
Crash ==
    /\ life \in {"serving", "draining"}
    /\ life' = "panicked"
    /\ active' = {}
    /\ UNCHANGED boot

\* The first signal ends the context; select takes ctx.Done() and Shutdown
\* closes the listener.
Signal ==
    /\ life = "serving"
    /\ life' = "draining"
    /\ UNCHANGED <<boot, active>>

\* Faulty variant: Close instead of Shutdown.
ClosedAtOnce ==
    /\ life = "draining"
    /\ life' = "exit0"
    /\ active' = {}
    /\ UNCHANGED boot

\* Shutdown returns nil once no connection is active, and main returns.
Drained ==
    /\ life = "draining"
    /\ active = {}
    /\ life' = "exit0"
    /\ UNCHANGED <<boot, active>>

\* Faulty variant: Shutdown with a context that has no deadline.
DrainWithoutDeadline ==
    /\ life = "draining"
    /\ active = {}
    /\ life' = "exit1"
    /\ UNCHANGED <<boot, active>>

\* Ten seconds have passed, or a second signal has come.
DrainAborted ==
    /\ life = "draining"
    /\ life' = "exit1"
    /\ active' = {}
    /\ UNCHANGED boot

\* The container is started again from the same image and arguments.
StartAgain ==
    /\ life \in Gone
    /\ ~flags.testHooks
    /\ life' = "registering"
    /\ todo' = Hook
    /\ seen' = {}
    /\ mux' = {}
    /\ UNCHANGED <<flags, uriOf, active>>

Starting == (\E h \in Hook : RegisterHook(h)) \/ RegistrationDone \/ StartServing
Draining == Drained \/ DrainAborted

MainNext ==
    \/ Starting
    \/ \E c \in Call : Accept(c) \/ Return(c)
    \/ ServerFailed \/ Crash \/ Signal
    \/ Draining
    \/ StartAgain

\* main() runs on, and Shutdown's context has a deadline.
MainSpec == MainInit /\ [][MainNext]_mainvars
                     /\ WF_mainvars(Starting) /\ WF_mainvars(Draining)

-----------------------------------------------------------------------------
\* The type invariant of main()'s variables.
MainTypeOK ==
    /\ life \in {"registering", "starting", "serving", "draining"} \cup Gone
    /\ flags \in Flags
    /\ uriOf \in [Hook -> Path]
    /\ todo \subseteq Hook
    /\ seen \subseteq Hook
    /\ mux \subseteq Path
    /\ active \subseteq Call

UniqueURIs == \A g, h \in Hook : uriOf[g] = uriOf[h] => g = h

(***************************************************************************)
(* -testhooks, "Test webhook URI uniqueness and quit?": main() gets past   *)
(* the registration loop (to exit status 0 with -testhooks, to serving     *)
(* without) only if no two hooks have the same URI, and then every hook    *)
(* has its handler.  The map seen does not contribute to this: it is       *)
(* filled by name and looked up by URI.                                    *)
(***************************************************************************)
ServesUniqueURIs ==
    life \in {"starting", "serving", "draining", "exit0", "exit1"} =>
      UniqueURIs /\ mux = {uriOf[h] : h \in Hook}

(***************************************************************************)
(* The inductive invariant behind it: the loop has a handler for exactly   *)
(* the hooks it has come to, no two of them with the same URI unless it    *)
(* has panicked, and it has come to all once main() is past it.            *)
(***************************************************************************)
MainInv ==
    /\ todo \subseteq Hook
    /\ mux = {uriOf[h] : h \in Hook \ todo}
    /\ life # "panicked" => \A g, h \in Hook \ todo : uriOf[g] = uriOf[h] => g = h
    /\ life \notin {"registering", "panicked"} => todo = {}

(***************************************************************************)
(* With distinct URIs registration succeeds, in any order of the map, and  *)
(* main() goes on to serve unless a flag or the CA file ends it.           *)
(***************************************************************************)
StartsUp ==
    life = "registering" /\ UniqueURIs ~> life \in {"serving", "exit0", "exit1"}

(***************************************************************************)
(* A signal ends the process even if a handler never returns.              *)
(***************************************************************************)
SignalEndsProcess == life = "draining" ~> life \in Gone
-----------------------------------------------------------------------------
(* Proofs, for any hooks, URIs and calls. *)

\* main() by itself: the registration loop and what follows it keep MainInv.
LEMMA MainStepInv ==
    ASSUME MainInv, [MainNext]_(mainvars) PROVE MainInv'
<1> USE DEF MainInv
<1>1. ASSUME NEW h \in Hook, RegisterHook(h) PROVE MainInv'
  <2>1. /\ Hook \ todo' = (Hook \ todo) \cup {h}
        /\ todo' \subseteq Hook /\ uriOf' = uriOf
        /\ mux' = mux \cup {uriOf[h]}
        /\ life = "registering"
        /\ life' = IF uriOf[h] \in seen \/ uriOf[h] \in mux THEN "panicked" ELSE life
    BY <1>1 DEF RegisterHook
  <2>2. mux' = {uriOf'[g] : g \in Hook \ todo'}
    BY <2>1
  <2>3. life' # "panicked" => \A f, g \in Hook \ todo' : uriOf'[f] = uriOf'[g] => f = g
    BY <2>1
  <2> QED BY <2>1, <2>2, <2>3
<1>2. CASE RegistrationDone \/ StartServing
  BY <1>2 DEF RegistrationDone, StartServing, boot
<1>3. CASE StartAgain
  BY <1>3 DEF StartAgain
<1>4. CASE ServerFailed \/ Crash \/ Signal \/ Drained \/ DrainAborted
  BY <1>4 DEF ServerFailed, Crash, Signal, Drained, DrainAborted,
              boot
<1>5. CASE UNCHANGED <<life, boot>>
  BY <1>5 DEF boot
<1> QED BY <1>1, <1>2, <1>3, <1>4, <1>5
        DEF MainNext, Starting, Draining, Accept, Return,
            mainvars, boot

\* MainInv holds of the first state and says enough.
LEMMA MainInvServes ==
    /\ MainInit => MainInv
    /\ MainInv => ServesUniqueURIs
<1>1. MainInit => MainInv
  BY DEF MainInit, MainInv
<1>2. MainInv => ServesUniqueURIs
  BY DEF MainInv, ServesUniqueURIs, UniqueURIs
<1> QED BY <1>1, <1>2

(***************************************************************************)
(* main() is past its registration loop only with distinct URIs, each      *)
(* with its handler (ServesUniqueURIs).                                    *)
(***************************************************************************)
THEOREM ServesTheorem == MainSpec => []ServesUniqueURIs
<1>1. MainInv /\ [MainNext]_(mainvars) => MainInv'
  BY MainStepInv
<1>2. MainSpec => []MainInv
  BY <1>1, MainInvServes, PTL DEF MainSpec
<1> QED BY <1>2, MainInvServes, PTL

(***************************************************************************)
(* Registration goes well: with distinct URIs, none of them the name of a  *)
(* hook (they begin with a slash), no order of the map makes the loop      *)
(* panic, although seen is filled by name, and each step of main() either  *)
(* registers one more hook or ends the loop.                               *)
(***************************************************************************)
RegistersNext ==
    life = "registering" /\ UniqueURIs =>
      \/ life' = "registering" /\ \E h \in todo : todo' = todo \ {h}
      \/ life' \in {"starting", "exit0"} /\ todo = {}

\* Registration goes well (RegistersNext): the half of StartsUp that does not
\* depend on fairness.
THEOREM RegistrationTheorem ==
    ASSUME Hook \cap Path = {}
    PROVE  MainSpec => [][RegistersNext]_(mainvars)
<1> DEFINE Inv == /\ seen \subseteq Hook /\ uriOf \in [Hook -> Path]
                  /\ life = "registering" => active = {}
                  /\ active # {} => life \in {"serving", "draining"}
<1>1. MainInit => Inv
  BY DEF MainInit
<1>2. Inv /\ [MainNext]_(mainvars) => Inv'
  BY DEF MainNext, mainvars, Starting, RegisterHook, RegistrationDone,
         StartServing, Accept, Return, ServerFailed, Crash, Signal,
         Draining, Drained, DrainAborted, StartAgain, boot, Gone
<1>3. Inv /\ MainInv /\ [MainNext]_(mainvars) => [RegistersNext]_(mainvars)
  <2> SUFFICES ASSUME Inv, MainInv, MainNext, life = "registering", UniqueURIs
               PROVE  \/ life' = "registering" /\ \E h \in todo : todo' = todo \ {h}
                      \/ life' \in {"starting", "exit0"} /\ todo = {}
    BY DEF RegistersNext
  <2>1. ASSUME NEW h \in Hook, RegisterHook(h) PROVE life' = "registering" /\ h \in todo /\ todo' = todo \ {h}
    <3>1. uriOf[h] \notin seen
      OBVIOUS
    <3>2. uriOf[h] \notin mux
      BY <2>1 DEF RegisterHook, MainInv, UniqueURIs
    <3> QED BY <2>1, <3>1, <3>2 DEF RegisterHook
  <2>2. CASE RegistrationDone
    BY <2>2 DEF RegistrationDone
  <2> QED BY <2>1, <2>2
          DEF MainNext, Starting, StartServing, Accept, Return,
              ServerFailed, Crash, Signal, Draining, Drained,
              DrainAborted, StartAgain, Gone
<1>4. MainInv /\ [MainNext]_(mainvars) => MainInv'
  BY MainStepInv
<1> HIDE DEF Inv
<1> QED BY <1>1, <1>2, <1>3, <1>4, MainInvServes, PTL DEF MainSpec
=============================================================================
