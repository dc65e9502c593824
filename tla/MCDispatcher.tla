----------------------------- MODULE MCDispatcher -----------------------------
(***************************************************************************)
(* Small instances of Dispatcher.  Three kinds of hook stand for the       *)
(* registered ones: "plain" decides at once, with bare errors and nil      *)
(* dereferences (namespace, ingresscontroller); "query" asks the API       *)
(* server first and may patch (podimagespec); "nowhere" is not registered. *)
(***************************************************************************)
EXTENDS Dispatcher, TLC

MCURI == {"plain", "query", "nowhere"}
MCRegistered == {"plain", "query"}
MCCallsOut == {"query"}
MCVerdicts ==
    "plain" :> {"allow", "deny", "errorNoUID", "panic"}
    @@ "query" :> {"allow", "patch", "error", "panic"}

\* Every shape; those that differ only in what is never looked at are merged.
MCArrivals ==
    {s \in Shape :
       /\ ~s.url \/ s.uri = "nowhere" => s.body = "review" /\ s.valid
       /\ ~s.url => s.uri = "nowhere"
       /\ s.body # "review" => s.valid}
=============================================================================
