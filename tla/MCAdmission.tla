------------------------------ MODULE MCAdmission ------------------------------
(***************************************************************************)
(* Two calls to two hooks: one like podimagespec and most others, with     *)
(* FailurePolicy Ignore, and one like imagecontentpolicies, with Fail.     *)
(***************************************************************************)
EXTENDS Admission, TLC

MCURI == {"/ignore", "/fail"}
MCVerdicts ==
    "/ignore" :> {"allow", "deny", "error", "panic"}
    @@ "/fail" :> {"allow", "deny", "errorNoUID"}
MCPolicy == "/ignore" :> "Ignore" @@ "/fail" :> "Fail"
MCFlags == {[testHooks |-> FALSE, useTLS |-> TRUE]}

\* Shapes up to what is never looked at.
MCArrivals ==
    {s \in Shape : s.url /\ s.body # "stalled" /\ (s.body # "review" => s.valid)}

CallSymmetry == Permutations(Call)
=============================================================================
