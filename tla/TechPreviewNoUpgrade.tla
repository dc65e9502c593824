-------------------------- MODULE TechPreviewNoUpgrade --------------------------
(***************************************************************************)
(* The techpreviewnoupgrade-validation hook.  The spec of a FeatureGate is *)
(* its feature set.                                                        *)
(***************************************************************************)
EXTENDS HookRequests

\* Faulty variant: deletions are sent too.
rulesAll == {Rule(Operations, {"config.openshift.io"}, {"featuregates"})}

rules == {Rule({"CREATE", "UPDATE"}, {"config.openshift.io"}, {"featuregates"})}

Validate(r) == r.user.username # "" /\ r.kind = "FeatureGate"

renderFeatureGate(r) == r.new

\* An object that cannot be decoded is refused with the UID of the request.
authorized(r) ==
    IF renderFeatureGate(r) = None THEN "error"
    ELSE Verdict(renderFeatureGate(r).spec # "TechPreviewNoUpgrade")
=============================================================================
