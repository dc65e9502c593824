-------------------------- MODULE ImageContentPolicies --------------------------
(***************************************************************************)
(* The imagecontentpolicies-validation hook.  The spec of the three kinds  *)
(* of object is the set of the sources they mirror.                        *)
(***************************************************************************)
EXTENDS HookRequests

rules == {
    Rule({"CREATE", "UPDATE"}, {"config.openshift.io"}, {"imagedigestmirrorsets", "imagetagmirrorsets"}),
    Rule({"CREATE", "UPDATE"}, {"operator.openshift.io"}, {"imagecontentsourcepolicies"})}

\* Faulty variant: the policy of the other hooks.
IgnoreFailures == "Ignore"

FailurePolicy == "Fail"

Validate(r) ==
    /\ r.new # None
    /\ r.kind \in {"ImageDigestMirrorSet", "ImageTagMirrorSet", "ImageContentSourcePolicy"}

\* The loops of the three functions end at the first source that matches.
authorizeImageDigestMirrorSet(object) == object.spec \cap UnauthorizedMirrors = {}
authorizeImageTagMirrorSet(object) == object.spec \cap UnauthorizedMirrors = {}
authorizeImageContentSourcePolicy(object) == object.spec \cap UnauthorizedMirrors = {}

Authorized(r) ==
    CASE r.kind = "ImageDigestMirrorSet" -> Verdict(authorizeImageDigestMirrorSet(r.new))
      [] r.kind = "ImageTagMirrorSet" -> Verdict(authorizeImageTagMirrorSet(r.new))
      [] r.kind = "ImageContentSourcePolicy" -> Verdict(authorizeImageContentSourcePolicy(r.new))
      [] OTHER -> "allow"
=============================================================================
