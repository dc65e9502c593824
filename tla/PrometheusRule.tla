----------------------------- MODULE PrometheusRule -----------------------------
(***************************************************************************)
(* The prometheusrule-validation hook (pkg/webhooks/prometheusrule).  The  *)
(* spec of a rule is the value of its label app.kubernetes.io/name.        *)
(***************************************************************************)
EXTENDS HookRequests

rules == {Rule(Operations, {"monitoring.coreos.com"}, {"prometheusrules"})}

privilegedNamespacesAllowed == {"openshift-customer-monitoring", "openshift-user-workload-monitoring"}

Validate(r) == r.user.username # "" /\ r.kind = "PrometheusRule"

isAllowedUser(r) ==
    \/ r.user.username \in {"kube:admin", "system:admin", backplane}
    \/ srep \in r.user.groups

hasPrivilegedLabel(rule) == rule.spec = "stackrox"

\* Faulty variant: the new object is looked at first.
renderNew(r) == NewElseOld(r)

renderPrometheusRule(r) == OldElseNew(r)

authorized(r) ==
    LET rule == renderPrometheusRule(r)
    IN  IF rule = None THEN "undecodable"
        ELSE Verdict(\/ ~IsPrivilegedNamespace(r.ns)
                     \/ r.ns \in privilegedNamespacesAllowed
                     \/ isAllowedUser(r)
                     \/ r.user.groups \cap PrivilegedGroups # {}
                     \/ hasPrivilegedLabel(rule))
=============================================================================
