---------------------------------- MODULE Node ----------------------------------
(***************************************************************************)
(* The node-validation-osd hook (pkg/webhooks/node/node.go).  The spec of  *)
(* a node is the set of its label keys.                                    *)
(***************************************************************************)
EXTENDS HookRequests

rules == {Rule(Operations, {""}, {"nodes", "nodes/*"})}

managedRoles == {"node-role.kubernetes.io/infra", "node-role.kubernetes.io/control-plane",
                 "node-role.kubernetes.io/master"}

Validate(r) == r.user.username # ""

\* Faulty variant: the stored node is looked at.
decodedOld(r) == OldElseNew(r)

\* The node that is decoded.
decoded(r) == IF r.op = "DELETE" THEN r.old ELSE r.new

authorized(r) ==
    IF r.user.username = unauthenticated THEN "deny"
    ELSE IF \/ r.user.username \in SystemUsers \cup KubeUsers \cup {backplane}
            \/ srep \in r.user.groups THEN "allow"
    ELSE IF r.kind # "Node" THEN "deny"
    ELSE IF decoded(r) = None THEN "undecodable"
    ELSE Verdict(r.op # "DELETE" /\ decoded(r).spec \cap managedRoles = {})
=============================================================================
