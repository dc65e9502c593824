----------------------- MODULE CustomResourceDefinitions -----------------------
(***************************************************************************)
(* The customresourcedefinitions-validation hook.                          *)
(***************************************************************************)
EXTENDS HookRequests

rules == {Rule(Operations, {"apiextensions.k8s.io"}, {"customresourcedefinitions"})}

Validate(r) == r.user.username # "" /\ r.kind = "CustomResourceDefinition"

\* The object that is decoded; both versions have the name of the request.
renderCustomResourceDefinition(r) == OldElseNew(r)

isAllowedUser(r) == r.user.username \in {"system:admin", backplane} \/ srep \in r.user.groups

authorized(r) ==
    IF renderCustomResourceDefinition(r) = None THEN "undecodable"
    ELSE Verdict(\/ ~IsProtectedByResourceName(r.name)
                 \/ isAllowedUser(r)
                 \/ r.user.groups \cap PrivilegedGroups # {})
=============================================================================
