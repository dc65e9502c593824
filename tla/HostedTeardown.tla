----------------------------- MODULE HostedTeardown -----------------------------
(***************************************************************************)
(* Deleting what a hosted cluster is made of, on a service cluster and on  *)
(* a management cluster, past the four hooks that guard it.                *)
(*                                                                         *)
(* The clusters and their controllers are external, and modelled as far as *)
(* the lists of the hooks rely on them.  A namespace that is deleted is    *)
(* terminating until the namespace controller, asking like everyone else,  *)
(* has deleted what is in it.  An object with a parent (the ManifestWork   *)
(* that applied it, the HostedCluster it serves, its owner) is deleted by  *)
(* the agent that follows the parent: the work agent, the hypershift       *)
(* operator, the garbage collector.                                        *)
(***************************************************************************)
EXTENDS HostedHooks

CONSTANTS
    Item,                  \* records [kind, name, ns, cluster, parent, agent]
    User,                  \* those who ask of themselves: records [username, last]
    Labels,                \* Labels[c]: the labels of cluster c
    None

namespaceController == [
    username |-> "system:serviceaccount:kube-system:namespace-controller",
    last |-> "namespace-controller"]

\* Nobody uses the account of a controller, and an agent is not the namespace
\* controller.
ASSUME HostedAssumption ==
    /\ \A u \in User : u.username \notin hcp_allowedServiceAccountsUsernames \cup
            {hc_allowedServiceAccount, namespaceController.username}
    /\ \A x \in Item : x.agent.username # namespaceController.username
    /\ None # namespaceController.username

VARIABLES
    state,   \* state[x]: "present", "terminating" or "gone"
    by       \* history: by[x]: who deleted x, or None

vars == <<state, by>>

GroupResource == [
    Namespace |-> <<"", "namespaces">>,
    HostedCluster |-> <<"hypershift.openshift.io", "hostedclusters">>,
    HostedControlPlane |-> <<"hypershift.openshift.io", "hostedcontrolplanes">>,
    ManifestWork |-> <<"work.open-cluster-management.io", "manifestworks">>,
    Secret |-> <<"", "secrets">>]

Request(u, x) ==
    [user |-> u, op |-> "DELETE", kind |-> x.kind, group |-> GroupResource[x.kind][1], name |-> x.name]

\* A hook answers for an item if it is installed on its cluster and has a rule
\* for its kind; where no hook does, the deletion is a matter of RBAC.
For(rules, installed, x) ==
    installed /\ GroupResource[x.kind] = <<rules.group, rules.resource>>

Allowed(u, x) ==
    LET r == Request(u, x)
        labels == Labels[x.cluster]
    IN  /\ For(hcpns_rules, hcpns_SyncSetLabelSelector(labels), x) => hcpns_Validate(r) /\ hcpns_authorized(r)
        /\ For(hc_rules, hc_SyncSetLabelSelector(labels), x) => hc_Validate(r) /\ hc_authorized(r)
        /\ For(hcp_rules, hcp_SyncSetLabelSelector(labels), x) => hcp_Validate(r) /\ hcp_authorized(r)
        /\ For(mw_rules, mw_SyncSetLabelSelector(labels), x) => mw_Validate(r) /\ mw_authorized(r)

\* An item is in the namespace n of its own cluster.
In(x, n) == n.kind = "Namespace" /\ x.ns = n.name /\ x.cluster = n.cluster

Init ==
    /\ state = [x \in Item |-> "present"]
    /\ by = [x \in Item |-> None]

Delete(u, x) ==
    /\ state[x] = "present"
    /\ Allowed(u, x)
    /\ state' = [state EXCEPT ![x] = IF x.kind = "Namespace" THEN "terminating" ELSE "gone"]
    /\ by' = [by EXCEPT ![x] = u.username]

EmptyNamespace(x) ==
    /\ \E n \in Item : In(x, n) /\ state[n] = "terminating"
    /\ Delete(namespaceController, x)

NamespaceGone(n) ==
    /\ state[n] = "terminating"
    /\ \A x \in Item : In(x, n) => state[x] = "gone"
    /\ state' = [state EXCEPT ![n] = "gone"]
    /\ UNCHANGED by

Follow(x) ==
    /\ \E p \in Item : p.name = x.parent /\ state[p] = "gone"
    /\ Delete(x.agent, x)

Controllers == \E x \in Item : EmptyNamespace(x) \/ NamespaceGone(x) \/ Follow(x)

Next == (\E u \in User, x \in Item : Delete(u, x)) \/ Controllers

\* The controllers try again until there is nothing left that they may do; which
\* of them does what first is open.
Spec == Init /\ [][Next]_vars /\ WF_vars(Controllers)

-----------------------------------------------------------------------------
(* Properties. *)

\* Only namespaces terminate, and by is set by deletion.
TypeOK ==
    /\ state \in [Item -> {"present", "terminating", "gone"}]
    /\ \A x \in Item : state[x] = "terminating" => x.kind = "Namespace"
    /\ by \in [Item -> {u.username : u \in User} \cup {x.agent.username : x \in Item}
                       \cup {namespaceController.username, None}]

Gone(name) == \E p \in Item : p.name = name /\ state[p] = "gone"

\* On a management cluster the workload outlives whatever happens around it: a
\* HostedCluster goes only after the ManifestWork that applied it, and a
\* HostedControlPlane only after its HostedCluster or at the hand of a service
\* account of its own control plane.  Deleting the namespaces they are in, which
\* more are allowed to, does not take them along.
WorkloadDeletedInOrder ==
    \A x \in Item : state[x] = "gone" /\ hc_SyncSetLabelSelector(Labels[x.cluster]) =>
        /\ x.kind = "HostedCluster" => Gone(x.parent)
        /\ x.kind = "HostedControlPlane" =>
              \/ Gone(x.parent)
              \/ \E u \in User : by[x] = u.username /\ u.last \in {"cluster-api", "control-plane-pki-operator"}

\* A ManifestWork that the namespace controller deleted went with its namespace,
\* and that went, if its name is protected and the namespace hook installed, by
\* someone that hook allows: the gap the one hook leaves is closed by the other.
WorkDeletedThroughNamespace ==
    \A x \in Item : x.kind = "ManifestWork" /\ by[x] = namespaceController.username =>
        \E n \in Item : /\ In(x, n) /\ state[n] # "present"
                        /\ n.name \in ProtectedNamespaces /\ hcpns_SyncSetLabelSelector(Labels[n.cluster])
                           => by[n] \in hcpns_allowedUsers

\* Once a ManifestWork is gone, so is, in the end, everything that follows from
\* it: each list names whoever has to delete the next part.
TeardownCompletes ==
    (\E w \in Item : w.kind = "ManifestWork" /\ (\E x \in Item : x.parent = w.name) /\ state[w] = "gone")
    ~> (\A x \in Item : x.kind \in {"HostedCluster", "HostedControlPlane"} =>
            \A y \in Item : y = x \/ In(x, y) => state[y] = "gone")

\* A terminating namespace is removed in the end once no HostedCluster and no
\* HostedControlPlane is left in it; until then it is held.
NamespacesTerminate ==
    \A n \in {x \in Item : x.kind = "Namespace"} :
        (/\ state[n] = "terminating"
         /\ \A x \in Item : In(x, n) /\ x.kind \in {"HostedCluster", "HostedControlPlane"} =>
               state[x] = "gone")
        ~> state[n] = "gone"
=============================================================================
