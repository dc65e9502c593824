----------------------------- MODULE HostedProofs -----------------------------
(***************************************************************************)
(* Proofs about HostedTeardown, for every set of items, users and clusters *)
(* that meets HostedAssumption: the order in which a hosted cluster is     *)
(* deleted, who can delete ManifestWorks through their namespace, and that *)
(* no hook holds up a namespace without a workload.                        *)
(***************************************************************************)
EXTENDS HostedTeardown, TLAPS

\* A step that deletes an item, or removes a namespace that is terminating: who
\* asks is a user, the namespace controller for an item of a terminating
\* namespace, or the agent of an item whose parent is gone.
Deletes(u, x) ==
    /\ Delete(u, x)
    /\ \/ u \in User
       \/ u = namespaceController /\ \E n \in Item : In(x, n) /\ state[n] = "terminating"
       \/ u = x.agent /\ Gone(x.parent)

\* Every step is one of these two.
LEMMA StepIs ==
    ASSUME Next
    PROVE  \E x \in Item : NamespaceGone(x) \/ \E u : Deletes(u, x)
BY DEF Next, Controllers, EmptyNamespace, Follow, Deletes, Gone

\* The state of an item is present, terminating (a namespace only) or gone
\* (TypeOK).
THEOREM Typed == Spec => []TypeOK
<1>1. Init => TypeOK
  BY DEF Init, TypeOK
<1>2. TypeOK /\ [Next]_vars => TypeOK'
  <2> SUFFICES ASSUME TypeOK, [Next]_vars PROVE TypeOK'
    OBVIOUS
  <2>1. CASE UNCHANGED vars
    BY <2>1 DEF TypeOK, vars
  <2>2. ASSUME NEW x \in Item, NamespaceGone(x) PROVE TypeOK'
    BY <2>2 DEF TypeOK, NamespaceGone
  <2>3. ASSUME NEW x \in Item, NEW u, Deletes(u, x) PROVE TypeOK'
    <3>1. u.username \in {v.username : v \in User} \cup {y.agent.username : y \in Item}
                         \cup {namespaceController.username, None}
      BY <2>3 DEF Deletes
    <3> QED BY <2>3, <3>1 DEF TypeOK, Deletes, Delete
  <2> QED BY <2>1, <2>2, <2>3, StepIs
<1> QED BY <1>1, <1>2, PTL DEF Spec

\* What is gone stays gone.
LEMMA GoneStays ==
    ASSUME TypeOK, Next, NEW name, Gone(name)
    PROVE  Gone(name)'
<1>1. ASSUME NEW x \in Item, NamespaceGone(x) PROVE Gone(name)'
  BY <1>1 DEF TypeOK, NamespaceGone, Gone
<1>2. ASSUME NEW x \in Item, NEW u, Deletes(u, x) PROVE Gone(name)'
  BY <1>2 DEF TypeOK, Deletes, Delete, Gone
<1> QED BY <1>1, <1>2, StepIs

\* Whoever deletes a HostedCluster or a HostedControlPlane of a management
\* cluster follows its parent, or is a user with an account of a control plane.
LEMMA WorkloadAllowed ==
    ASSUME NEW x \in Item, NEW u, Deletes(u, x), hc_SyncSetLabelSelector(Labels[x.cluster])
    PROVE  /\ x.kind = "HostedCluster" => Gone(x.parent)
           /\ x.kind = "HostedControlPlane" =>
                \/ Gone(x.parent)
                \/ u \in User /\ u.last \in {"cluster-api", "control-plane-pki-operator"}
<1> DEFINE r == Request(u, x)
<1>0. r.user = u /\ r.op = "DELETE"
  BY DEF Request
<1>1. ASSUME x.kind = "HostedCluster" PROVE u.username = hc_allowedServiceAccount
  <2>1. For(hc_rules, hc_SyncSetLabelSelector(Labels[x.cluster]), x)
    BY <1>1 DEF For, GroupResource, hc_rules
  <2>2. hc_authorized(r)
    BY <2>1 DEF Deletes, Delete, Allowed
  <2> QED BY <1>0, <2>2 DEF hc_authorized
<1>2. ASSUME x.kind = "HostedControlPlane"
      PROVE  u.username \in hcp_allowedServiceAccountsUsernames \/ u.last \in hcp_allowedServiceAccountsNames
  <2>1. For(hcp_rules, hcp_SyncSetLabelSelector(Labels[x.cluster]), x)
    BY <1>2 DEF For, GroupResource, hcp_rules, hcp_SyncSetLabelSelector, hc_SyncSetLabelSelector
  <2>2. hcp_authorized(r)
    BY <2>1 DEF Deletes, Delete, Allowed
  <2> QED BY <1>0, <2>2 DEF hcp_authorized
<1>3. /\ namespaceController.username # hc_allowedServiceAccount
      /\ namespaceController.username \notin hcp_allowedServiceAccountsUsernames
      /\ namespaceController.last \notin hcp_allowedServiceAccountsNames
  BY DEF namespaceController, hc_allowedServiceAccount, hcp_allowedServiceAccountsUsernames,
         hcp_allowedServiceAccountsNames
<1>4. \A v \in User : /\ v.username # hc_allowedServiceAccount
                      /\ v.username \notin hcp_allowedServiceAccountsUsernames
  BY HostedAssumption
<1> QED BY <1>1, <1>2, <1>3, <1>4 DEF Deletes, hcp_allowedServiceAccountsNames

\* The workload of a management cluster is deleted in order, whatever namespaces
\* are deleted (WorkloadDeletedInOrder).
THEOREM WorkloadInOrder == Spec => []WorkloadDeletedInOrder
<1>1. Init => WorkloadDeletedInOrder
  BY DEF Init, WorkloadDeletedInOrder
<1>2. TypeOK /\ WorkloadDeletedInOrder /\ [Next]_vars => WorkloadDeletedInOrder'
  <2> SUFFICES ASSUME TypeOK, WorkloadDeletedInOrder, [Next]_vars PROVE WorkloadDeletedInOrder'
    OBVIOUS
  <2>1. CASE UNCHANGED vars
    BY <2>1 DEF WorkloadDeletedInOrder, Gone, vars
  <2>2. CASE Next
    <3> SUFFICES ASSUME NEW y \in Item, state'[y] = "gone", hc_SyncSetLabelSelector(Labels[y.cluster]),
                        y.kind \in {"HostedCluster", "HostedControlPlane"}
                 PROVE  /\ y.kind = "HostedCluster" => Gone(y.parent)'
                        /\ y.kind = "HostedControlPlane" =>
                             \/ Gone(y.parent)'
                             \/ \E v \in User : /\ by'[y] = v.username
                                                /\ v.last \in {"cluster-api", "control-plane-pki-operator"}
      BY DEF WorkloadDeletedInOrder
    <3>1. CASE state[y] = "gone"
      <4>1. by'[y] = by[y]
        <5>1. ASSUME NEW x \in Item, NamespaceGone(x) PROVE by'[y] = by[y]
          BY <5>1 DEF NamespaceGone
        <5>2. ASSUME NEW x \in Item, NEW u, Deletes(u, x) PROVE by'[y] = by[y]
          BY <3>1, <5>2 DEF Deletes, Delete, TypeOK
        <5> QED BY <2>2, <5>1, <5>2, StepIs
      <4> QED BY <2>2, <3>1, <4>1, GoneStays DEF WorkloadDeletedInOrder
    <3>2. CASE state[y] # "gone"
      <4>1. ASSUME NEW x \in Item, NamespaceGone(x) PROVE FALSE
        BY <3>2, <4>1 DEF NamespaceGone, TypeOK
      <4>2. PICK x \in Item : \E u : Deletes(u, x)
        BY <2>2, <4>1, StepIs
      <4>3. PICK u : Deletes(u, x)
        BY <4>2
      <4>4. x = y /\ by'[y] = u.username
        BY <3>2, <4>3 DEF Deletes, Delete, TypeOK
      <4> QED BY <2>2, <4>3, <4>4, WorkloadAllowed, GoneStays
    <3> QED BY <3>1, <3>2
  <2> QED BY <2>1, <2>2
<1> QED BY <1>1, <1>2, Typed, PTL DEF Spec

\* The strengthening for WorkDeletedThroughNamespace: a protected namespace that
\* the namespace hook is installed for is deleted only by those it allows.
ProtectedNamespacesInv ==
    \A n \in Item :
        /\ n.kind = "Namespace" /\ state[n] # "present"
        /\ n.name \in ProtectedNamespaces /\ hcpns_SyncSetLabelSelector(Labels[n.cluster])
        => by[n] \in hcpns_allowedUsers

\* ProtectedNamespacesInv is an invariant.
LEMMA NamespacesGuarded == Spec => []ProtectedNamespacesInv
<1>1. Init => ProtectedNamespacesInv
  BY DEF Init, ProtectedNamespacesInv
<1>2. TypeOK /\ ProtectedNamespacesInv /\ [Next]_vars => ProtectedNamespacesInv'
  <2> SUFFICES ASSUME TypeOK, ProtectedNamespacesInv, [Next]_vars PROVE ProtectedNamespacesInv'
    OBVIOUS
  <2>1. CASE UNCHANGED vars
    BY <2>1 DEF ProtectedNamespacesInv, vars
  <2>2. ASSUME NEW x \in Item, NamespaceGone(x) PROVE ProtectedNamespacesInv'
    BY <2>2 DEF ProtectedNamespacesInv, NamespaceGone, TypeOK
  <2>3. ASSUME NEW x \in Item, NEW u, Deletes(u, x) PROVE ProtectedNamespacesInv'
    <3>1. ASSUME x.kind = "Namespace", x.name \in ProtectedNamespaces,
                 hcpns_SyncSetLabelSelector(Labels[x.cluster])
          PROVE  u.username \in hcpns_allowedUsers
      <4>1. For(hcpns_rules, hcpns_SyncSetLabelSelector(Labels[x.cluster]), x)
        <5>1. GroupResource["Namespace"] = <<"", "namespaces">>
          BY DEF GroupResource
        <5> QED BY <3>1, <5>1 DEF For, hcpns_rules
      <4>2. hcpns_authorized(Request(u, x))
        BY <2>3, <4>1 DEF Deletes, Delete, Allowed
      <4> QED BY <3>1, <4>2 DEF hcpns_authorized, hcpns_isProtectedNamespace, Request
    <3> QED BY <2>3, <3>1 DEF ProtectedNamespacesInv, Deletes, Delete, TypeOK
  <2> QED BY <2>1, <2>2, <2>3, StepIs
<1> QED BY <1>1, <1>2, Typed, PTL DEF Spec

\* The namespace controller deletes ManifestWorks only with a namespace that was
\* deleted by someone the namespace hook allows (WorkDeletedThroughNamespace).
THEOREM WorkThroughNamespace == Spec => []WorkDeletedThroughNamespace
<1>1. Init => WorkDeletedThroughNamespace
  BY HostedAssumption DEF Init, WorkDeletedThroughNamespace
<1>2. /\ TypeOK /\ ProtectedNamespacesInv /\ ProtectedNamespacesInv'
      /\ WorkDeletedThroughNamespace /\ [Next]_vars
      => WorkDeletedThroughNamespace'
  <2> SUFFICES ASSUME TypeOK, ProtectedNamespacesInv', WorkDeletedThroughNamespace, [Next]_vars,
                      NEW y \in Item, y.kind = "ManifestWork", by'[y] = namespaceController.username
               PROVE  \E n \in Item : In(y, n) /\ state'[n] # "present"
    BY DEF WorkDeletedThroughNamespace, ProtectedNamespacesInv, In
  <2>1. CASE UNCHANGED vars
    BY <2>1 DEF WorkDeletedThroughNamespace, vars
  <2>2. ASSUME NEW x \in Item, NamespaceGone(x) PROVE \E n \in Item : In(y, n) /\ state'[n] # "present"
    BY <2>2 DEF WorkDeletedThroughNamespace, NamespaceGone, TypeOK
  <2>3. ASSUME NEW x \in Item, NEW u, Deletes(u, x) PROVE \E n \in Item : In(y, n) /\ state'[n] # "present"
    <3>1. \A n \in Item : state[n] # "present" => state'[n] # "present"
      BY <2>3 DEF Deletes, Delete, TypeOK
    <3>2. CASE by[y] = namespaceController.username
      BY <3>1, <3>2 DEF WorkDeletedThroughNamespace
    <3>3. CASE by[y] # namespaceController.username
      <4>1. x = y /\ u.username = namespaceController.username
        BY <2>3, <3>3 DEF Deletes, Delete, TypeOK
      <4>2. \E n \in Item : In(x, n) /\ state[n] = "terminating"
        BY <2>3, <4>1, HostedAssumption DEF Deletes
      <4> QED BY <3>1, <4>1, <4>2
    <3> QED BY <3>2, <3>3
  <2> QED BY <2>1, <2>2, <2>3, StepIs
<1> QED BY <1>1, <1>2, Typed, NamespacesGuarded, PTL DEF Spec

-----------------------------------------------------------------------------
(* What the namespace controller may delete. *)

\* Whatever is neither a namespace nor the workload, a ManifestWork included,
\* the namespace controller may delete, on every cluster.
LEMMA ControllerAllowed ==
    ASSUME NEW x \in Item, x.kind \in {"ManifestWork", "Secret"}
    PROVE  Allowed(namespaceController, x)
<1>1. /\ GroupResource["ManifestWork"] = <<"work.open-cluster-management.io", "manifestworks">>
      /\ GroupResource["Secret"] = <<"", "secrets">>
  BY Zenon DEF GroupResource
<1>2. /\ GroupResource["ManifestWork"][1] = "work.open-cluster-management.io"
      /\ GroupResource["ManifestWork"][2] = "manifestworks"
      /\ GroupResource["Secret"][2] = "secrets"
  <2>1. \A t, g, s : t = <<g, s>> => t[1] = g /\ t[2] = s
    OBVIOUS
  <2>2. \E g : GroupResource["Secret"] = <<g, "secrets">>
    BY <1>1, Zenon
  <2>3. GroupResource["ManifestWork"] = <<"work.open-cluster-management.io", "manifestworks">>
    BY <1>1, Zenon
  <2> QED BY <2>1, <2>2, <2>3
<1> DEFINE r == Request(namespaceController, x)
<1>3. /\ r.kind = x.kind /\ r.group = GroupResource[x.kind][1] /\ r.user = namespaceController
  BY Zenon DEF Request
<1>4. namespaceController.username = "system:serviceaccount:kube-system:namespace-controller"
  BY DEF namespaceController
<1>5. GroupResource[x.kind][2] \notin {"namespaces", "hostedclusters", "hostedcontrolplanes"}
  BY <1>2
<1>6. \A i : ~For(hcpns_rules, i, x) /\ ~For(hc_rules, i, x) /\ ~For(hcp_rules, i, x)
  <2>1. /\ hcpns_rules.resource = "namespaces"
        /\ hc_rules.resource = "hostedclusters"
        /\ hcp_rules.resource = "hostedcontrolplanes"
    BY Zenon DEF hcpns_rules, hc_rules, hcp_rules
  <2> HIDE DEF r
  <2>2. ASSUME NEW g, NEW s, GroupResource[x.kind] = <<g, s>> PROVE GroupResource[x.kind][2] = s
    BY <2>2
  <2> QED BY <1>5, <2>1, <2>2 DEF For
<1>7. ASSUME NEW i, For(mw_rules, i, x) PROVE mw_Validate(r) /\ mw_authorized(r)
  <2>1. x.kind = "ManifestWork" /\ r.group = "work.open-cluster-management.io"
    <3>1. mw_rules.resource = "manifestworks"
      BY DEF mw_rules
    <3>2. x.kind # "Secret"
      BY <1>7, <3>1, <1>2 DEF For
    <3> QED BY <1>3, <3>2, <1>2
  <2>2. r.user.username \in mw_allowedServiceAccounts
    BY <1>3, <1>4 DEF mw_allowedServiceAccounts
  <2>3. r.user.username # ""
    BY <1>3, <1>4, Zenon
  <2> QED BY <1>3, <2>1, <2>2, <2>3, Zenon DEF mw_Validate, mw_authorized
<1> HIDE DEF r
<1> QED BY <1>6, <1>7, Zenon DEF Allowed, r

(***************************************************************************)
(* A terminating namespace without namespaces or a HostedCluster or        *)
(* HostedControlPlane in it is empty, or there is something in it that the *)
(* namespace controller is allowed to delete: no hook holds it up.         *)
(***************************************************************************)
NamespaceNeverStuck ==
    \A n \in Item :
      /\ state[n] = "terminating"
      /\ \A x \in Item : In(x, n) /\ x.kind \notin {"ManifestWork", "Secret"} => state[x] = "gone"
      => \/ \A x \in Item : In(x, n) => state[x] = "gone"
         \/ \E x \in Item : In(x, n) /\ state[x] = "present" /\ Allowed(namespaceController, x)

\* No hook holds up a namespace that holds no workload (NamespaceNeverStuck): the
\* half of NamespacesTerminate that does not depend on fairness.
THEOREM NamespaceNeverStuckTheorem == Spec => []NamespaceNeverStuck
<1>1. TypeOK => NamespaceNeverStuck
  <2> SUFFICES ASSUME TypeOK, NEW n \in Item, state[n] = "terminating",
                      \A x \in Item : In(x, n) /\ x.kind \notin {"ManifestWork", "Secret"} => state[x] = "gone",
                      NEW x \in Item, In(x, n), state[x] # "gone"
               PROVE  state[x] = "present" /\ Allowed(namespaceController, x)
    BY DEF NamespaceNeverStuck
  <2>1. x.kind \in {"ManifestWork", "Secret"}
    OBVIOUS
  <2>2. state[x] = "present"
    BY <2>1 DEF TypeOK
  <2> QED BY <2>1, <2>2, ControllerAllowed
<1> QED BY <1>1, Typed, PTL
=============================================================================
