------------------------------- MODULE Namespace -------------------------------
(***************************************************************************)
(* The namespace-validation hook (pkg/webhooks/namespace/namespace.go) in  *)
(* front of one namespace, from one request to the next.                   *)
(*                                                                         *)
(* The hook keeps no state and a request concerns one namespace, so one    *)
(* namespace, whose name is any of Name, is enough.  The API server sends  *)
(* the stored object as OldObject and stores what the hook allows.         *)
(* Regular expressions are the sets of names and groups they match.  What  *)
(* cannot be decoded is a verdict of Dispatcher.                           *)
(***************************************************************************)
EXTENDS Naturals, FiniteSets

CONSTANTS
    Name,                    \* namespace names
    PrivilegedNamespaces,    \* those that hookconfig.IsPrivilegedNamespace matches
    BadNamespaces,           \* those that BadNamespaceRe matches
    LayeredNamespaces,       \* those that layeredProductNamespaceRe matches
    User,                    \* requesters: records [username, groups]
    PrivilegedSAGroups,      \* groups that privilegedServiceAccountsRe matches
    Label,                   \* label keys
    protectedLabels,
    Values,                  \* label values
    Empty,                   \* the empty string
    None                     \* no namespace

ASSUME NamespaceAssumption ==
    /\ IsFiniteSet(Label)
    /\ protectedLabels \subseteq Label

clusterAdminUsers == {"kube:admin", "system:admin", "backplane-cluster-admin"}
clusterAdminGroup == "cluster-admins"
sreAdminGroups == {"system:serviceaccounts:openshift-backplane-srep"}
layeredProductAdminGroupName == "layered-sre-cluster-admins"

\* Labels are a map from some of the keys to values.
LabelMap == UNION {[L -> Values] : L \in SUBSET Label}

VARIABLES
    name,      \* the name of the namespace
    ns,        \* its labels, or None if it does not exist
    granted,   \* history: its protected labels as someone trusted last left them
    author     \* history: who last changed it, or None

vars == <<name, ns, granted, author>>

-----------------------------------------------------------------------------
(* The hook. *)

amIAdmin(user) ==
    \/ user.username \in clusterAdminUsers
    \/ clusterAdminGroup \in user.groups
    \/ user.groups \cap sreAdminGroups # {}

\* The value Go's map gives for a key: the empty string if there is none.
Lookup(labels, key) == IF key \in DOMAIN labels THEN labels[key] ELSE Empty

doesNamespaceContainProtectedLabels(labels) == DOMAIN labels \cap protectedLabels

\* Faulty variant: only the number of labels is compared.
CountedLabelChanges(op, old, new) ==
    LET inOld == doesNamespaceContainProtectedLabels(old)
        inNew == doesNamespaceContainProtectedLabels(new)
    IN  \/ op = "CREATE" /\ inNew # {}
        \/ op = "UPDATE" /\ Cardinality(inOld) # Cardinality(inNew)

\* On an update the number of protected labels is compared, and then the value
\* of those that were there before.
unauthorizedLabelChanges(op, old, new) ==
    LET inOld == doesNamespaceContainProtectedLabels(old)
        inNew == doesNamespaceContainProtectedLabels(new)
    IN  \/ op = "CREATE" /\ inNew # {}
        \/ /\ op = "UPDATE"
           /\ \/ Cardinality(inOld) # Cardinality(inNew)
              \/ \E key \in inOld : Lookup(old, key) # Lookup(new, key)

\* The requests that are allowed before any other check.
Exempt(user, n) ==
    \/ amIAdmin(user)
    \/ user.groups \cap PrivilegedSAGroups # {}
    \/ layeredProductAdminGroupName \in user.groups /\ n \in LayeredNamespaces

\* Faulty variant: the two checks on the name are left out.
authorizedByLabels(user, n, op, old, new) ==
    Exempt(user, n) \/ ~unauthorizedLabelChanges(op, old, new)

authorized(user, n, op, old, new) ==
    \/ Exempt(user, n)
    \/ /\ n \notin PrivilegedNamespaces
       /\ n \notin BadNamespaces
       /\ ~unauthorizedLabelChanges(op, old, new)

-----------------------------------------------------------------------------
(* The namespace, from request to request. *)

NoLabels == [key \in {} |-> Empty]

Protected(labels) ==
    [key \in doesNamespaceContainProtectedLabels(labels) |-> labels[key]]

Init ==
    /\ name \in Name
    /\ ns = None
    /\ granted = NoLabels
    /\ author = None

Create(user, labels) ==
    /\ ns = None
    /\ authorized(user, name, "CREATE", NoLabels, labels)
    /\ ns' = labels
    /\ granted' = IF Exempt(user, name) THEN Protected(labels) ELSE NoLabels
    /\ author' = user
    /\ UNCHANGED name

Update(user, labels) ==
    /\ ns # None
    /\ authorized(user, name, "UPDATE", ns, labels)
    /\ ns' = labels
    /\ granted' = IF Exempt(user, name) THEN Protected(labels) ELSE granted
    /\ author' = user
    /\ UNCHANGED name

Delete(user) ==
    /\ ns # None
    /\ authorized(user, name, "DELETE", ns, NoLabels)
    /\ ns' = None
    /\ granted' = NoLabels
    /\ author' = user
    /\ UNCHANGED name

Next ==
    \E user \in User :
      \/ \E labels \in LabelMap : Create(user, labels) \/ Update(user, labels)
      \/ Delete(user)

Spec == Init /\ [][Next]_vars

-----------------------------------------------------------------------------
(* Properties. *)

\* The type invariant.
TypeOK ==
    /\ name \in Name
    /\ ns \in LabelMap \cup {None}
    /\ granted \in LabelMap
    /\ author \in User \cup {None}

(***************************************************************************)
(* "customers may not set or change the values of these Namespace labels"  *)
(* (docString): after any sequence of requests the protected labels of a   *)
(* namespace are those that someone trusted last gave it.                  *)
(***************************************************************************)
LabelsAsGranted == ns # None => Protected(ns) = granted

(***************************************************************************)
(* What the update check keeps even where a label has the empty value:     *)
(* customers never end up with more or fewer protected labels than someone *)
(* trusted gave the namespace, nor with one of the others removed or       *)
(* changed.                                                                *)
(***************************************************************************)
LabelsKept ==
    ns # None =>
      /\ Cardinality(doesNamespaceContainProtectedLabels(ns)) = Cardinality(DOMAIN granted)
      /\ \A key \in DOMAIN granted : granted[key] # Empty => Lookup(ns, key) = granted[key]

(***************************************************************************)
(* A managed namespace, or one with a name that disturbs DNS, is made,     *)
(* changed and deleted by admins, privileged service accounts and, for     *)
(* redhat- namespaces, layered product admins only.                        *)
(***************************************************************************)
ManagedNamespacesByTrustedOnly ==
    name \in PrivilegedNamespaces \cup BadNamespaces /\ author # None =>
      \/ author.username \in clusterAdminUsers
      \/ author.groups \cap ({clusterAdminGroup} \cup sreAdminGroups \cup PrivilegedSAGroups) # {}
      \/ name \in LayeredNamespaces /\ layeredProductAdminGroupName \in author.groups
=============================================================================
