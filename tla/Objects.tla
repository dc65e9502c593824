-------------------------------- MODULE Objects --------------------------------
(***************************************************************************)
(* One object that the hooks of pkg/webhooks guard, from one request to    *)
(* the next: of any kind, name and namespace of Object, written and        *)
(* deleted by any User.                                                    *)
(*                                                                         *)
(* The hooks keep no state and a request concerns one object, so one       *)
(* object is enough.  The API server is external: it calls every hook that *)
(* has a rule for the request, sends the stored object as the old one,     *)
(* needs all of them to allow, and applies FailurePolicy where there is no *)
(* answer.  up says whether the calls of a request are answered at all.    *)
(***************************************************************************)
EXTENDS HookRequests

CONSTANTS
    User,         \* requesters: records [username, groups]
    Object,       \* objects: records [kind, ns, name]
    Content(_)    \* Content(k): the contents an object of kind k can have

cl == INSTANCE ClusterLogging
cr == INSTANCE ClusterRole
crb == INSTANCE ClusterRoleBinding
crd == INSTANCE CustomResourceDefinitions
hive == INSTANCE HiveOwnership
icp == INSTANCE ImageContentPolicies
ic == INSTANCE IngressConfig
ingress == INSTANCE IngressController
np == INSTANCE NetworkPolicies
node == INSTANCE Node
pod == INSTANCE Pod
pr == INSTANCE PrometheusRule
ru == INSTANCE RegularUser
sa == INSTANCE ServiceAccount
scc == INSTANCE SCC
tp == INSTANCE TechPreviewNoUpgrade

\* The kinds of object, and the API group and resource of each.
GroupResource(g, r) == [group |-> g, resource |-> r]
Kinds == [
    ClusterLogging |-> GroupResource("logging.openshift.io", "clusterloggings"),
    ClusterResourceQuota |-> GroupResource("quota.openshift.io", "clusterresourcequotas"),
    ClusterRole |-> GroupResource("rbac.authorization.k8s.io", "clusterroles"),
    ClusterRoleBinding |-> GroupResource("rbac.authorization.k8s.io", "clusterrolebindings"),
    ClusterVersion |-> GroupResource("config.openshift.io", "clusterversions"),
    ConfigMap |-> GroupResource("", "configmaps"),
    CustomDomain |-> GroupResource("managed.openshift.io", "customdomains"),
    CustomResourceDefinition |-> GroupResource("apiextensions.k8s.io", "customresourcedefinitions"),
    FeatureGate |-> GroupResource("config.openshift.io", "featuregates"),
    ImageContentSourcePolicy |-> GroupResource("operator.openshift.io", "imagecontentsourcepolicies"),
    ImageDigestMirrorSet |-> GroupResource("config.openshift.io", "imagedigestmirrorsets"),
    ImageTagMirrorSet |-> GroupResource("config.openshift.io", "imagetagmirrorsets"),
    Ingress |-> GroupResource("config.openshift.io", "ingresses"),
    IngressController |-> GroupResource("operator.openshift.io", "ingresscontrollers"),
    Machine |-> GroupResource("machine.openshift.io", "machines"),
    MachineConfig |-> GroupResource("machineconfiguration.openshift.io", "machineconfigs"),
    MustGather |-> GroupResource("managed.openshift.io", "mustgathers"),
    NetNamespace |-> GroupResource("network.openshift.io", "netnamespaces"),
    NetworkPolicy |-> GroupResource("networking.k8s.io", "networkpolicies"),
    Node |-> GroupResource("", "nodes"),
    Pod |-> GroupResource("", "pods"),
    PrometheusRule |-> GroupResource("monitoring.coreos.com", "prometheusrules"),
    SecurityContextConstraints |-> GroupResource("security.openshift.io", "securitycontextconstraints"),
    ServiceAccount |-> GroupResource("", "serviceaccounts"),
    SubjectPermission |-> GroupResource("managed.openshift.io", "subjectpermissions")]

\* Whoever the API server lets in has a name.
ASSUME UsersNamed == \A u \in User : u.username # ""

ASSUME ObjectsAssumption ==
    /\ \A u \in User : u.username = unauthenticated => u.groups \cap PrivilegedGroups = {}
    /\ \A o \in Object : o.kind \in DOMAIN Kinds /\ None \notin Content(o.kind)
    /\ \A c \in Content("ClusterLogging") : c.spec # None =>
         \A age \in {c.spec.app, c.spec.infra, c.spec.audit} : age # None => age.number \in Nat
    /\ scc!allowedUsers \cup ru!clusterVersionUsers \cup ru!machineConfigUsers \cup
       hive!privilegedUsers \subseteq (SystemUsers \ {unauthenticated}) \cup KubeUsers \cup {backplane}
    /\ ru!ceeGroup \in PrivilegedGroups

VARIABLES
    obj,       \* the object: its kind, namespace and name
    stored,    \* its content, or None if it does not exist
    before,    \* history: the content that the last change replaced
    author,    \* history: who made the last change, or None
    vetted,    \* history: whether the calls for the last change were answered
    granted,   \* history: the content as someone entitled to it, or a change
               \* that was not vetted, last left it
    answers    \* what the hooks answered to the last request

vars == <<obj, stored, before, author, vetted, granted, answers>>

-----------------------------------------------------------------------------
(* The hooks, by the package they are in. *)

Rules == [
    clusterlogging |-> cl!rules, clusterrole |-> cr!rules, clusterrolebinding |-> crb!rules,
    customresourcedefinitions |-> crd!rules, hiveownership |-> hive!rules,
    imagecontentpolicies |-> icp!rules, ingressconfig |-> ic!rules,
    ingresscontroller |-> ingress!rules, networkpolicies |-> np!rules, node |-> node!rules,
    pod |-> pod!rules, prometheusrule |-> pr!rules, regularuser |-> ru!rules,
    serviceaccount |-> sa!rules, scc |-> scc!rules, techpreviewnoupgrade |-> tp!rules]

Valid(h, r) ==
    CASE h = "clusterlogging" -> cl!Validate(r)
      [] h = "clusterrole" -> cr!Validate(r)
      [] h = "clusterrolebinding" -> crb!Validate(r)
      [] h = "customresourcedefinitions" -> crd!Validate(r)
      [] h = "hiveownership" -> hive!Validate(r)
      [] h = "imagecontentpolicies" -> icp!Validate(r)
      [] h = "ingressconfig" -> ic!Validate(r)
      [] h = "ingresscontroller" -> ingress!Validate(r)
      [] h = "networkpolicies" -> np!Validate(r)
      [] h = "node" -> node!Validate(r)
      [] h = "pod" -> pod!Validate(r)
      [] h = "prometheusrule" -> pr!Validate(r)
      [] h = "regularuser" -> ru!Validate(r)
      [] h = "serviceaccount" -> sa!Validate(r)
      [] h = "scc" -> scc!Validate(r)
      [] h = "techpreviewnoupgrade" -> tp!Validate(r)

Authorized(h, r) ==
    CASE h = "clusterlogging" -> cl!authorized(r)
      [] h = "clusterrole" -> cr!authorized(r)
      [] h = "clusterrolebinding" -> crb!authorized(r)
      [] h = "customresourcedefinitions" -> crd!authorized(r)
      [] h = "hiveownership" -> hive!authorized(r)
      [] h = "imagecontentpolicies" -> icp!Authorized(r)
      [] h = "ingressconfig" -> ic!Authorized(r)
      [] h = "ingresscontroller" -> ingress!authorized(r)
      [] h = "networkpolicies" -> np!authorized(r)
      [] h = "node" -> node!authorized(r)
      [] h = "pod" -> pod!authorized(r)
      [] h = "prometheusrule" -> pr!authorized(r)
      [] h = "regularuser" -> ru!authorized(r)
      [] h = "serviceaccount" -> sa!authorized(r)
      [] h = "scc" -> scc!authorized(r)
      [] h = "techpreviewnoupgrade" -> tp!authorized(r)

\* HandleRequest: a hook is asked for an answer only if it finds the request valid.
HandleRequest(h, r) == IF Valid(h, r) THEN Authorized(h, r) ELSE "invalid"

FailurePolicy(h) == IF h = "imagecontentpolicies" THEN icp!FailurePolicy ELSE "Ignore"

-----------------------------------------------------------------------------
(* The API server. *)

Request(u, op, new) ==
    [user |-> u, op |-> op, group |-> Kinds[obj.kind].group, kind |-> obj.kind,
     ns |-> obj.ns, name |-> obj.name, old |-> stored, new |-> new]

\* A selector matches a request if it matches the old or the new object.
Selected(h, r) == h = "hiveownership" => hive!ObjectSelector(r.old) \/ hive!ObjectSelector(r.new)

\* Whether a rule is for operation op on objects of kind k.
Matches(rule, k, op) ==
    /\ op \in rule.operations
    /\ Kinds[k].group \in rule.groups
    /\ Kinds[k].resource \in rule.resources \/ "*/*" \in rule.resources

Registered == [k \in DOMAIN Kinds |-> [op \in Operations |->
    {h \in DOMAIN Rules : \E rule \in Rules[h] : Matches(rule, k, op)}]]

Called(r) == {h \in Registered[r.kind][r.op] : Selected(h, r)}

\* "error" is a refusal with the UID of the request; the others are no answer.
NoAnswer == {"invalid", "undecodable", "panic", "none"}

Answers(r, up) == [h \in Called(r) |-> IF up THEN HandleRequest(h, r) ELSE "none"]

Admitted(given) ==
    \A h \in DOMAIN given :
        \/ given[h] = "allow"
        \/ given[h] \in NoAnswer /\ FailurePolicy(h) = "Ignore"

Vetted(given) == \A h \in DOMAIN given : given[h] \notin NoAnswer

-----------------------------------------------------------------------------
(* Who is entitled to change what. *)

\* Requesters that are neither a part of the platform nor its operators.
Customer(u) ==
    \/ u.username = unauthenticated
    \/ /\ u.username \notin SystemUsers \cup KubeUsers \cup {backplane}
       /\ u.groups \cap PrivilegedGroups = {}

\* Service accounts change MachineConfigs and ClusterVersions only if they are
\* listed, and customers MachineConfigs only as cluster-admins.
Entitled(u, kind) ==
    CASE kind = "MachineConfig" ->
            \/ "cluster-admins" \in u.groups
            \/ ~Customer(u) /\ u.username \notin ServiceAccountUsers \ ru!machineConfigUsers
      [] kind = "ClusterVersion" ->
            ~Customer(u) /\ (\/ u.username \notin ServiceAccountUsers \ ru!clusterVersionUsers
                             \/ srep \in u.groups)
      [] OTHER -> ~Customer(u)

-----------------------------------------------------------------------------
(* The specification. *)

Init ==
    /\ obj \in Object
    /\ stored = None /\ before = None /\ author = None /\ granted = None
    /\ vetted = TRUE
    /\ answers = {}

\* User u asks for the content new, or None, in place of the stored one.
Change(u, op, new, up) ==
    LET given == Answers(Request(u, op, new), up)
    IN  /\ answers' = {given[h] : h \in DOMAIN given}
        /\ IF Admitted(given)
           THEN /\ stored' = new
                /\ before' = stored
                /\ author' = u
                /\ vetted' = Vetted(given)
                /\ granted' = IF Entitled(u, obj.kind) \/ ~Vetted(given) THEN new ELSE granted
           ELSE UNCHANGED <<stored, before, author, vetted, granted>>
        /\ UNCHANGED obj

Create(u) ==
    /\ stored = None
    /\ \E new \in Content(obj.kind), up \in BOOLEAN : Change(u, "CREATE", new, up)

Update(u) ==
    /\ stored # None
    /\ \E new \in Content(obj.kind), up \in BOOLEAN : Change(u, "UPDATE", new, up)

Delete(u) ==
    /\ stored # None
    /\ \E up \in BOOLEAN : Change(u, "DELETE", None, up)

Next == \E u \in User : Create(u) \/ Update(u) \/ Delete(u)

Spec == Init /\ [][Next]_vars
-----------------------------------------------------------------------------
(* Properties. *)

\* The object is one of Object and its contents are of its kind.
TypeOK ==
    /\ obj \in Object
    /\ {stored, before, granted} \subseteq Content(obj.kind) \cup {None}
    /\ author \in User \cup {None}
    /\ vetted \in BOOLEAN

\* Objects that only those entitled to them may change.  A default SCC may be
\* created by anyone while there is none.
Managed ==
    \/ obj.kind \in {"Machine", "SubjectPermission", "MustGather", "Ingress",
                    "MachineConfig", "ClusterVersion"}
    \/ obj.kind = "CustomResourceDefinition" /\ IsProtectedByResourceName(obj.name)
    \/ obj.kind = "NetworkPolicy" /\ obj.ns \in PrivilegedNamespaces \ {"openshift-ingress"}
    \/ obj.kind = "ConfigMap" /\ obj.name = "user-ca-bundle" /\ obj.ns = "openshift-config"
    \/ obj.kind = "NetNamespace" /\ obj.name \in PrivilegedNamespaces \cup BadNamespaces
    \/ /\ obj.kind = "SecurityContextConstraints"
       /\ obj.name \in scc!defaultSCCs /\ granted # None

\* However requests follow each other, a managed object is what someone entitled
\* to it last made of it, absent if that is what they left; only a request whose
\* calls went unanswered can make it otherwise.
ManagedObjectsKept == Managed => stored = granted

\* The same for the objects that a label decides about: a quota with the managed
\* label stays as it was left, label included, and so does a rule of a managed
\* namespace that was left without the privileged label.  No sequence of updates
\* first changes the label and then the rest.
ManagedLabelsKept ==
    /\ obj.kind = "ClusterResourceQuota" /\ granted # None =>
         (granted.spec = "true" => stored = granted)
    /\ /\ obj.kind = "PrometheusRule" /\ granted # None
       /\ obj.ns \in PrivilegedNamespaces \ pr!privilegedNamespacesAllowed
       => (granted.spec # "stackrox" => stored = granted)

\* Customers may update roles, bindings and service accounts, and a protected one
\* is still there after whatever they do.  A binding is protected by the subjects
\* it has when it is deleted.
ProtectedAccessStays ==
    /\ \/ obj.kind = "ClusterRole" /\ obj.name \in cr!protectedClusterRoles \cup BackplaneRoles
       \/ /\ obj.kind = "ServiceAccount"
          /\ obj.ns \in PrivilegedNamespaces \ sa!exceptionNamespaces
          /\ obj.name \notin {"builder", "default", "deployer"}
       => (granted # None => stored # None)
    /\ obj.kind = "ClusterRoleBinding" /\ stored = None /\ before # None /\ vetted =>
         \/ ~Customer(author)
         \/ before.spec.subjects \cap (OpenshiftNamespaces \ crb!exceptionNamespaces) = {}
         \/ author.username = "cluster-admin" /\ before.spec.command = "oc adm must-gather"

\* What hooks check on the new object recovers from an outage: whatever was
\* stored without an answer, the content that a customer's last answered write
\* left is one the hook accepts.
LastAnsweredWriteConforms ==
    vetted /\ stored # None =>
        /\ obj.kind = "FeatureGate" => stored.spec # "TechPreviewNoUpgrade"
        /\ Customer(author) =>
            /\ obj.kind = "IngressController" => stored.spec \cap MasterKeys = {}
            /\ obj.kind = "Node" => stored.spec \cap node!managedRoles = {}
            /\ obj.kind = "NetworkPolicy" /\ obj.ns = "openshift-ingress" =>
                 stored.spec \notin {None, "default"}

\* No object mirrors a system registry, also when calls go unanswered: the hook
\* of the mirror sets is the one that fails closed.
MirrorsFailClosed ==
    obj.kind \in {"ImageDigestMirrorSet", "ImageTagMirrorSet", "ImageContentSourcePolicy"} =>
        (stored # None => stored.spec \cap UnauthorizedMirrors = {})

\* The length of a MaxAge in seconds, and whether an integer holds it.
Seconds == [y |-> 31536000, M |-> 2678400, w |-> 604800, d |-> 86400, h |-> 3600,
            H |-> 3600, m |-> 60, s |-> 1]
Fits(age) == age.number <= (Uint - 1) \div Seconds[age.unit]

Within(age, least, most) ==
    Fits(age) => /\ least <= age.number * Seconds[age.unit]
                 /\ age.number * Seconds[age.unit] <= most

\* A retention policy is checked one version late: on an update the hook looks at
\* the version that is replaced.  So the first version is in range, and one out of
\* range is never replaced by another, as far as the lengths fit an integer.
RetentionCheckedOneLate ==
    obj.kind = "ClusterLogging" /\ vetted /\ stored # None =>
        LET policy == (IF before # None THEN before ELSE stored).spec
        IN  /\ Within(policy.app, 3600, 604800)
            /\ Within(policy.infra, 3600, 3600)
            /\ Within(policy.audit, 3600, 3600)

\* The rules of a hook and what it reads of a request agree: no request it is
\* called for is one it cannot validate or decode, an error is a MaxAge that is no
\* time, and a panic an ingress controller without a node placement or a
\* ClusterLogging without a retention policy.
HooksAnswer ==
    answers \subseteq {"allow", "deny", "none"} \cup
        CASE obj.kind = "ClusterLogging" -> {"error", "panic"}
          [] obj.kind = "IngressController" -> {"panic"}
          [] OTHER -> {}
=============================================================================
