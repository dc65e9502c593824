----------------------------- MODULE ObjectsProofs -----------------------------
(***************************************************************************)
(* Proofs about Objects, for every set of users, objects and contents and  *)
(* every width of the integers: managed objects and labelled objects stay  *)
(* as those entitled to them left them, mirror sets fail closed, what the  *)
(* hooks check on the new object holds after every answered write, a       *)
(* retention policy is checked one version late, and the hooks answer.     *)
(***************************************************************************)
EXTENDS Objects, TLAPS

-----------------------------------------------------------------------------
(* Which hook a request is sent to. *)

\* A rule of a hook that is for a kind and an operation registers the hook.
LEMMA RegisteredBy ==
    ASSUME NEW h \in DOMAIN Rules, NEW k \in DOMAIN Kinds, NEW op \in Operations,
           \E rule \in Rules[h] : Matches(rule, k, op)
    PROVE  h \in Registered[k][op]
BY DEF Registered

\* The regular-user hook is sent every operation on the kinds it guards.
LEMMA RegularUserRegistered ==
    ASSUME NEW op \in Operations
    PROVE  \A k \in {"Machine", "SubjectPermission", "MustGather", "MachineConfig",
                    "ClusterVersion", "ConfigMap", "NetNamespace"} :
               "regularuser" \in Registered[k][op]
<1>1. "regularuser" \in DOMAIN Rules /\ Rules["regularuser"] = ru!rules
  BY DEF Rules
<1>2. "regularuser" \in Registered["Machine"][op]
  <2>1. /\ "Machine" \in DOMAIN Kinds
        /\ Kinds["Machine"].group = "machine.openshift.io"
        /\ Kinds["Machine"].resource = "machines"
    BY DEF Kinds, GroupResource
  <2>2. \E rule \in ru!rules : Matches(rule, "Machine", op)
    BY <2>1 DEF ru!rules, ru!Rule, ru!Operations, Operations, Matches
  <2> QED BY <1>1, <2>1, <2>2, RegisteredBy
<1>3. "regularuser" \in Registered["SubjectPermission"][op]
  <2>1. /\ "SubjectPermission" \in DOMAIN Kinds
        /\ Kinds["SubjectPermission"].group = "managed.openshift.io"
        /\ Kinds["SubjectPermission"].resource = "subjectpermissions"
    BY DEF Kinds, GroupResource
  <2>2. \E rule \in ru!rules : Matches(rule, "SubjectPermission", op)
    BY <2>1 DEF ru!rules, ru!Rule, ru!Operations, Operations, Matches
  <2> QED BY <1>1, <2>1, <2>2, RegisteredBy
<1>4. "regularuser" \in Registered["MustGather"][op]
  <2>1. /\ "MustGather" \in DOMAIN Kinds
        /\ Kinds["MustGather"].group = "managed.openshift.io"
        /\ Kinds["MustGather"].resource = "mustgathers"
    BY DEF Kinds, GroupResource
  <2>2. \E rule \in ru!rules : Matches(rule, "MustGather", op)
    BY <2>1 DEF ru!rules, ru!Rule, ru!Operations, Operations, Matches
  <2> QED BY <1>1, <2>1, <2>2, RegisteredBy
<1>5. "regularuser" \in Registered["MachineConfig"][op]
  <2>1. /\ "MachineConfig" \in DOMAIN Kinds
        /\ Kinds["MachineConfig"].group = "machineconfiguration.openshift.io"
        /\ Kinds["MachineConfig"].resource = "machineconfigs"
    BY DEF Kinds, GroupResource
  <2>2. \E rule \in ru!rules : Matches(rule, "MachineConfig", op)
    BY <2>1 DEF ru!rules, ru!Rule, ru!Operations, Operations, Matches
  <2> QED BY <1>1, <2>1, <2>2, RegisteredBy
<1>6. "regularuser" \in Registered["ClusterVersion"][op]
  <2>1. /\ "ClusterVersion" \in DOMAIN Kinds
        /\ Kinds["ClusterVersion"].group = "config.openshift.io"
        /\ Kinds["ClusterVersion"].resource = "clusterversions"
    BY DEF Kinds, GroupResource
  <2>2. \E rule \in ru!rules : Matches(rule, "ClusterVersion", op)
    BY <2>1 DEF ru!rules, ru!Rule, ru!Operations, Operations, Matches
  <2> QED BY <1>1, <2>1, <2>2, RegisteredBy
<1>7. "regularuser" \in Registered["ConfigMap"][op]
  <2>1. /\ "ConfigMap" \in DOMAIN Kinds
        /\ Kinds["ConfigMap"].group = ""
        /\ Kinds["ConfigMap"].resource = "configmaps"
    BY DEF Kinds, GroupResource
  <2>2. \E rule \in ru!rules : Matches(rule, "ConfigMap", op)
    BY <2>1 DEF ru!rules, ru!Rule, ru!Operations, Operations, Matches
  <2> QED BY <1>1, <2>1, <2>2, RegisteredBy
<1>8. "regularuser" \in Registered["NetNamespace"][op]
  <2>1. /\ "NetNamespace" \in DOMAIN Kinds
        /\ Kinds["NetNamespace"].group = "network.openshift.io"
        /\ Kinds["NetNamespace"].resource = "netnamespaces"
    BY DEF Kinds, GroupResource
  <2>2. \E rule \in ru!rules : Matches(rule, "NetNamespace", op)
    BY <2>1 DEF ru!rules, ru!Rule, ru!Operations, Operations, Matches
  <2> QED BY <1>1, <2>1, <2>2, RegisteredBy
<1> QED BY <1>2, <1>3, <1>4, <1>5, <1>6, <1>7, <1>8

\* The hooks that are sent every operation on one kind.
LEMMA AlwaysRegistered ==
    ASSUME NEW op \in Operations
    PROVE  /\ "ingressconfig" \in Registered["Ingress"][op]
           /\ "customresourcedefinitions" \in Registered["CustomResourceDefinition"][op]
           /\ "networkpolicies" \in Registered["NetworkPolicy"][op]
           /\ "prometheusrule" \in Registered["PrometheusRule"][op]
           /\ "node" \in Registered["Node"][op]
<1>1. "ingressconfig" \in Registered["Ingress"][op]
  <2>1. "ingressconfig" \in DOMAIN Rules /\ Rules["ingressconfig"] = ic!rules
    BY DEF Rules
  <2>2. /\ "Ingress" \in DOMAIN Kinds
        /\ Kinds["Ingress"].group = "config.openshift.io"
        /\ Kinds["Ingress"].resource = "ingresses"
    BY DEF Kinds, GroupResource
  <2>3. \E rule \in ic!rules : Matches(rule, "Ingress", op)
    BY <2>2 DEF ic!rules, ic!Rule, ic!Operations, Operations, Matches
  <2> QED BY <2>1, <2>2, <2>3, RegisteredBy
<1>2. "customresourcedefinitions" \in Registered["CustomResourceDefinition"][op]
  <2>1. "customresourcedefinitions" \in DOMAIN Rules /\ Rules["customresourcedefinitions"] = crd!rules
    BY DEF Rules
  <2>2. /\ "CustomResourceDefinition" \in DOMAIN Kinds
        /\ Kinds["CustomResourceDefinition"].group = "apiextensions.k8s.io"
        /\ Kinds["CustomResourceDefinition"].resource = "customresourcedefinitions"
    BY DEF Kinds, GroupResource
  <2>3. \E rule \in crd!rules : Matches(rule, "CustomResourceDefinition", op)
    BY <2>2 DEF crd!rules, crd!Rule, crd!Operations, Operations, Matches
  <2> QED BY <2>1, <2>2, <2>3, RegisteredBy
<1>3. "networkpolicies" \in Registered["NetworkPolicy"][op]
  <2>1. "networkpolicies" \in DOMAIN Rules /\ Rules["networkpolicies"] = np!rules
    BY DEF Rules
  <2>2. /\ "NetworkPolicy" \in DOMAIN Kinds
        /\ Kinds["NetworkPolicy"].group = "networking.k8s.io"
        /\ Kinds["NetworkPolicy"].resource = "networkpolicies"
    BY DEF Kinds, GroupResource
  <2>3. \E rule \in np!rules : Matches(rule, "NetworkPolicy", op)
    BY <2>2 DEF np!rules, np!Rule, np!Operations, Operations, Matches
  <2> QED BY <2>1, <2>2, <2>3, RegisteredBy
<1>4. "prometheusrule" \in Registered["PrometheusRule"][op]
  <2>1. "prometheusrule" \in DOMAIN Rules /\ Rules["prometheusrule"] = pr!rules
    BY DEF Rules
  <2>2. /\ "PrometheusRule" \in DOMAIN Kinds
        /\ Kinds["PrometheusRule"].group = "monitoring.coreos.com"
        /\ Kinds["PrometheusRule"].resource = "prometheusrules"
    BY DEF Kinds, GroupResource
  <2>3. \E rule \in pr!rules : Matches(rule, "PrometheusRule", op)
    BY <2>2 DEF pr!rules, pr!Rule, pr!Operations, Operations, Matches
  <2> QED BY <2>1, <2>2, <2>3, RegisteredBy
<1>5. "node" \in Registered["Node"][op]
  <2>1. "node" \in DOMAIN Rules /\ Rules["node"] = node!rules
    BY DEF Rules
  <2>2. /\ "Node" \in DOMAIN Kinds
        /\ Kinds["Node"].group = ""
        /\ Kinds["Node"].resource = "nodes"
    BY DEF Kinds, GroupResource
  <2>3. \E rule \in node!rules : Matches(rule, "Node", op)
    BY <2>2 DEF node!rules, node!Rule, node!Operations, Operations, Matches
  <2> QED BY <2>1, <2>2, <2>3, RegisteredBy
<1> QED BY <1>1, <1>2, <1>3, <1>4, <1>5

\* The hooks that are sent the operations on an object that exists.
LEMMA ExistingRegistered ==
    ASSUME NEW op \in {"UPDATE", "DELETE"}
    PROVE  /\ "scc" \in Registered["SecurityContextConstraints"][op]
           /\ "hiveownership" \in Registered["ClusterResourceQuota"][op]
<1> op \in Operations BY DEF Operations
<1>1. "scc" \in Registered["SecurityContextConstraints"][op]
  <2>1. "scc" \in DOMAIN Rules /\ Rules["scc"] = scc!rules
    BY DEF Rules
  <2>2. /\ "SecurityContextConstraints" \in DOMAIN Kinds
        /\ Kinds["SecurityContextConstraints"].group = "security.openshift.io"
        /\ Kinds["SecurityContextConstraints"].resource = "securitycontextconstraints"
    BY DEF Kinds, GroupResource
  <2>3. \E rule \in scc!rules : Matches(rule, "SecurityContextConstraints", op)
    BY <2>2 DEF scc!rules, scc!Rule, Operations, Matches
  <2> QED BY <2>1, <2>2, <2>3, RegisteredBy
<1>2. "hiveownership" \in Registered["ClusterResourceQuota"][op]
  <2>1. "hiveownership" \in DOMAIN Rules /\ Rules["hiveownership"] = hive!rules
    BY DEF Rules
  <2>2. /\ "ClusterResourceQuota" \in DOMAIN Kinds
        /\ Kinds["ClusterResourceQuota"].group = "quota.openshift.io"
        /\ Kinds["ClusterResourceQuota"].resource = "clusterresourcequotas"
    BY DEF Kinds, GroupResource
  <2>3. \E rule \in hive!rules : Matches(rule, "ClusterResourceQuota", op)
    BY <2>2 DEF hive!rules, hive!Rule, Operations, Matches
  <2> QED BY <2>1, <2>2, <2>3, RegisteredBy
<1> QED BY <1>1, <1>2

\* The hooks that are sent the operations with a new object.
LEMMA WriteRegistered ==
    ASSUME NEW op \in {"CREATE", "UPDATE"}
    PROVE  /\ "techpreviewnoupgrade" \in Registered["FeatureGate"][op]
           /\ "ingresscontroller" \in Registered["IngressController"][op]
           /\ "clusterlogging" \in Registered["ClusterLogging"][op]
           /\ "imagecontentpolicies" \in Registered["ImageDigestMirrorSet"][op]
           /\ "imagecontentpolicies" \in Registered["ImageTagMirrorSet"][op]
           /\ "imagecontentpolicies" \in Registered["ImageContentSourcePolicy"][op]
<1> op \in Operations BY DEF Operations
<1>1. "techpreviewnoupgrade" \in Registered["FeatureGate"][op]
  <2>1. "techpreviewnoupgrade" \in DOMAIN Rules /\ Rules["techpreviewnoupgrade"] = tp!rules
    BY DEF Rules
  <2>2. /\ "FeatureGate" \in DOMAIN Kinds
        /\ Kinds["FeatureGate"].group = "config.openshift.io"
        /\ Kinds["FeatureGate"].resource = "featuregates"
    BY DEF Kinds, GroupResource
  <2>3. \E rule \in tp!rules : Matches(rule, "FeatureGate", op)
    BY <2>2 DEF tp!rules, tp!Rule, Operations, Matches
  <2> QED BY <2>1, <2>2, <2>3, RegisteredBy
<1>2. "ingresscontroller" \in Registered["IngressController"][op]
  <2>1. "ingresscontroller" \in DOMAIN Rules /\ Rules["ingresscontroller"] = ingress!rules
    BY DEF Rules
  <2>2. /\ "IngressController" \in DOMAIN Kinds
        /\ Kinds["IngressController"].group = "operator.openshift.io"
        /\ Kinds["IngressController"].resource = "ingresscontrollers"
    BY DEF Kinds, GroupResource
  <2>3. \E rule \in ingress!rules : Matches(rule, "IngressController", op)
    BY <2>2 DEF ingress!rules, ingress!Rule, Operations, Matches
  <2> QED BY <2>1, <2>2, <2>3, RegisteredBy
<1>3. "clusterlogging" \in Registered["ClusterLogging"][op]
  <2>1. "clusterlogging" \in DOMAIN Rules /\ Rules["clusterlogging"] = cl!rules
    BY DEF Rules
  <2>2. /\ "ClusterLogging" \in DOMAIN Kinds
        /\ Kinds["ClusterLogging"].group = "logging.openshift.io"
        /\ Kinds["ClusterLogging"].resource = "clusterloggings"
    BY DEF Kinds, GroupResource
  <2>3. \E rule \in cl!rules : Matches(rule, "ClusterLogging", op)
    BY <2>2 DEF cl!rules, cl!Rule, Operations, Matches
  <2> QED BY <2>1, <2>2, <2>3, RegisteredBy
<1>4. "imagecontentpolicies" \in Registered["ImageDigestMirrorSet"][op]
  <2>1. "imagecontentpolicies" \in DOMAIN Rules /\ Rules["imagecontentpolicies"] = icp!rules
    BY DEF Rules
  <2>2. /\ "ImageDigestMirrorSet" \in DOMAIN Kinds
        /\ Kinds["ImageDigestMirrorSet"].group = "config.openshift.io"
        /\ Kinds["ImageDigestMirrorSet"].resource = "imagedigestmirrorsets"
    BY DEF Kinds, GroupResource
  <2>3. \E rule \in icp!rules : Matches(rule, "ImageDigestMirrorSet", op)
    BY <2>2 DEF icp!rules, icp!Rule, Operations, Matches
  <2> QED BY <2>1, <2>2, <2>3, RegisteredBy
<1>5. "imagecontentpolicies" \in Registered["ImageTagMirrorSet"][op]
  <2>1. "imagecontentpolicies" \in DOMAIN Rules /\ Rules["imagecontentpolicies"] = icp!rules
    BY DEF Rules
  <2>2. /\ "ImageTagMirrorSet" \in DOMAIN Kinds
        /\ Kinds["ImageTagMirrorSet"].group = "config.openshift.io"
        /\ Kinds["ImageTagMirrorSet"].resource = "imagetagmirrorsets"
    BY DEF Kinds, GroupResource
  <2>3. \E rule \in icp!rules : Matches(rule, "ImageTagMirrorSet", op)
    BY <2>2 DEF icp!rules, icp!Rule, Operations, Matches
  <2> QED BY <2>1, <2>2, <2>3, RegisteredBy
<1>6. "imagecontentpolicies" \in Registered["ImageContentSourcePolicy"][op]
  <2>1. "imagecontentpolicies" \in DOMAIN Rules /\ Rules["imagecontentpolicies"] = icp!rules
    BY DEF Rules
  <2>2. /\ "ImageContentSourcePolicy" \in DOMAIN Kinds
        /\ Kinds["ImageContentSourcePolicy"].group = "operator.openshift.io"
        /\ Kinds["ImageContentSourcePolicy"].resource = "imagecontentsourcepolicies"
    BY DEF Kinds, GroupResource
  <2>3. \E rule \in icp!rules : Matches(rule, "ImageContentSourcePolicy", op)
    BY <2>2 DEF icp!rules, icp!Rule, Operations, Matches
  <2> QED BY <2>1, <2>2, <2>3, RegisteredBy
<1> QED BY <1>1, <1>2, <1>3, <1>4, <1>5, <1>6

\* The hooks that are sent deletions.
LEMMA DeleteRegistered ==
    ASSUME NEW op \in {"DELETE"}
    PROVE  /\ "clusterrole" \in Registered["ClusterRole"][op]
           /\ "clusterrolebinding" \in Registered["ClusterRoleBinding"][op]
           /\ "serviceaccount" \in Registered["ServiceAccount"][op]
<1> op \in Operations BY DEF Operations
<1>1. "clusterrole" \in Registered["ClusterRole"][op]
  <2>1. "clusterrole" \in DOMAIN Rules /\ Rules["clusterrole"] = cr!rules
    BY DEF Rules
  <2>2. /\ "ClusterRole" \in DOMAIN Kinds
        /\ Kinds["ClusterRole"].group = "rbac.authorization.k8s.io"
        /\ Kinds["ClusterRole"].resource = "clusterroles"
    BY DEF Kinds, GroupResource
  <2>3. \E rule \in cr!rules : Matches(rule, "ClusterRole", op)
    BY <2>2 DEF cr!rules, cr!Rule, Operations, Matches
  <2> QED BY <2>1, <2>2, <2>3, RegisteredBy
<1>2. "clusterrolebinding" \in Registered["ClusterRoleBinding"][op]
  <2>1. "clusterrolebinding" \in DOMAIN Rules /\ Rules["clusterrolebinding"] = crb!rules
    BY DEF Rules
  <2>2. /\ "ClusterRoleBinding" \in DOMAIN Kinds
        /\ Kinds["ClusterRoleBinding"].group = "rbac.authorization.k8s.io"
        /\ Kinds["ClusterRoleBinding"].resource = "clusterrolebindings"
    BY DEF Kinds, GroupResource
  <2>3. \E rule \in crb!rules : Matches(rule, "ClusterRoleBinding", op)
    BY <2>2 DEF crb!rules, crb!Rule, Operations, Matches
  <2> QED BY <2>1, <2>2, <2>3, RegisteredBy
<1>3. "serviceaccount" \in Registered["ServiceAccount"][op]
  <2>1. "serviceaccount" \in DOMAIN Rules /\ Rules["serviceaccount"] = sa!rules
    BY DEF Rules
  <2>2. /\ "ServiceAccount" \in DOMAIN Kinds
        /\ Kinds["ServiceAccount"].group = ""
        /\ Kinds["ServiceAccount"].resource = "serviceaccounts"
    BY DEF Kinds, GroupResource
  <2>3. \E rule \in sa!rules : Matches(rule, "ServiceAccount", op)
    BY <2>2 DEF sa!rules, sa!Rule, Operations, Matches
  <2> QED BY <2>1, <2>2, <2>3, RegisteredBy
<1> QED BY <1>1, <1>2, <1>3

\* A vetted request that a hook it is sent to does not allow is not admitted.
LEMMA Refused ==
    ASSUME NEW r, NEW up \in BOOLEAN, NEW h \in Called(r),
           Authorized(h, r) # "allow",
           Vetted(Answers(r, up))
    PROVE  ~Admitted(Answers(r, up))
BY DEF Answers, Vetted, Admitted, HandleRequest, NoAnswer

-----------------------------------------------------------------------------
(* Managed objects. *)

\* The fields of the request for the object.
LEMMA RequestFields ==
    ASSUME NEW u, NEW op, NEW new
    PROVE  LET r == Request(u, op, new)
           IN  /\ r.user = u /\ r.op = op /\ r.kind = obj.kind /\ r.group = Kinds[obj.kind].group
               /\ r.ns = obj.ns /\ r.name = obj.name /\ r.old = stored /\ r.new = new
BY DEF Request

\* Every hook but the one of the quotas is called for all it is registered for.
LEMMA CalledIfRegistered ==
    ASSUME NEW r, NEW h \in Registered[r.kind][r.op], h # "hiveownership"
    PROVE  h \in Called(r)
BY DEF Called, Selected

\* A customer has no privileged group and is on no list of users.
LEMMA CustomerIs ==
    ASSUME NEW u \in User, Customer(u)
    PROVE  /\ u.groups \cap PrivilegedGroups = {} /\ srep \notin u.groups
           /\ u.username # "system:admin" /\ u.username # "kube:admin" /\ u.username # backplane
           /\ u.username \notin SystemAdminLike /\ u.username \notin KubeUsers
           /\ u.username \notin scc!allowedUsers /\ u.username \notin hive!privilegedUsers
           /\ u.username # unauthenticated => u.username \notin SystemUsers
<1>1. u.groups \cap PrivilegedGroups = {}
  BY ObjectsAssumption DEF Customer
<1>2. srep \notin u.groups
  <2>1. srep \in PrivilegedGroups
    BY HookRequestsAssumption
  <2> QED BY <1>1, <2>1
<1>3. u.username \notin (SystemUsers \ {unauthenticated}) \cup KubeUsers \cup {backplane}
  BY HookRequestsAssumption DEF Customer, backplane, unauthenticated
<1>4. u.username \notin scc!allowedUsers /\ u.username \notin hive!privilegedUsers
  <2>1. scc!allowedUsers \cup ru!clusterVersionUsers \cup ru!machineConfigUsers \cup hive!privilegedUsers
          \subseteq (SystemUsers \ {unauthenticated}) \cup KubeUsers \cup {backplane}
    BY ObjectsAssumption
  <2> QED BY <1>3, <2>1
<1> QED BY <1>1, <1>2, <1>3, <1>4, HookRequestsAssumption DEF unauthenticated

\* The regular-user hook refuses every request of someone not entitled to it.
LEMMA RegularUserRefuses ==
    ASSUME NEW r,
           r.kind \in {"Machine", "SubjectPermission", "MustGather", "MachineConfig", "ClusterVersion"}
             \/ (r.kind = "ConfigMap" /\ r.name = "user-ca-bundle" /\ r.ns = "openshift-config")
             \/ (r.kind = "NetNamespace" /\ r.name \in PrivilegedNamespaces \cup BadNamespaces),
           r.group = Kinds[r.kind].group,
           ~Entitled(r.user, r.kind)
    PROVE  ru!authorized(r) # "allow"
<1> DEFINE u == r.user
<1>a. CASE r.kind \in {"Machine", "SubjectPermission", "MustGather"}
  <2>1. Customer(u)
    BY <1>a DEF Entitled
  <2>2. /\ Kinds["Machine"].group = "machine.openshift.io"
        /\ Kinds["SubjectPermission"].group = "managed.openshift.io"
        /\ Kinds["MustGather"].group = "managed.openshift.io"
    BY DEF Kinds, GroupResource
  <2>3. r.group # "machineconfiguration.openshift.io"
    BY <1>a, <2>2
  <2> QED BY <1>a, <2>1, <2>3, HookRequestsAssumption, ObjectsAssumption
          DEF Customer, ru!authorized, ru!Verdict, ru!RequestMatchesGroupKind, ru!laterChecks,
              ru!isMustGatherAuthorized, ru!srep, ru!backplane, ru!unauthenticated,
              srep, backplane, unauthenticated
<1>b. CASE r.kind = "ConfigMap"
  <2>1. Customer(u)
    BY <1>b DEF Entitled
  <2>2. Kinds["ConfigMap"].group = ""
    BY DEF Kinds, GroupResource
  <2>3. r.group = ""
    BY <1>b, <2>2
  <2> QED BY <1>b, <2>1, <2>3, HookRequestsAssumption, ObjectsAssumption
          DEF Customer, ru!authorized, ru!Verdict, ru!RequestMatchesGroupKind, ru!laterChecks,
              ru!shouldAllowConfigMapChange, ru!srep, ru!backplane, ru!unauthenticated,
              srep, backplane, unauthenticated
<1>c. CASE r.kind = "NetNamespace"
  <2>1. Customer(u)
    BY <1>c DEF Entitled
  <2>2. r.group = "network.openshift.io"
    BY <1>c DEF Kinds, GroupResource
  <2> QED BY <1>c, <2>1, <2>2, HookRequestsAssumption, ObjectsAssumption
          DEF Customer, ru!authorized, ru!Verdict, ru!RequestMatchesGroupKind, ru!laterChecks,
              ru!isNetNamespaceAuthorized, ru!isNetNamespaceValid, ru!IsPrivilegedNamespace,
              ru!srep, ru!backplane, ru!unauthenticated,
              srep, backplane, unauthenticated
<1>d. CASE r.kind = "MachineConfig"
  <2>1. r.group = "machineconfiguration.openshift.io"
    BY <1>d DEF Kinds, GroupResource
  <2>2. "cluster-admins" \notin u.groups /\ (Customer(u) \/ u.username \in ServiceAccountUsers \ ru!machineConfigUsers)
    BY <1>d DEF Entitled
  <2> QED BY <2>1, <2>2, HookRequestsAssumption, ObjectsAssumption
          DEF Customer, ru!authorized, ru!Verdict, ru!isMachineConfigAuthorized,
              ru!backplane, ru!unauthenticated, backplane, unauthenticated
<1>e. CASE r.kind = "ClusterVersion"
  <2>1. r.group = "config.openshift.io"
    BY <1>e DEF Kinds, GroupResource
  <2>2. \/ Customer(u)
        \/ u.username \in ServiceAccountUsers \ ru!clusterVersionUsers /\ srep \notin u.groups
    BY <1>e DEF Entitled
  <2> QED BY <1>e, <2>1, <2>2, HookRequestsAssumption, ObjectsAssumption
          DEF Customer, ru!authorized, ru!Verdict, ru!RequestMatchesGroupKind,
              ru!isClusterVersionAuthorized, ru!srep, ru!backplane, ru!unauthenticated,
              srep, backplane, unauthenticated
<1> QED BY <1>a, <1>b, <1>c, <1>d, <1>e

\* A request about a managed object by someone not entitled to it is refused by
\* one of the hooks it is sent to.
LEMMA ManagedRefused ==
    ASSUME NEW u \in User, NEW op \in Operations, NEW new,
           Managed, ~Entitled(u, obj.kind),
           obj.kind = "SecurityContextConstraints" => op # "CREATE" /\ stored # None
    PROVE  \E h \in Called(Request(u, op, new)) : Authorized(h, Request(u, op, new)) # "allow"
<1> DEFINE r == Request(u, op, new)
<1>0. /\ r.user = u /\ r.op = op /\ r.kind = obj.kind /\ r.group = Kinds[obj.kind].group
      /\ r.ns = obj.ns /\ r.name = obj.name /\ r.old = stored /\ r.new = new
  BY RequestFields
<1> HIDE DEF r
<1>1. CASE \/ obj.kind \in {"Machine", "SubjectPermission", "MustGather", "MachineConfig", "ClusterVersion"}
           \/ obj.kind = "ConfigMap" /\ obj.name = "user-ca-bundle" /\ obj.ns = "openshift-config"
           \/ obj.kind = "NetNamespace" /\ obj.name \in PrivilegedNamespaces \cup BadNamespaces
  <2>1. ru!authorized(r) # "allow"
    BY <1>0, <1>1, RegularUserRefuses
  <2>2. "regularuser" \in Called(r)
    BY <1>0, <1>1, RegularUserRegistered, CalledIfRegistered
  <2>3. Authorized("regularuser", r) = ru!authorized(r)
    BY DEF Authorized
  <2> QED BY <2>1, <2>2, <2>3 DEF r
<1>2. CASE obj.kind = "Ingress"
  <2>1. "ingressconfig" \in Called(r)
    BY <1>0, <1>2, AlwaysRegistered, CalledIfRegistered
  <2>2. Customer(u)
    BY <1>2 DEF Entitled
  <2>3. ic!Authorized(r) # "allow"
    BY <1>0, <2>2, CustomerIs DEF ic!Authorized, ic!Verdict
  <2>4. Authorized("ingressconfig", r) = ic!Authorized(r)
    BY DEF Authorized
  <2> QED BY <2>1, <2>3, <2>4 DEF r
<1>3. CASE obj.kind = "CustomResourceDefinition" /\ IsProtectedByResourceName(obj.name)
  <2>1. "customresourcedefinitions" \in Called(r)
    BY <1>0, <1>3, AlwaysRegistered, CalledIfRegistered
  <2>2. Customer(u)
    BY <1>3 DEF Entitled
  <2>3. crd!authorized(r) # "allow"
    BY <1>0, <1>3, <2>2, CustomerIs
    DEF crd!authorized, crd!Verdict, crd!isAllowedUser, IsProtectedByResourceName,
        crd!IsProtectedByResourceName, crd!srep, srep, crd!backplane, backplane
  <2>4. Authorized("customresourcedefinitions", r) = crd!authorized(r)
    BY DEF Authorized
  <2> QED BY <2>1, <2>3, <2>4 DEF r
<1>4. CASE obj.kind = "NetworkPolicy" /\ obj.ns \in PrivilegedNamespaces \ {"openshift-ingress"}
  <2>1. "networkpolicies" \in Called(r)
    BY <1>0, <1>4, AlwaysRegistered, CalledIfRegistered
  <2>2. Customer(u)
    BY <1>4 DEF Entitled
  <2>3. np!authorized(r) # "allow"
    BY <1>0, <1>4, <2>2, CustomerIs
    DEF np!authorized, np!Verdict, np!isAllowedUser, np!isAllowedNamespace,
        np!IsPrivilegedNamespace, np!srep, srep, np!backplane, backplane
  <2>4. Authorized("networkpolicies", r) = np!authorized(r)
    BY DEF Authorized
  <2> QED BY <2>1, <2>3, <2>4 DEF r
<1>5. CASE obj.kind = "SecurityContextConstraints" /\ obj.name \in scc!defaultSCCs
  <2>1. "scc" \in Called(r) /\ op \in {"UPDATE", "DELETE"} /\ r.old # None
    BY <1>0, <1>5, ExistingRegistered, CalledIfRegistered DEF Operations
  <2>2. Customer(u)
    BY <1>5 DEF Entitled
  <2>3. u.username \notin scc!allowedUsers
    BY <2>2, CustomerIs
  <2>4. scc!authorized(r) # "allow"
    BY <1>0, <1>5, <2>1, <2>3
    DEF scc!authorized, scc!Verdict, scc!isDefaultSCC, scc!renderSCC, scc!isAllowedUserGroup
  <2>5. Authorized("scc", r) = scc!authorized(r)
    BY DEF Authorized
  <2> QED BY <2>1, <2>4, <2>5 DEF r
<1> QED BY <1>1, <1>2, <1>3, <1>4, <1>5 DEF Managed

\* What a step does, whichever action it is.
LEMMA StepChanges ==
    ASSUME TypeOK, Next
    PROVE  \E u \in User, op \in Operations, new \in Content(obj.kind) \cup {None}, up \in BOOLEAN :
              /\ Change(u, op, new, up)
              /\ op = "CREATE" <=> stored = None
              /\ op = "DELETE" <=> new = None
<1>1. None \notin Content(obj.kind)
  BY ObjectsAssumption DEF TypeOK
<1> QED BY <1>1 DEF Next, Create, Update, Delete, Operations

\* The object stays one of Object with a content of its kind (TypeOK).
THEOREM ObjectTyped == Spec => []TypeOK
<1>1. Init => TypeOK
  BY DEF Init, TypeOK
<1>2. TypeOK /\ [Next]_vars => TypeOK'
  <2> SUFFICES ASSUME TypeOK, [Next]_vars PROVE TypeOK'
    OBVIOUS
  <2>1. CASE UNCHANGED vars
    BY <2>1 DEF TypeOK, vars
  <2>2. CASE Next
    <3>1. PICK u \in User, op \in Operations, new \in Content(obj.kind) \cup {None}, up \in BOOLEAN :
              Change(u, op, new, up)
      BY <2>2, StepChanges
    <3> DEFINE given == Answers(Request(u, op, new), up)
    <3>2. Vetted(given) \in BOOLEAN
      BY DEF Vetted
    <3>3. CASE Admitted(given)
      <4>1. /\ obj' = obj /\ stored' = new /\ before' = stored /\ author' = u
            /\ vetted' = Vetted(given) /\ granted' \in {new, granted}
        BY <3>1, <3>3 DEF Change
      <4> QED BY <3>2, <4>1 DEF TypeOK
    <3>4. CASE ~Admitted(given)
      <4>1. UNCHANGED <<obj, stored, before, author, vetted, granted>>
        BY <3>1, <3>4 DEF Change
      <4> QED BY <4>1 DEF TypeOK
    <3> QED BY <3>3, <3>4
  <2> QED BY <2>1, <2>2
<1> QED BY <1>1, <1>2, PTL DEF Spec

\* However requests follow each other, a managed object is what someone entitled
\* to it, or a request that went unanswered, last made of it (ManagedObjectsKept).
THEOREM ManagedObjects == Spec => []ManagedObjectsKept
<1>1. Init => ManagedObjectsKept
  BY DEF Init, ManagedObjectsKept
<1>2. TypeOK /\ ManagedObjectsKept /\ [Next]_vars => ManagedObjectsKept'
  <2> SUFFICES ASSUME TypeOK, ManagedObjectsKept, [Next]_vars PROVE ManagedObjectsKept'
    OBVIOUS
  <2>1. CASE UNCHANGED vars
    BY <2>1 DEF ManagedObjectsKept, Managed, vars
  <2>2. CASE Next
    <3>1. PICK u \in User, op \in Operations, new \in Content(obj.kind) \cup {None}, up \in BOOLEAN :
              /\ Change(u, op, new, up)
              /\ op = "CREATE" <=> stored = None
              /\ op = "DELETE" <=> new = None
      BY <2>2, StepChanges
    <3> DEFINE given == Answers(Request(u, op, new), up)
    <3>2. /\ Admitted(given) => /\ stored' = new
                                /\ granted' = IF Entitled(u, obj.kind) \/ ~Vetted(given) THEN new ELSE granted
          /\ ~Admitted(given) => stored' = stored /\ granted' = granted
          /\ obj' = obj
      BY <3>1 DEF Change
    <3>3. CASE ~Admitted(given)
      BY <3>2, <3>3 DEF ManagedObjectsKept, Managed
    <3>4. CASE Admitted(given) /\ (Entitled(u, obj.kind) \/ ~Vetted(given))
      BY <3>2, <3>4 DEF ManagedObjectsKept
    <3>5. CASE Admitted(given) /\ ~Entitled(u, obj.kind) /\ Vetted(given)
      <4>1. granted' = granted
        BY <3>2, <3>5
      <4>2. ~Managed
        <5> SUFFICES ASSUME Managed PROVE FALSE
          OBVIOUS
        <5>1. obj.kind = "SecurityContextConstraints" => op # "CREATE" /\ stored # None
          BY <3>1 DEF Managed, ManagedObjectsKept
        <5>2. PICK h \in Called(Request(u, op, new)) : Authorized(h, Request(u, op, new)) # "allow"
          BY <3>5, <5>1, ManagedRefused
        <5> QED BY <3>5, <5>2, Refused
      <4> QED BY <3>2, <4>1, <4>2 DEF ManagedObjectsKept, Managed
    <3> QED BY <3>3, <3>4, <3>5
  <2> QED BY <2>1, <2>2
<1> QED BY <1>1, <1>2, ObjectTyped, PTL DEF Spec

-----------------------------------------------------------------------------
(* Labels, mirror sets and what is checked on the new object. *)

\* What the theorems below use of a step: it changes nothing that they mention,
\* or it is an admitted request.
LEMMA StepAdmitted ==
    ASSUME TypeOK, [Next]_vars
    PROVE  \/ UNCHANGED <<obj, stored, before, author, vetted, granted>>
           \/ \E u \in User, op \in Operations, new \in Content(obj.kind) \cup {None}, up \in BOOLEAN :
                /\ op = "CREATE" <=> stored = None
                /\ op = "DELETE" <=> new = None
                /\ Admitted(Answers(Request(u, op, new), up))
                /\ obj' = obj /\ stored' = new /\ before' = stored /\ author' = u
                /\ vetted' = Vetted(Answers(Request(u, op, new), up))
                /\ granted' = IF Entitled(u, obj.kind) \/ ~Vetted(Answers(Request(u, op, new), up))
                              THEN new ELSE granted
<1>1. CASE UNCHANGED vars
  BY <1>1 DEF vars
<1>2. CASE Next
  <2>1. PICK u \in User, op \in Operations, new \in Content(obj.kind) \cup {None}, up \in BOOLEAN :
            /\ Change(u, op, new, up)
            /\ op = "CREATE" <=> stored = None
            /\ op = "DELETE" <=> new = None
    BY <1>2, StepChanges
  <2>2. CASE ~Admitted(Answers(Request(u, op, new), up))
    BY <2>1, <2>2 DEF Change
  <2>3. CASE Admitted(Answers(Request(u, op, new), up))
    BY <2>1, <2>3 DEF Change
  <2> QED BY <2>2, <2>3
<1> QED BY <1>1, <1>2

\* The managed label of a quota and the missing privileged label of a rule keep
\* the object as it was left, whatever the updates (ManagedLabelsKept).
THEOREM ManagedLabels == Spec => []ManagedLabelsKept
<1>1. Init => ManagedLabelsKept
  BY DEF Init, ManagedLabelsKept
<1>2. TypeOK /\ ManagedLabelsKept /\ [Next]_vars => ManagedLabelsKept'
  <2> SUFFICES ASSUME TypeOK, ManagedLabelsKept, [Next]_vars PROVE ManagedLabelsKept'
    OBVIOUS
  <2>1. CASE UNCHANGED <<obj, stored, before, author, vetted, granted>>
    BY <2>1 DEF ManagedLabelsKept
  <2>2. ASSUME NEW u \in User, NEW op \in Operations, NEW new, NEW up \in BOOLEAN,
               op = "CREATE" <=> stored = None,
               Admitted(Answers(Request(u, op, new), up)), obj' = obj, stored' = new,
               granted' = IF Entitled(u, obj.kind) \/ ~Vetted(Answers(Request(u, op, new), up))
                          THEN new ELSE granted
        PROVE  ManagedLabelsKept'
    <3> DEFINE r == Request(u, op, new)
    <3>0. r.user = u /\ r.op = op /\ r.kind = obj.kind /\ r.ns = obj.ns /\ r.old = stored
      BY RequestFields
    <3>1. CASE Entitled(u, obj.kind) \/ ~Vetted(Answers(r, up))
      BY <2>2, <3>1 DEF ManagedLabelsKept
    <3>2. CASE ~Entitled(u, obj.kind) /\ Vetted(Answers(r, up))
      <4>1. granted' = granted
        BY <2>2, <3>2
      <4>2. ~(obj.kind = "ClusterResourceQuota" /\ granted # None /\ granted.spec = "true")
        <5> SUFFICES ASSUME obj.kind = "ClusterResourceQuota", granted # None, granted.spec = "true"
                     PROVE  FALSE
          OBVIOUS
        <5>1. stored = granted /\ op \in {"UPDATE", "DELETE"}
          BY <2>2 DEF ManagedLabelsKept, Operations
        <5>2. "hiveownership" \in Called(r)
          BY <3>0, <5>1, ExistingRegistered DEF Called, Selected, hive!ObjectSelector
        <5>3. Customer(u)
          BY <3>2 DEF Entitled
        <5>4. Authorized("hiveownership", r) # "allow"
          BY <3>0, <5>3, CustomerIs DEF Authorized, hive!authorized, hive!Verdict, hive!srep, srep
        <5> QED BY <2>2, <3>2, <5>2, <5>4, Refused
      <4>3. ~(/\ obj.kind = "PrometheusRule" /\ granted # None /\ granted.spec # "stackrox"
              /\ obj.ns \in PrivilegedNamespaces \ pr!privilegedNamespacesAllowed)
        <5> SUFFICES ASSUME obj.kind = "PrometheusRule", granted # None, granted.spec # "stackrox",
                            obj.ns \in PrivilegedNamespaces \ pr!privilegedNamespacesAllowed
                     PROVE  FALSE
          OBVIOUS
        <5>1. stored = granted
          BY DEF ManagedLabelsKept
        <5>2. "prometheusrule" \in Called(r)
          BY <3>0, AlwaysRegistered, CalledIfRegistered
        <5>3. Customer(u)
          BY <3>2 DEF Entitled
        <5>4. Authorized("prometheusrule", r) = pr!authorized(r)
          BY DEF Authorized
        <5>5. pr!authorized(r) # "allow"
          BY <3>0, <5>1, <5>3, CustomerIs
          DEF pr!authorized, pr!Verdict, pr!renderPrometheusRule, pr!OldElseNew, pr!isAllowedUser,
              pr!hasPrivilegedLabel, pr!IsPrivilegedNamespace, pr!srep, srep, pr!backplane, backplane
        <5> QED BY <2>2, <3>2, <5>2, <5>4, <5>5, Refused
      <4> QED BY <2>2, <4>1, <4>2, <4>3 DEF ManagedLabelsKept
    <3> QED BY <3>1, <3>2
  <2> QED BY <2>1, <2>2, StepAdmitted
<1> QED BY <1>1, <1>2, ObjectTyped, PTL DEF Spec

\* No mirror set mirrors a system registry, answered or not (MirrorsFailClosed).
THEOREM MirrorSets == Spec => []MirrorsFailClosed
<1>1. Init => MirrorsFailClosed
  BY DEF Init, MirrorsFailClosed
<1>2. TypeOK /\ MirrorsFailClosed /\ [Next]_vars => MirrorsFailClosed'
  <2> SUFFICES ASSUME TypeOK, MirrorsFailClosed, [Next]_vars PROVE MirrorsFailClosed'
    OBVIOUS
  <2>1. CASE UNCHANGED <<obj, stored, before, author, vetted, granted>>
    BY <2>1 DEF MirrorsFailClosed
  <2>2. ASSUME NEW u \in User, NEW op \in Operations, NEW new, NEW up \in BOOLEAN,
               op = "DELETE" <=> new = None,
               Admitted(Answers(Request(u, op, new), up)), obj' = obj, stored' = new
        PROVE  MirrorsFailClosed'
    <3> SUFFICES ASSUME obj.kind \in {"ImageDigestMirrorSet", "ImageTagMirrorSet", "ImageContentSourcePolicy"},
                        new # None
                 PROVE  new.spec \cap UnauthorizedMirrors = {}
      BY <2>2 DEF MirrorsFailClosed
    <3> DEFINE r == Request(u, op, new)
    <3>0. r.op = op /\ r.kind = obj.kind /\ r.new = new
      BY RequestFields
    <3>1. "imagecontentpolicies" \in Called(r)
      <4>1. op \in {"CREATE", "UPDATE"}
        BY <2>2 DEF Operations
      <4> QED BY <3>0, <4>1, WriteRegistered, CalledIfRegistered
    <3>2. Answers(r, up)["imagecontentpolicies"] = "allow"
      BY <2>2, <3>1 DEF Admitted, Answers, FailurePolicy, icp!FailurePolicy
    <3>3. Authorized("imagecontentpolicies", r) = "allow"
      BY <3>1, <3>2 DEF Answers, HandleRequest
    <3>4. icp!Authorized(r) = "allow"
      BY <3>3 DEF Authorized
    <3> QED BY <3>0, <3>4
            DEF icp!Authorized, icp!Verdict, icp!authorizeImageDigestMirrorSet,
                icp!authorizeImageTagMirrorSet, icp!authorizeImageContentSourcePolicy
  <2> QED BY <2>1, <2>2, StepAdmitted
<1> QED BY <1>1, <1>2, ObjectTyped, PTL DEF Spec

\* The content that a customer's last answered write left is one the hooks that
\* check the new object accept (LastAnsweredWriteConforms).
THEOREM AnsweredWrites == Spec => []LastAnsweredWriteConforms
<1>1. Init => LastAnsweredWriteConforms
  BY DEF Init, LastAnsweredWriteConforms
<1>2. TypeOK /\ LastAnsweredWriteConforms /\ [Next]_vars => LastAnsweredWriteConforms'
  <2> SUFFICES ASSUME TypeOK, LastAnsweredWriteConforms, [Next]_vars
               PROVE  LastAnsweredWriteConforms'
    OBVIOUS
  <2>1. CASE UNCHANGED <<obj, stored, before, author, vetted, granted>>
    BY <2>1 DEF LastAnsweredWriteConforms
  <2>2. ASSUME NEW u \in User, NEW op \in Operations, NEW new, NEW up \in BOOLEAN,
               op = "DELETE" <=> new = None,
               Admitted(Answers(Request(u, op, new), up)), obj' = obj, stored' = new, author' = u,
               vetted' = Vetted(Answers(Request(u, op, new), up))
        PROVE  LastAnsweredWriteConforms'
    <3> DEFINE r == Request(u, op, new)
    <3>0. /\ r.user = u /\ r.op = op /\ r.kind = obj.kind /\ r.ns = obj.ns /\ r.new = new
      BY RequestFields
    <3> HIDE DEF r
    <3>1. CASE ~Vetted(Answers(r, up)) \/ new = None
      BY <2>2, <3>1 DEF LastAnsweredWriteConforms, r
    <3>2. CASE Vetted(Answers(r, up)) /\ new # None
      <4>0. op \in {"CREATE", "UPDATE"}
        BY <2>2, <3>2 DEF Operations
      <4>1. \A h \in Called(r) : Authorized(h, r) = "allow"
        BY <2>2, <3>2, Refused DEF r
      <4>2. ASSUME obj.kind = "FeatureGate" PROVE new.spec # "TechPreviewNoUpgrade"
        <5>1. "techpreviewnoupgrade" \in Called(r)
          BY <3>0, <4>0, <4>2, WriteRegistered, CalledIfRegistered
        <5>2. tp!authorized(r) = "allow"
          BY <4>1, <5>1 DEF Authorized
        <5> QED BY <3>0, <5>2 DEF tp!authorized, tp!Verdict, tp!renderFeatureGate
      <4>3. ASSUME obj.kind = "IngressController", Customer(u) PROVE new.spec \cap MasterKeys = {}
        <5>1. "ingresscontroller" \in Called(r)
          BY <3>0, <4>0, <4>3, WriteRegistered, CalledIfRegistered
        <5>2. ingress!authorized(r) = "allow"
          BY <4>1, <5>1 DEF Authorized
        <5> QED BY <3>0, <4>3, <5>2, CustomerIs
                DEF ingress!authorized, ingress!Verdict, ingress!renderIngressController,
                    ingress!isAllowedUser, ingress!unauthenticated, unauthenticated,
                    ingress!backplane, backplane
      <4>4. ASSUME obj.kind = "Node", Customer(u) PROVE new.spec \cap node!managedRoles = {}
        <5>1. "node" \in Called(r)
          BY <3>0, <4>4, AlwaysRegistered, CalledIfRegistered
        <5>2. node!authorized(r) = "allow"
          BY <4>1, <5>1 DEF Authorized
        <5> QED BY <3>0, <4>0, <4>4, <5>2, CustomerIs
                DEF node!authorized, node!Verdict, node!decoded, node!unauthenticated, unauthenticated,
                    node!backplane, backplane, node!srep, srep
      <4>5. ASSUME obj.kind = "NetworkPolicy", obj.ns = "openshift-ingress", Customer(u)
            PROVE  new.spec \notin {None, "default"}
        <5>1. "networkpolicies" \in Called(r)
          BY <3>0, <4>5, AlwaysRegistered, CalledIfRegistered
        <5>2. np!authorized(r) = "allow"
          BY <4>1, <5>1 DEF Authorized
        <5> QED BY <3>0, <3>2, <4>5, <5>2, CustomerIs
                DEF np!authorized, np!Verdict, np!isAllowedNamespace, np!renderNetworkPolicy, np!NewElseOld
      <4> QED BY <2>2, <4>2, <4>3, <4>4, <4>5 DEF LastAnsweredWriteConforms
    <3> QED BY <3>1, <3>2
  <2> QED BY <2>1, <2>2, StepAdmitted
<1> QED BY <1>1, <1>2, ObjectTyped, PTL DEF Spec

\* Protected roles and service accounts stay, and protected bindings are not
\* deleted by customers (ProtectedAccessStays).
THEOREM ProtectedAccess == Spec => []ProtectedAccessStays
<1>1. Init => ProtectedAccessStays
  BY DEF Init, ProtectedAccessStays
<1>2. TypeOK /\ ProtectedAccessStays /\ [Next]_vars => ProtectedAccessStays'
  <2> SUFFICES ASSUME TypeOK, ProtectedAccessStays, [Next]_vars PROVE ProtectedAccessStays'
    OBVIOUS
  <2>1. CASE UNCHANGED <<obj, stored, before, author, vetted, granted>>
    BY <2>1 DEF ProtectedAccessStays
  <2>2. ASSUME NEW u \in User, NEW op \in Operations, NEW new, NEW up \in BOOLEAN,
               op = "CREATE" <=> stored = None, op = "DELETE" <=> new = None,
               Admitted(Answers(Request(u, op, new), up)), obj' = obj, stored' = new,
               before' = stored, author' = u, vetted' = Vetted(Answers(Request(u, op, new), up)),
               granted' = IF Entitled(u, obj.kind) \/ ~Vetted(Answers(Request(u, op, new), up))
                          THEN new ELSE granted
        PROVE  ProtectedAccessStays'
    <3> DEFINE r == Request(u, op, new)
    <3>0. /\ r.user = u /\ r.op = op /\ r.kind = obj.kind /\ r.ns = obj.ns /\ r.name = obj.name
          /\ r.old = stored
      BY RequestFields
    <3> HIDE DEF r
    <3>1. CASE new # None
      BY <2>2, <3>1 DEF ProtectedAccessStays
    <3>2. CASE ~Vetted(Answers(r, up))
      BY <2>2, <3>2 DEF ProtectedAccessStays, r
    <3>3. CASE ~Customer(u)
      BY <2>2, <3>3 DEF ProtectedAccessStays, Entitled
    <3>4. CASE new = None /\ Vetted(Answers(r, up)) /\ Customer(u)
      <4>0. op \in {"DELETE"} /\ stored # None
        BY <2>2, <3>4
      <4>1. \A h \in Called(r) : Authorized(h, r) = "allow"
        BY <2>2, <3>4, Refused DEF r
      <4>2. ~(obj.kind = "ClusterRole" /\ obj.name \in cr!protectedClusterRoles \cup BackplaneRoles)
        <5> SUFFICES ASSUME obj.kind = "ClusterRole", obj.name \in cr!protectedClusterRoles \cup BackplaneRoles
                     PROVE  FALSE
          OBVIOUS
        <5>1. "clusterrole" \in Called(r)
          BY <3>0, <4>0, DeleteRegistered, CalledIfRegistered
        <5>2. cr!authorized(r) = "allow"
          BY <4>1, <5>1 DEF Authorized
        <5> QED BY <3>0, <3>4, <4>0, <5>2, CustomerIs
                DEF cr!authorized, cr!Verdict, cr!isProtectedClusterRole, cr!renderClusterRole,
                    cr!isAllowedUserGroup, cr!unauthenticated, unauthenticated, cr!backplane, backplane, cr!srep, srep
      <4>3. ~(/\ obj.kind = "ServiceAccount"
              /\ obj.ns \in PrivilegedNamespaces \ sa!exceptionNamespaces
              /\ obj.name \notin {"builder", "default", "deployer"})
        <5> SUFFICES ASSUME obj.kind = "ServiceAccount",
                            obj.ns \in PrivilegedNamespaces \ sa!exceptionNamespaces,
                            obj.name \notin {"builder", "default", "deployer"}
                     PROVE  FALSE
          OBVIOUS
        <5>1. "serviceaccount" \in Called(r)
          BY <3>0, <4>0, DeleteRegistered, CalledIfRegistered
        <5>2. sa!authorized(r) = "allow"
          BY <4>1, <5>1 DEF Authorized
        <5> QED BY <3>0, <3>4, <4>0, <5>2, CustomerIs
                DEF sa!authorized, sa!Verdict, sa!isProtectedNamespace, sa!renderServiceAccount,
                    sa!isAllowedServiceAccount, sa!IsPrivilegedNamespace, sa!isAllowedUserGroup,
                    sa!unauthenticated, unauthenticated, sa!backplane, backplane, sa!srep, srep
      <4>4. ASSUME obj.kind = "ClusterRoleBinding"
            PROVE  \/ stored.spec.subjects \cap (OpenshiftNamespaces \ crb!exceptionNamespaces) = {}
                   \/ u.username = "cluster-admin" /\ stored.spec.command = "oc adm must-gather"
        <5>1. "clusterrolebinding" \in Called(r)
          BY <3>0, <4>0, <4>4, DeleteRegistered, CalledIfRegistered
        <5>2. crb!authorized(r) = "allow"
          BY <4>1, <5>1 DEF Authorized
        <5> QED BY <3>0, <3>4, <4>0, <5>2, CustomerIs
                DEF crb!authorized, crb!Verdict, crb!isProtectedNamespace, crb!renderClusterRoleBinding,
                    crb!mustGather, crb!isAllowedUserGroup,
                    crb!unauthenticated, unauthenticated, crb!backplane, backplane, crb!srep, srep
      <4> QED BY <2>2, <4>2, <4>3, <4>4 DEF ProtectedAccessStays
    <3> QED BY <3>1, <3>2, <3>3, <3>4
  <2> QED BY <2>1, <2>2, StepAdmitted
<1> QED BY <1>1, <1>2, ObjectTyped, PTL DEF Spec

-----------------------------------------------------------------------------
(* Retention policies. *)

\* A product that fits an unsigned integer is not wrapped around.
LEMMA TimesExact ==
    ASSUME NEW n \in Nat, NEW f \in Nat, n * f < Uint
    PROVE  cl!Times(n, f) = n * f
<1>1. n * f \in Nat
  OBVIOUS
<1>2. \A a, b \in Nat : a < b => a % b = a
  OBVIOUS
<1> QED BY <1>1, <1>2, HookRequestsAssumption DEF cl!Times, cl!Uint, Uint

\* convertToSeconds is exact for a time whose length fits an unsigned integer.
LEMMA SecondsExact ==
    ASSUME NEW n \in Nat, NEW unit \in cl!Units, n <= (Uint - 1) \div Seconds[unit]
    PROVE  cl!convertToSeconds(n, unit) = n * Seconds[unit]
<1> DEFINE U == Uint
<1>0. U \in Nat /\ U > 604800
  BY HookRequestsAssumption
<1> HIDE DEF U
<1>1. CASE unit = "y"
  <2>1. Seconds[unit] = 31536000
    BY <1>1 DEF Seconds
  <2>2. n * 31536000 < U
    BY <1>0, <2>1 DEF U
  <2>3. cl!Times(n, 365) = n * 365
    BY <1>0, <2>2, TimesExact DEF U
  <2>4. cl!Times(n * 365, 24) = n * 8760
    BY <1>0, <2>2, TimesExact DEF U
  <2>5. cl!Times(n * 8760, 60) = n * 525600
    BY <1>0, <2>2, TimesExact DEF U
  <2>6. cl!Times(n * 525600, 60) = n * 31536000
    BY <1>0, <2>2, TimesExact DEF U
  <2> QED BY <1>1, <2>1, <2>3, <2>4, <2>5, <2>6
          DEF cl!convertToSeconds, cl!toMinutes, cl!toHours, cl!toDays
<1>2. CASE unit = "M"
  <2>1. Seconds[unit] = 2678400
    BY <1>2 DEF Seconds
  <2>2. n * 2678400 < U
    BY <1>0, <2>1 DEF U
  <2>3. cl!Times(n, 31) = n * 31
    BY <1>0, <2>2, TimesExact DEF U
  <2>4. cl!Times(n * 31, 24) = n * 744
    BY <1>0, <2>2, TimesExact DEF U
  <2>5. cl!Times(n * 744, 60) = n * 44640
    BY <1>0, <2>2, TimesExact DEF U
  <2>6. cl!Times(n * 44640, 60) = n * 2678400
    BY <1>0, <2>2, TimesExact DEF U
  <2> QED BY <1>2, <2>1, <2>3, <2>4, <2>5, <2>6
          DEF cl!convertToSeconds, cl!toMinutes, cl!toHours, cl!toDays
<1>3. CASE unit = "w"
  <2>1. Seconds[unit] = 604800
    BY <1>3 DEF Seconds
  <2>2. n * 604800 < U
    BY <1>0, <2>1 DEF U
  <2>3. cl!Times(n, 7) = n * 7
    BY <1>0, <2>2, TimesExact DEF U
  <2>4. cl!Times(n * 7, 24) = n * 168
    BY <1>0, <2>2, TimesExact DEF U
  <2>5. cl!Times(n * 168, 60) = n * 10080
    BY <1>0, <2>2, TimesExact DEF U
  <2>6. cl!Times(n * 10080, 60) = n * 604800
    BY <1>0, <2>2, TimesExact DEF U
  <2> QED BY <1>3, <2>1, <2>3, <2>4, <2>5, <2>6
          DEF cl!convertToSeconds, cl!toMinutes, cl!toHours, cl!toDays
<1>4. CASE unit = "d"
  <2>1. Seconds[unit] = 86400
    BY <1>4 DEF Seconds
  <2>2. n * 86400 < U
    BY <1>0, <2>1 DEF U
  <2>3. cl!Times(n, 24) = n * 24
    BY <1>0, <2>2, TimesExact DEF U
  <2>4. cl!Times(n * 24, 60) = n * 1440
    BY <1>0, <2>2, TimesExact DEF U
  <2>5. cl!Times(n * 1440, 60) = n * 86400
    BY <1>0, <2>2, TimesExact DEF U
  <2> QED BY <1>4, <2>1, <2>3, <2>4, <2>5
          DEF cl!convertToSeconds, cl!toMinutes, cl!toHours, cl!toDays
<1>5. CASE unit = "h"
  <2>1. Seconds[unit] = 3600
    BY <1>5 DEF Seconds
  <2>2. n * 3600 < U
    BY <1>0, <2>1 DEF U
  <2>3. cl!Times(n, 60) = n * 60
    BY <1>0, <2>2, TimesExact DEF U
  <2>4. cl!Times(n * 60, 60) = n * 3600
    BY <1>0, <2>2, TimesExact DEF U
  <2> QED BY <1>5, <2>1, <2>3, <2>4
          DEF cl!convertToSeconds, cl!toMinutes, cl!toHours, cl!toDays
<1>6. CASE unit = "H"
  <2>1. Seconds[unit] = 3600
    BY <1>6 DEF Seconds
  <2>2. n * 3600 < U
    BY <1>0, <2>1 DEF U
  <2>3. cl!Times(n, 60) = n * 60
    BY <1>0, <2>2, TimesExact DEF U
  <2>4. cl!Times(n * 60, 60) = n * 3600
    BY <1>0, <2>2, TimesExact DEF U
  <2> QED BY <1>6, <2>1, <2>3, <2>4
          DEF cl!convertToSeconds, cl!toMinutes, cl!toHours, cl!toDays
<1>7. CASE unit = "m"
  <2>1. Seconds[unit] = 60
    BY <1>7 DEF Seconds
  <2>2. n * 60 < U
    BY <1>0, <2>1 DEF U
  <2>3. cl!Times(n, 60) = n * 60
    BY <1>0, <2>2, TimesExact DEF U
  <2> QED BY <1>7, <2>1, <2>3
          DEF cl!convertToSeconds, cl!toMinutes, cl!toHours, cl!toDays
<1>8. CASE unit = "s"
  <2>1. Seconds[unit] = 1
    BY <1>8 DEF Seconds
  <2> QED BY <1>8, <2>1
          DEF cl!convertToSeconds
<1> QED BY <1>1, <1>2, <1>3, <1>4, <1>5, <1>6, <1>7, <1>8 DEF cl!Units

\* An age that the hook allows is in the range of its validator, if it fits.
LEMMA AllowedWithin ==
    ASSUME NEW age, age # None => age.number \in Nat,
           NEW validator \in {cl!appValidator, cl!infraValidator, cl!auditValidator},
           cl!checkPolicy(validator, age) = "allow"
    PROVE  /\ validator = cl!appValidator => Within(age, 3600, 604800)
           /\ validator # cl!appValidator => Within(age, 3600, 3600)
<1>1. age # None /\ cl!parseTimeUnit(age) /\ cl!isAllowed(validator, age)
  BY DEF cl!checkPolicy, cl!Verdict
<1>2. age.number \in Nat /\ age.unit \in cl!Units
  BY <1>1 DEF cl!parseTimeUnit
<1>3. Fits(age) => cl!convertToSeconds(age.number, age.unit) = age.number * Seconds[age.unit]
  BY <1>2, SecondsExact DEF Fits
<1>4. cl!convertToSeconds(1, "h") = 3600 /\ cl!convertToSeconds(7, "d") = 604800
  <2>1. Uint \in Nat /\ Uint > 604800
    BY HookRequestsAssumption
  <2>2. Seconds["h"] = 3600 /\ Seconds["d"] = 86400
    BY DEF Seconds
  <2>3. 1 <= (Uint - 1) \div 3600 /\ 7 <= (Uint - 1) \div 86400
    BY <2>1
  <2> QED BY <2>2, <2>3, SecondsExact DEF cl!Units
<1>5. CASE validator = cl!appValidator
  <2>1. validator.lowerBound = [number |-> 1, unit |-> "h"] /\ validator.upperBound = [number |-> 7, unit |-> "d"]
    BY <1>5 DEF cl!appValidator, cl!Bounds, cl!Age
  <2>2. /\ cl!convertToSeconds(1, "h") <= cl!convertToSeconds(age.number, age.unit)
        /\ cl!convertToSeconds(age.number, age.unit) <= cl!convertToSeconds(7, "d")
    BY <1>1, <2>1 DEF cl!isAllowed, cl!le
  <2> QED BY <1>3, <1>4, <1>5, <2>2, SMT DEF Within
<1>6. CASE validator # cl!appValidator
  <2>1. validator.lowerBound = [number |-> 1, unit |-> "h"] /\ validator.upperBound = [number |-> 1, unit |-> "h"]
    BY <1>6 DEF cl!infraValidator, cl!auditValidator, cl!Bounds, cl!Age
  <2>2. /\ cl!convertToSeconds(1, "h") <= cl!convertToSeconds(age.number, age.unit)
        /\ cl!convertToSeconds(age.number, age.unit) <= cl!convertToSeconds(1, "h")
    BY <1>1, <2>1 DEF cl!isAllowed, cl!le
  <2> QED BY <1>3, <1>4, <1>6, <2>2, SMT DEF Within
<1> QED BY <1>5, <1>6

\* A retention policy is checked one version late (RetentionCheckedOneLate).
THEOREM Retention == Spec => []RetentionCheckedOneLate
<1>1. Init => RetentionCheckedOneLate
  BY DEF Init, RetentionCheckedOneLate
<1>2. TypeOK /\ RetentionCheckedOneLate /\ [Next]_vars => RetentionCheckedOneLate'
  <2> SUFFICES ASSUME TypeOK, RetentionCheckedOneLate, [Next]_vars
               PROVE  RetentionCheckedOneLate'
    OBVIOUS
  <2>1. CASE UNCHANGED <<obj, stored, before, author, vetted, granted>>
    BY <2>1 DEF RetentionCheckedOneLate
  <2>2. ASSUME NEW u \in User, NEW op \in Operations, NEW new \in Content(obj.kind) \cup {None},
               NEW up \in BOOLEAN, op = "DELETE" <=> new = None,
               Admitted(Answers(Request(u, op, new), up)), obj' = obj, stored' = new, before' = stored,
               vetted' = Vetted(Answers(Request(u, op, new), up))
        PROVE  RetentionCheckedOneLate'
    <3> DEFINE r == Request(u, op, new)
               checked == IF stored # None THEN stored ELSE new
    <3> SUFFICES ASSUME obj.kind = "ClusterLogging", Vetted(Answers(r, up)), new # None
                 PROVE  /\ Within(checked.spec.app, 3600, 604800)
                        /\ Within(checked.spec.infra, 3600, 3600)
                        /\ Within(checked.spec.audit, 3600, 3600)
      BY <2>2 DEF RetentionCheckedOneLate
    <3>0. r.op = op /\ r.kind = obj.kind /\ r.old = stored /\ r.new = new
      BY RequestFields
    <3>1. "clusterlogging" \in Called(r)
      <4>1. op \in {"CREATE", "UPDATE"}
        BY <2>2 DEF Operations
      <4> QED BY <3>0, <4>1, WriteRegistered, CalledIfRegistered
    <3>2. Authorized("clusterlogging", r) = "allow"
      BY <2>2, <3>1, Refused
    <3>3. cl!authorized(r) = "allow"
      BY <3>2 DEF Authorized
    <3>4. cl!renderClusterLogging(r) = checked
      BY <3>0 DEF cl!renderClusterLogging, cl!OldElseNew
    <3> HIDE DEF r, checked
    <3>5. /\ checked.spec # None
          /\ cl!checkPolicy(cl!appValidator, checked.spec.app) = "allow"
          /\ cl!checkPolicy(cl!infraValidator, checked.spec.infra) = "allow"
          /\ cl!checkPolicy(cl!auditValidator, checked.spec.audit) = "allow"
      BY <3>3, <3>4 DEF cl!authorized
    <3>6. checked \in Content("ClusterLogging")
      BY <2>2 DEF TypeOK, checked
    <3>7. \A age \in {checked.spec.app, checked.spec.infra, checked.spec.audit} :
              age # None => age.number \in Nat
      BY <3>5, <3>6, ObjectsAssumption
    <3>8. cl!infraValidator # cl!appValidator /\ cl!auditValidator # cl!appValidator
      BY DEF cl!infraValidator, cl!appValidator, cl!auditValidator, cl!Bounds, cl!Age
    <3>9. Within(checked.spec.app, 3600, 604800)
      BY <3>5, <3>7, AllowedWithin, SMTT(30)
    <3>10. Within(checked.spec.infra, 3600, 3600)
      BY <3>5, <3>7, <3>8, AllowedWithin, SMTT(30)
    <3>11. Within(checked.spec.audit, 3600, 3600)
      BY <3>5, <3>7, <3>8, AllowedWithin, SMTT(30)
    <3> QED BY <3>9, <3>10, <3>11
  <2> QED BY <2>1, <2>2, StepAdmitted
<1> QED BY <1>1, <1>2, ObjectTyped, PTL DEF Spec

-----------------------------------------------------------------------------
(* What the hooks answer. *)

\* Resources name the kinds that hooks look for.
LEMMA KindOf ==
    ASSUME NEW k \in DOMAIN Kinds
    PROVE  /\ Kinds[k].resource = "clusterloggings" => k = "ClusterLogging"
           /\ Kinds[k].resource = "clusterroles" => k = "ClusterRole"
           /\ Kinds[k].resource = "clusterrolebindings" => k = "ClusterRoleBinding"
           /\ Kinds[k].resource = "customresourcedefinitions" => k = "CustomResourceDefinition"
           /\ Kinds[k].resource = "imagedigestmirrorsets" => k = "ImageDigestMirrorSet"
           /\ Kinds[k].resource = "imagetagmirrorsets" => k = "ImageTagMirrorSet"
           /\ Kinds[k].resource = "imagecontentsourcepolicies" => k = "ImageContentSourcePolicy"
           /\ Kinds[k].resource = "ingresses" => k = "Ingress"
           /\ Kinds[k].resource \in {"ingresscontroller", "ingresscontrollers"} => k = "IngressController"
           /\ Kinds[k].resource = "networkpolicies" => k = "NetworkPolicy"
           /\ Kinds[k].resource = "pods" => k = "Pod"
           /\ Kinds[k].resource = "prometheusrules" => k = "PrometheusRule"
           /\ Kinds[k].resource = "serviceaccounts" => k = "ServiceAccount"
           /\ Kinds[k].resource = "securitycontextconstraints" => k = "SecurityContextConstraints"
           /\ Kinds[k].resource = "featuregates" => k = "FeatureGate"
<1>1. DOMAIN Kinds = {
      "ClusterLogging", "ClusterResourceQuota", "ClusterRole", "ClusterRoleBinding",
      "ClusterVersion", "ConfigMap", "CustomDomain", "CustomResourceDefinition", "FeatureGate",
      "ImageContentSourcePolicy", "ImageDigestMirrorSet", "ImageTagMirrorSet", "Ingress",
      "IngressController", "Machine", "MachineConfig", "MustGather", "NetNamespace",
      "NetworkPolicy", "Node", "Pod", "PrometheusRule", "SecurityContextConstraints",
      "ServiceAccount", "SubjectPermission"}
  BY DEF Kinds
<1>2. /\ Kinds["ClusterLogging"].resource = "clusterloggings"
      /\ Kinds["ClusterResourceQuota"].resource = "clusterresourcequotas"
      /\ Kinds["ClusterRole"].resource = "clusterroles"
      /\ Kinds["ClusterRoleBinding"].resource = "clusterrolebindings"
      /\ Kinds["ClusterVersion"].resource = "clusterversions"
      /\ Kinds["ConfigMap"].resource = "configmaps"
      /\ Kinds["CustomDomain"].resource = "customdomains"
      /\ Kinds["CustomResourceDefinition"].resource = "customresourcedefinitions"
      /\ Kinds["FeatureGate"].resource = "featuregates"
      /\ Kinds["ImageContentSourcePolicy"].resource = "imagecontentsourcepolicies"
      /\ Kinds["ImageDigestMirrorSet"].resource = "imagedigestmirrorsets"
      /\ Kinds["ImageTagMirrorSet"].resource = "imagetagmirrorsets"
      /\ Kinds["Ingress"].resource = "ingresses"
      /\ Kinds["IngressController"].resource = "ingresscontrollers"
      /\ Kinds["Machine"].resource = "machines"
      /\ Kinds["MachineConfig"].resource = "machineconfigs"
      /\ Kinds["MustGather"].resource = "mustgathers"
      /\ Kinds["NetNamespace"].resource = "netnamespaces"
      /\ Kinds["NetworkPolicy"].resource = "networkpolicies"
      /\ Kinds["Node"].resource = "nodes"
      /\ Kinds["Pod"].resource = "pods"
      /\ Kinds["PrometheusRule"].resource = "prometheusrules"
      /\ Kinds["SecurityContextConstraints"].resource = "securitycontextconstraints"
      /\ Kinds["ServiceAccount"].resource = "serviceaccounts"
      /\ Kinds["SubjectPermission"].resource = "subjectpermissions"
  BY Zenon DEF Kinds, GroupResource
<1> QED BY <1>1, <1>2

\* A hook is registered for a kind and an operation by one of its rules.
LEMMA RegisteredRule ==
    ASSUME NEW k \in DOMAIN Kinds, NEW op \in Operations, NEW h \in Registered[k][op]
    PROVE  h \in DOMAIN Rules /\ \E rule \in Rules[h] : Matches(rule, k, op)
BY DEF Registered

\* So a hook that looks at the kind, or needs the new object, is called for nothing
\* else.
LEMMA RegisteredOnly ==
    ASSUME NEW k \in DOMAIN Kinds, NEW op \in Operations, NEW h \in Registered[k][op]
    PROVE  /\ h = "clusterlogging" => k = "ClusterLogging" /\ op # "DELETE"
           /\ h = "clusterrole" => k = "ClusterRole"
           /\ h = "clusterrolebinding" => k = "ClusterRoleBinding"
           /\ h = "customresourcedefinitions" => k = "CustomResourceDefinition"
           /\ h = "imagecontentpolicies" =>
                k \in {"ImageDigestMirrorSet", "ImageTagMirrorSet", "ImageContentSourcePolicy"} /\ op # "DELETE"
           /\ h = "ingressconfig" => k = "Ingress"
           /\ h = "ingresscontroller" => k = "IngressController" /\ op # "DELETE"
           /\ h = "networkpolicies" => k = "NetworkPolicy"
           /\ h = "pod" => k = "Pod"
           /\ h = "prometheusrule" => k = "PrometheusRule"
           /\ h = "serviceaccount" => k = "ServiceAccount"
           /\ h = "scc" => k = "SecurityContextConstraints"
           /\ h = "techpreviewnoupgrade" => k = "FeatureGate" /\ op # "DELETE"
<1>1. ASSUME h = "clusterlogging"
      PROVE  k = "ClusterLogging" /\ op # "DELETE"
  <2>1. Rules["clusterlogging"] = cl!rules
    BY DEF Rules
  <2>2. \E rule \in cl!rules : Matches(rule, k, op)
    BY <1>1, <2>1, RegisteredRule
  <2>3. Kinds[k].resource = "clusterloggings" /\ op # "DELETE"
    BY <2>2 DEF cl!rules, cl!Rule, Matches
  <2> QED BY <2>3, KindOf
<1>2. ASSUME h = "clusterrole"
      PROVE  k = "ClusterRole"
  <2>1. Rules["clusterrole"] = cr!rules
    BY DEF Rules
  <2>2. \E rule \in cr!rules : Matches(rule, k, op)
    BY <1>2, <2>1, RegisteredRule
  <2>3. Kinds[k].resource = "clusterroles"
    BY <2>2 DEF cr!rules, cr!Rule, Matches
  <2> QED BY <2>3, KindOf
<1>3. ASSUME h = "clusterrolebinding"
      PROVE  k = "ClusterRoleBinding"
  <2>1. Rules["clusterrolebinding"] = crb!rules
    BY DEF Rules
  <2>2. \E rule \in crb!rules : Matches(rule, k, op)
    BY <1>3, <2>1, RegisteredRule
  <2>3. Kinds[k].resource = "clusterrolebindings"
    BY <2>2 DEF crb!rules, crb!Rule, Matches
  <2> QED BY <2>3, KindOf
<1>4. ASSUME h = "customresourcedefinitions"
      PROVE  k = "CustomResourceDefinition"
  <2>1. Rules["customresourcedefinitions"] = crd!rules
    BY DEF Rules
  <2>2. \E rule \in crd!rules : Matches(rule, k, op)
    BY <1>4, <2>1, RegisteredRule
  <2>3. Kinds[k].resource = "customresourcedefinitions"
    BY <2>2 DEF crd!rules, crd!Rule, Matches
  <2> QED BY <2>3, KindOf
<1>5. ASSUME h = "imagecontentpolicies"
      PROVE  k \in {"ImageDigestMirrorSet", "ImageTagMirrorSet", "ImageContentSourcePolicy"} /\ op # "DELETE"
  <2>1. Rules["imagecontentpolicies"] = icp!rules
    BY DEF Rules
  <2>2. \E rule \in icp!rules : Matches(rule, k, op)
    BY <1>5, <2>1, RegisteredRule
  <2>3. Kinds[k].resource \in {"imagedigestmirrorsets", "imagetagmirrorsets", "imagecontentsourcepolicies"} /\ op # "DELETE"
    BY <2>2 DEF icp!rules, icp!Rule, Matches
  <2> QED BY <2>3, KindOf
<1>6. ASSUME h = "ingressconfig"
      PROVE  k = "Ingress"
  <2>1. Rules["ingressconfig"] = ic!rules
    BY DEF Rules
  <2>2. \E rule \in ic!rules : Matches(rule, k, op)
    BY <1>6, <2>1, RegisteredRule
  <2>3. Kinds[k].resource = "ingresses"
    BY <2>2 DEF ic!rules, ic!Rule, Matches
  <2> QED BY <2>3, KindOf
<1>7. ASSUME h = "ingresscontroller"
      PROVE  k = "IngressController" /\ op # "DELETE"
  <2>1. Rules["ingresscontroller"] = ingress!rules
    BY DEF Rules
  <2>2. \E rule \in ingress!rules : Matches(rule, k, op)
    BY <1>7, <2>1, RegisteredRule
  <2>3. Kinds[k].resource \in {"ingresscontroller", "ingresscontrollers"} /\ op # "DELETE"
    BY <2>2 DEF ingress!rules, ingress!Rule, Matches
  <2> QED BY <2>3, KindOf
<1>8. ASSUME h = "networkpolicies"
      PROVE  k = "NetworkPolicy"
  <2>1. Rules["networkpolicies"] = np!rules
    BY DEF Rules
  <2>2. \E rule \in np!rules : Matches(rule, k, op)
    BY <1>8, <2>1, RegisteredRule
  <2>3. Kinds[k].resource = "networkpolicies"
    BY <2>2 DEF np!rules, np!Rule, Matches
  <2> QED BY <2>3, KindOf
<1>9. ASSUME h = "pod"
      PROVE  k = "Pod"
  <2>1. Rules["pod"] = pod!rules
    BY DEF Rules
  <2>2. \E rule \in pod!rules : Matches(rule, k, op)
    BY <1>9, <2>1, RegisteredRule
  <2>3. Kinds[k].resource = "pods"
    BY <2>2 DEF pod!rules, pod!Rule, Matches
  <2> QED BY <2>3, KindOf
<1>10. ASSUME h = "prometheusrule"
      PROVE  k = "PrometheusRule"
  <2>1. Rules["prometheusrule"] = pr!rules
    BY DEF Rules
  <2>2. \E rule \in pr!rules : Matches(rule, k, op)
    BY <1>10, <2>1, RegisteredRule
  <2>3. Kinds[k].resource = "prometheusrules"
    BY <2>2 DEF pr!rules, pr!Rule, Matches
  <2> QED BY <2>3, KindOf
<1>11. ASSUME h = "serviceaccount"
      PROVE  k = "ServiceAccount"
  <2>1. Rules["serviceaccount"] = sa!rules
    BY DEF Rules
  <2>2. \E rule \in sa!rules : Matches(rule, k, op)
    BY <1>11, <2>1, RegisteredRule
  <2>3. \A rule \in sa!rules : \E groups : rule = sa!Rule({"DELETE"}, groups, {"serviceaccounts"})
    BY Zenon DEF sa!rules
  <2>4. Kinds[k].resource = "serviceaccounts"
    BY <2>2, <2>3 DEF Matches, sa!Rule
  <2> QED BY <2>4, KindOf
<1>12. ASSUME h = "scc"
      PROVE  k = "SecurityContextConstraints"
  <2>1. Rules["scc"] = scc!rules
    BY DEF Rules
  <2>2. \E rule \in scc!rules : Matches(rule, k, op)
    BY <1>12, <2>1, RegisteredRule
  <2>3. Kinds[k].resource = "securitycontextconstraints"
    BY <2>2 DEF scc!rules, scc!Rule, Matches
  <2> QED BY <2>3, KindOf
<1>13. ASSUME h = "techpreviewnoupgrade"
      PROVE  k = "FeatureGate" /\ op # "DELETE"
  <2>1. Rules["techpreviewnoupgrade"] = tp!rules
    BY DEF Rules
  <2>2. \E rule \in tp!rules : Matches(rule, k, op)
    BY <1>13, <2>1, RegisteredRule
  <2>3. Kinds[k].resource = "featuregates" /\ op # "DELETE"
    BY <2>2 DEF tp!rules, tp!Rule, Matches
  <2> QED BY <2>3, KindOf
<1> QED BY <1>1, <1>2, <1>3, <1>4, <1>5, <1>6, <1>7, <1>8, <1>9, <1>10, <1>11, <1>12, <1>13

\* The objects of a request: an operation on an object that exists has the old one,
\* and one that writes the new one.
LEMMA RequestObjects ==
    ASSUME NEW u, NEW op \in Operations, NEW new,
           op = "CREATE" <=> stored = None, op = "DELETE" <=> new = None
    PROVE  LET r == Request(u, op, new)
           IN  /\ r.new # None <=> op # "DELETE"
               /\ r.old # None <=> op # "CREATE"
               /\ r.op = op /\ r.kind = obj.kind /\ r.user = u
BY RequestFields

\* The hooks that decide without looking at an object.
LEMMA DecidesUnseen ==
    ASSUME NEW r
    PROVE  /\ cr!authorized(r) \in {"allow", "deny"}
           /\ crb!authorized(r) \in {"allow", "deny"}
           /\ hive!authorized(r) \in {"allow", "deny"}
           /\ ic!Authorized(r) \in {"allow", "deny"}
           /\ ru!authorized(r) \in {"allow", "deny"}
           /\ sa!authorized(r) \in {"allow", "deny"}
           /\ scc!authorized(r) \in {"allow", "deny"}
<1>1. cr!authorized(r) \in {"allow", "deny"}
  BY DEF cr!authorized, cr!Verdict
<1>2. crb!authorized(r) \in {"allow", "deny"}
  BY DEF crb!authorized, crb!Verdict
<1>3. hive!authorized(r) \in {"allow", "deny"}
  BY DEF hive!authorized, hive!Verdict
<1>4. ic!Authorized(r) \in {"allow", "deny"}
  BY DEF ic!Authorized, ic!Verdict
<1>5. ru!authorized(r) \in {"allow", "deny"}
  BY DEF ru!authorized, ru!Verdict
<1>6. sa!authorized(r) \in {"allow", "deny"}
  BY DEF sa!authorized, sa!Verdict
<1>7. scc!authorized(r) \in {"allow", "deny"}
  BY DEF scc!authorized, scc!Verdict
<1> QED BY <1>1, <1>2, <1>3, <1>4, <1>5, <1>6, <1>7

\* The hooks that decode an object, given the object they decode.
LEMMA DecidesDecoded ==
    ASSUME NEW r, r.old # None \/ r.new # None
    PROVE  /\ crd!authorized(r) \in {"allow", "deny"}
           /\ np!authorized(r) \in {"allow", "deny"}
           /\ pod!authorized(r) \in {"allow", "deny"}
           /\ pr!authorized(r) \in {"allow", "deny"}
           /\ (r.op = "DELETE" => r.old # None) /\ (r.op # "DELETE" => r.new # None) =>
                node!authorized(r) \in {"allow", "deny"}
           /\ r.new # None => /\ icp!Authorized(r) \in {"allow", "deny"}
                              /\ ingress!authorized(r) \in {"allow", "deny", "panic"}
                              /\ tp!authorized(r) \in {"allow", "deny"}
           /\ cl!authorized(r) \in {"allow", "deny", "error", "panic"}
<1>1. crd!authorized(r) \in {"allow", "deny"}
  BY DEF crd!authorized, crd!renderCustomResourceDefinition, crd!OldElseNew, crd!Verdict
<1>2. np!authorized(r) \in {"allow", "deny"}
  BY DEF np!authorized, np!renderNetworkPolicy, np!NewElseOld, np!Verdict
<1>3. pod!authorized(r) \in {"allow", "deny"}
  BY DEF pod!authorized, pod!renderPod, pod!OldElseNew, pod!Verdict
<1>4. pr!authorized(r) \in {"allow", "deny"}
  BY DEF pr!authorized, pr!renderPrometheusRule, pr!OldElseNew, pr!Verdict
<1>5. ASSUME r.op = "DELETE" => r.old # None, r.op # "DELETE" => r.new # None
      PROVE  node!authorized(r) \in {"allow", "deny"}
  BY <1>5 DEF node!authorized, node!decoded, node!Verdict
<1>6. icp!Authorized(r) \in {"allow", "deny"}
  BY DEF icp!Authorized, icp!Verdict
<1>7. r.new # None => ingress!authorized(r) \in {"allow", "deny", "panic"}
  BY DEF ingress!authorized, ingress!renderIngressController, ingress!Verdict
<1>8. r.new # None => tp!authorized(r) \in {"allow", "deny"}
  BY DEF tp!authorized, tp!renderFeatureGate, tp!Verdict
<1>9. cl!authorized(r) \in {"allow", "deny", "error", "panic"}
  <2>1. \A validator, age : cl!checkPolicy(validator, age) \in {"allow", "deny", "error"}
    BY DEF cl!checkPolicy, cl!Verdict
  <2> QED BY <2>1 DEF cl!authorized
<1> QED BY <1>1, <1>2, <1>3, <1>4, <1>5, <1>6, <1>7, <1>8, <1>9

\* A hook that is called finds the request valid and answers it.
LEMMA HookAnswers ==
    ASSUME TypeOK, NEW u \in User, NEW op \in Operations, NEW new,
           op = "CREATE" <=> stored = None, op = "DELETE" <=> new = None,
           NEW h \in Called(Request(u, op, new))
    PROVE  HandleRequest(h, Request(u, op, new)) \in {"allow", "deny"} \cup
               CASE obj.kind = "ClusterLogging" -> {"error", "panic"}
                 [] obj.kind = "IngressController" -> {"panic"}
                 [] OTHER -> {}
<1> DEFINE r == Request(u, op, new)
           more == CASE obj.kind = "ClusterLogging" -> {"error", "panic"}
                     [] obj.kind = "IngressController" -> {"panic"}
                     [] OTHER -> {}
<1>1. /\ r.new # None <=> op # "DELETE"
      /\ r.old # None <=> op # "CREATE"
      /\ r.op = op /\ r.kind = obj.kind /\ r.user = u
  BY RequestObjects
<1>2. r.user.username # ""
  BY <1>1, UsersNamed, Zenon
<1> HIDE DEF r
<1>3. obj.kind \in DOMAIN Kinds
  BY ObjectsAssumption DEF TypeOK
<1>4. h \in Registered[obj.kind][op]
  BY <1>1 DEF Called, r
<1>5. h \in DOMAIN Rules
  BY <1>3, <1>4, RegisteredRule
<1>6. r.old # None \/ r.new # None
  BY <1>1
<1>7. /\ obj.kind = "ClusterLogging" => more = {"error", "panic"}
      /\ obj.kind = "IngressController" => more = {"panic"}
  OBVIOUS
<1> HIDE DEF more
<1>8. ASSUME h = "clusterlogging" PROVE HandleRequest(h, r) \in {"allow", "deny"} \cup more
  <2>1. r.kind = "ClusterLogging"
    BY <1>1, <1>3, <1>4, <1>8, RegisteredOnly
  <2>2. cl!Validate(r)
    BY <1>2, <2>1, Zenon DEF cl!Validate
  <2>3. cl!authorized(r) \in {"allow", "deny", "error", "panic"}
    BY <1>6, DecidesDecoded
  <2>4. HandleRequest(h, r) = cl!authorized(r)
    BY <1>8, <2>2 DEF HandleRequest, Valid, Authorized
  <2> QED BY <2>3, <2>4, <1>1, <1>7, <2>1
<1>9. ASSUME h = "clusterrole" PROVE HandleRequest(h, r) \in {"allow", "deny"} \cup more
  <2>1. r.kind = "ClusterRole"
    BY <1>1, <1>3, <1>4, <1>9, RegisteredOnly
  <2>2. cr!Validate(r)
    BY <1>2, <2>1, Zenon DEF cr!Validate
  <2>3. cr!authorized(r) \in {"allow", "deny"}
    BY DecidesUnseen
  <2>4. HandleRequest(h, r) = cr!authorized(r)
    BY <1>9, <2>2 DEF HandleRequest, Valid, Authorized
  <2> QED BY <2>3, <2>4
<1>10. ASSUME h = "clusterrolebinding" PROVE HandleRequest(h, r) \in {"allow", "deny"} \cup more
  <2>1. r.kind = "ClusterRoleBinding"
    BY <1>1, <1>3, <1>4, <1>10, RegisteredOnly
  <2>2. crb!Validate(r)
    BY <1>2, <2>1, Zenon DEF crb!Validate
  <2>3. crb!authorized(r) \in {"allow", "deny"}
    BY DecidesUnseen
  <2>4. HandleRequest(h, r) = crb!authorized(r)
    BY <1>10, <2>2 DEF HandleRequest, Valid, Authorized
  <2> QED BY <2>3, <2>4
<1>11. ASSUME h = "customresourcedefinitions" PROVE HandleRequest(h, r) \in {"allow", "deny"} \cup more
  <2>1. r.kind = "CustomResourceDefinition"
    BY <1>1, <1>3, <1>4, <1>11, RegisteredOnly
  <2>2. crd!Validate(r)
    BY <1>2, <2>1, Zenon DEF crd!Validate
  <2>3. crd!authorized(r) \in {"allow", "deny"}
    BY <1>6, DecidesDecoded
  <2>4. HandleRequest(h, r) = crd!authorized(r)
    BY <1>11, <2>2 DEF HandleRequest, Valid, Authorized
  <2> QED BY <2>3, <2>4
<1>12. ASSUME h = "imagecontentpolicies" PROVE HandleRequest(h, r) \in {"allow", "deny"} \cup more
  <2>1. r.kind \in {"ImageDigestMirrorSet", "ImageTagMirrorSet", "ImageContentSourcePolicy"} /\ r.new # None
    BY <1>1, <1>3, <1>4, <1>12, RegisteredOnly
  <2>2. icp!Validate(r)
    BY <1>2, <2>1, Zenon DEF icp!Validate
  <2>3. icp!Authorized(r) \in {"allow", "deny"}
    BY <1>6, <2>1, DecidesDecoded
  <2>4. HandleRequest(h, r) = icp!Authorized(r)
    BY <1>12, <2>2 DEF HandleRequest, Valid, Authorized
  <2> QED BY <2>3, <2>4
<1>13. ASSUME h = "ingressconfig" PROVE HandleRequest(h, r) \in {"allow", "deny"} \cup more
  <2>1. r.kind = "Ingress"
    BY <1>1, <1>3, <1>4, <1>13, RegisteredOnly
  <2>2. ic!Validate(r)
    BY <1>2, <2>1, Zenon DEF ic!Validate
  <2>3. ic!Authorized(r) \in {"allow", "deny"}
    BY DecidesUnseen
  <2>4. HandleRequest(h, r) = ic!Authorized(r)
    BY <1>13, <2>2 DEF HandleRequest, Valid, Authorized
  <2> QED BY <2>3, <2>4
<1>14. ASSUME h = "ingresscontroller" PROVE HandleRequest(h, r) \in {"allow", "deny"} \cup more
  <2>1. r.kind = "IngressController" /\ r.new # None
    BY <1>1, <1>3, <1>4, <1>14, RegisteredOnly
  <2>2. ingress!Validate(r)
    BY <1>2, <2>1, Zenon DEF ingress!Validate
  <2>3. ingress!authorized(r) \in {"allow", "deny", "panic"}
    BY <1>6, <2>1, DecidesDecoded
  <2>4. HandleRequest(h, r) = ingress!authorized(r)
    BY <1>14, <2>2 DEF HandleRequest, Valid, Authorized
  <2> QED BY <2>3, <2>4, <1>1, <1>7, <2>1
<1>15. ASSUME h = "networkpolicies" PROVE HandleRequest(h, r) \in {"allow", "deny"} \cup more
  <2>1. r.kind = "NetworkPolicy"
    BY <1>1, <1>3, <1>4, <1>15, RegisteredOnly
  <2>2. np!Validate(r)
    BY <1>2, <2>1, Zenon DEF np!Validate
  <2>3. np!authorized(r) \in {"allow", "deny"}
    BY <1>6, DecidesDecoded
  <2>4. HandleRequest(h, r) = np!authorized(r)
    BY <1>15, <2>2 DEF HandleRequest, Valid, Authorized
  <2> QED BY <2>3, <2>4
<1>16. ASSUME h = "pod" PROVE HandleRequest(h, r) \in {"allow", "deny"} \cup more
  <2>1. r.kind = "Pod"
    BY <1>1, <1>3, <1>4, <1>16, RegisteredOnly
  <2>2. pod!Validate(r)
    BY <1>2, <2>1, Zenon DEF pod!Validate
  <2>3. pod!authorized(r) \in {"allow", "deny"}
    BY <1>6, DecidesDecoded
  <2>4. HandleRequest(h, r) = pod!authorized(r)
    BY <1>16, <2>2 DEF HandleRequest, Valid, Authorized
  <2> QED BY <2>3, <2>4
<1>17. ASSUME h = "prometheusrule" PROVE HandleRequest(h, r) \in {"allow", "deny"} \cup more
  <2>1. r.kind = "PrometheusRule"
    BY <1>1, <1>3, <1>4, <1>17, RegisteredOnly
  <2>2. pr!Validate(r)
    BY <1>2, <2>1, Zenon DEF pr!Validate
  <2>3. pr!authorized(r) \in {"allow", "deny"}
    BY <1>6, DecidesDecoded
  <2>4. HandleRequest(h, r) = pr!authorized(r)
    BY <1>17, <2>2 DEF HandleRequest, Valid, Authorized
  <2> QED BY <2>3, <2>4
<1>18. ASSUME h = "serviceaccount" PROVE HandleRequest(h, r) \in {"allow", "deny"} \cup more
  <2>1. r.kind = "ServiceAccount"
    BY <1>1, <1>3, <1>4, <1>18, RegisteredOnly
  <2>2. sa!Validate(r)
    BY <1>2, <2>1, Zenon DEF sa!Validate
  <2>3. sa!authorized(r) \in {"allow", "deny"}
    BY DecidesUnseen
  <2>4. HandleRequest(h, r) = sa!authorized(r)
    BY <1>18, <2>2 DEF HandleRequest, Valid, Authorized
  <2> QED BY <2>3, <2>4
<1>19. ASSUME h = "scc" PROVE HandleRequest(h, r) \in {"allow", "deny"} \cup more
  <2>1. r.kind = "SecurityContextConstraints"
    BY <1>1, <1>3, <1>4, <1>19, RegisteredOnly
  <2>2. scc!Validate(r)
    BY <1>2, <2>1, Zenon DEF scc!Validate
  <2>3. scc!authorized(r) \in {"allow", "deny"}
    BY DecidesUnseen
  <2>4. HandleRequest(h, r) = scc!authorized(r)
    BY <1>19, <2>2 DEF HandleRequest, Valid, Authorized
  <2> QED BY <2>3, <2>4
<1>20. ASSUME h = "techpreviewnoupgrade" PROVE HandleRequest(h, r) \in {"allow", "deny"} \cup more
  <2>1. r.kind = "FeatureGate" /\ r.new # None
    BY <1>1, <1>3, <1>4, <1>20, RegisteredOnly
  <2>2. tp!Validate(r)
    BY <1>2, <2>1, Zenon DEF tp!Validate
  <2>3. tp!authorized(r) \in {"allow", "deny"}
    BY <1>6, <2>1, DecidesDecoded
  <2>4. HandleRequest(h, r) = tp!authorized(r)
    BY <1>20, <2>2 DEF HandleRequest, Valid, Authorized
  <2> QED BY <2>3, <2>4
<1>21. ASSUME h = "hiveownership" PROVE HandleRequest(h, r) \in {"allow", "deny"} \cup more
  <2>2. hive!Validate(r)
    BY <1>2, Zenon DEF hive!Validate
  <2>3. hive!authorized(r) \in {"allow", "deny"}
    BY DecidesUnseen
  <2>4. HandleRequest(h, r) = hive!authorized(r)
    BY <1>21, <2>2 DEF HandleRequest, Valid, Authorized
  <2> QED BY <2>3, <2>4
<1>22. ASSUME h = "node" PROVE HandleRequest(h, r) \in {"allow", "deny"} \cup more
  <2>2. node!Validate(r)
    BY <1>2, Zenon DEF node!Validate
  <2>3. node!authorized(r) \in {"allow", "deny"}
    BY <1>1, <1>6, DecidesDecoded
  <2>4. HandleRequest(h, r) = node!authorized(r)
    BY <1>22, <2>2 DEF HandleRequest, Valid, Authorized
  <2> QED BY <2>3, <2>4
<1>23. ASSUME h = "regularuser" PROVE HandleRequest(h, r) \in {"allow", "deny"} \cup more
  <2>2. ru!Validate(r)
    BY <1>2, Zenon DEF ru!Validate
  <2>3. ru!authorized(r) \in {"allow", "deny"}
    BY DecidesUnseen
  <2>4. HandleRequest(h, r) = ru!authorized(r)
    BY <1>23, <2>2 DEF HandleRequest, Valid, Authorized
  <2> QED BY <2>3, <2>4
<1> QED
  <2>1. DOMAIN Rules = {
      "clusterlogging", "clusterrole", "clusterrolebinding", "customresourcedefinitions",
      "hiveownership", "imagecontentpolicies", "ingressconfig", "ingresscontroller",
      "networkpolicies", "node", "pod", "prometheusrule", "regularuser", "serviceaccount",
      "scc", "techpreviewnoupgrade"}
    BY DEF Rules
  <2>2. HandleRequest(h, r) \in {"allow", "deny"} \cup more
    BY <1>8, <1>9, <1>10, <1>11, <1>12, <1>13, <1>14, <1>15,
       <1>16, <1>17, <1>18, <1>19, <1>20, <1>21, <1>22, <1>23, <1>5, <2>1
  <2> QED BY <2>2, Zenon DEF r, more

\* The rules of a hook and what it reads of a request agree: no hook is called for a
\* request that it cannot validate or decode (HooksAnswer).
THEOREM HooksAnswerTheorem == Spec => []HooksAnswer
<1>1. Init => HooksAnswer
  BY DEF Init, HooksAnswer
<1>2. TypeOK /\ HooksAnswer /\ [Next]_vars => HooksAnswer'
  <2> SUFFICES ASSUME TypeOK, HooksAnswer, [Next]_vars PROVE HooksAnswer'
    OBVIOUS
  <2>1. CASE UNCHANGED vars
    BY <2>1 DEF HooksAnswer, vars
  <2>2. CASE Next
    <3>1. PICK u \in User, op \in Operations, new \in Content(obj.kind) \cup {None}, up \in BOOLEAN :
              /\ Change(u, op, new, up)
              /\ op = "CREATE" <=> stored = None
              /\ op = "DELETE" <=> new = None
      BY <2>2, StepChanges
    <3> DEFINE r == Request(u, op, new)
               given == Answers(r, up)
               more == CASE obj.kind = "ClusterLogging" -> {"error", "panic"}
                         [] obj.kind = "IngressController" -> {"panic"}
                         [] OTHER -> {}
    <3>2. \A h \in Called(r) : HandleRequest(h, r) \in {"allow", "deny"} \cup more
      BY <3>1, HookAnswers
    <3>3. answers' = {given[h] : h \in DOMAIN given} /\ obj' = obj
      BY <3>1 DEF Change
    <3> HIDE DEF r, more
    <3>4. DOMAIN given = Called(r) /\
          \A h \in Called(r) : given[h] \in {"allow", "deny", "none"} \cup more
      BY <3>2 DEF Answers
    <3>5. answers' \subseteq {"allow", "deny", "none"} \cup more
      BY <3>3, <3>4
    <3> QED BY <3>3, <3>5 DEF HooksAnswer, more
  <2> QED BY <2>1, <2>2
<1> QED BY <1>1, <1>2, ObjectTyped, PTL DEF Spec
=============================================================================
