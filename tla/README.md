# Formal model of managed-cluster-validating-webhooks

TLA+ modules of the webhook server, its build tool and its hooks, with TLC configurations for small instances and TLAPS proofs for all sizes. Every
definition is translated from the Go source; `PROJECT.json` gives the lines
(`map`), the runs, the hazards each property is there for, and the findings.

## The system

An API server sends an AdmissionReview over HTTPS to the path of a hook.
`cmd/main.go` registers one handler for all paths, `Dispatcher.HandleRequest`,
which takes a mutex, parses the review, asks a fresh instance of the hook
(`Validate`, then `Authorized`) and encodes its response with
`helpers.SendResponse`. If no usable answer comes in time the API server applies
the hook's FailurePolicy: Ignore for all hooks but imagecontentpolicies (Fail).
`build/resources.go` writes the configuration that makes all this known to the
clusters: a template of SelectorSyncSets, and a package for hypershift.

| Part | Source | Module |
|---|---|---|
| dispatcher | `pkg/dispatcher`, `pkg/helpers`, `pkg/webhooks/utils` | `Dispatcher`; `AdmissionService` is what it promises |
| server process | `cmd/main.go` | `Server` |
| the two with an API server | | `Admission` |
| namespace hook | `pkg/webhooks/namespace` | `Namespace` |
| network hooks | `pkg/webhooks/sdnmigration`, `networkoperator` | `NetworkMigration` |
| service-mutation hook | `pkg/webhooks/service` | `ServiceMutation` |
| podimagespec-mutation hook | `pkg/webhooks/podimagespec` | `PodImageSpec` |
| SelectorSyncSet map | `pkg/syncset` | `SyncSet`; `SelectorMap` is what it promises |
| resource generator | `build/resources.go` | `Resources`, on `SyncSet` |
| what the other hooks share | `pkg/webhooks/utils`, `pkg/config` | `HookRequests` |
| regular-user hook | `pkg/webhooks/regularuser/common` | `RegularUser` |
| managed-resource hooks | `pkg/webhooks/scc`, `clusterrole`, `clusterrolebinding`, `serviceaccount`, `customresourcedefinitions`, `networkpolicies`, `prometheusrule` | `SCC`, `ClusterRole`, `ClusterRoleBinding`, `ServiceAccount`, `CustomResourceDefinitions`, `NetworkPolicies`, `PrometheusRule` |
| ingress, node, pod | `pkg/webhooks/ingresscontroller`, `ingressconfig`, `node`, `pod` | `IngressController`, `IngressConfig`, `Node`, `Pod` |
| retention, mirrors, feature sets, quotas | `pkg/webhooks/clusterlogging`, `imagecontentpolicies`, `techpreviewnoupgrade`, `hiveownership` | `ClusterLogging`, `ImageContentPolicies`, `TechPreviewNoUpgrade`, `HiveOwnership` |
| these sixteen hooks with an API server | | `Objects` |
| hosted control plane hooks | `pkg/webhooks/hcpnamespace`, `hostedcluster`, `hostedcontrolplane`, `manifestworks` | `HostedHooks` |
| these four with the controllers they admit | | `HostedTeardown` |
| API client, metrics, generators, tests | | not modelled, see below |

`MC*.tla` hold the constants of the runs, `*Proofs.tla` the theorems (those of
`main()` are at the end of `Server`). Operators
commented "Faulty variant" are plausible bugs of the definition that follows
them; no specification uses them. `PROJECT.json` pairs each with the property
that has to fail once it takes that definition's place.

## State and actions

**Dispatcher.** A call has a program counter through HandleRequest, the shape of
its request (URI, parsable URL, body, validity), its response, its connection
and what reached the wire. `Lock`, `Route`, `ReadAndValidate`, `Query`,
`Authorized`, `SendResponse` are the steps between which other goroutines, the
client's timeout (`HangUp`) and the end of the process can come. `Panic` is a
hook's nil dereference: the deferred `Unlock` runs, net/http recovers and closes
the connection. `SendResponseAgain` is the recursion on a failed encoding,
which ends with the stack. What a hook decides is an element of
`Verdicts[uri]`.

**Server.** `main()` from flags through registration (map order, hence any
order), start-up, serving, signal, drain and exit, then a restart by the kubelet.

**Admission** runs both and adds the API server: the outcome of each request and
why it had none from the hook.

**Namespace, NetworkMigration, ServiceMutation.** The hook's decision is an
operator; the actions are the requests of users of every kind to one object,
stored if the hook allows them. History variables hold what someone trusted last
granted, or who made the last change.

**PodImageSpec.** One call, a step per read of the API, with changes of the
registry and the streams between the steps. A hook object lives for one request,
so its cached client is never reused and is not state.

**SyncSet, Resources.** The slice of entries, and `main()` hook by hook.

**The sixteen hooks of Objects.** A hook module has no state: `rules`,
`Validate`, the object it decodes (old or new, as its render function chooses)
and `authorized`, which is the ladder of early returns. It answers "allow" or
"deny"; "error" is a refusal that carries the UID; "invalid", "undecodable" and
"panic" reach the API server as no answer. A regular expression is the set of
names it matches, and an object is reduced to what the hook of its kind reads
(`spec`) and a version number for everything else (`rest`).

**Objects** is one object through any sequence of `Create`, `Update` and
`Delete`. The API server is external: it matches the rules and the object
selector, calls every hook that has a rule for the request, sends the stored
object as the old one, and needs all to allow; where there is no answer it
applies FailurePolicy. In each request the calls are answered or not (`up`).
History variables hold the content before the last change, its author, whether
it was vetted, and the content as someone entitled to the object, or an
unanswered request, last left it.

**HostedTeardown** is the deletion of the parts of hosted clusters, spread over
a service and a management cluster: namespaces that terminate, the namespace
controller that empties them, and the agents that delete a part once its parent
is gone. Each asks the hooks that are installed on the cluster of the part, by
the label selector of their SyncSets.

## Runs

| Run | Shows | States |
|---|---|---|
| `dispatcher` | mutex, answers, status codes, recursion of SendResponse; every call ends; refinement of `AdmissionService` | 55,576 |
| `server` | only unique URIs are served; start-up; a signal ends the process | 1,008 |
| `admission` | what becomes of a request follows decision and FailurePolicy | 148,730 |
| `namespace` | protected labels and managed names | 1,059 |
| `network` | who may start a migration and change its parameters | 14,580 |
| `service` | the patch applies, tags, keeps the rest, is not needed twice | 376 |
| `podimagespec` | the patch is complete and was right during the call; the call ends | 1,141,504 |
| `resources` | each file holds each of its hooks once; refinement of `SelectorMap`; stable names | 53,248 |
| `objects` | what sixteen hooks keep of an object over any sequence of requests and outages | 20,411 |
| `hosted` | the order of a teardown, and that no hook blocks one that was begun | 11,942 |

Two runs end in a violation, each of something the repository says:

- `namespace_swap`: one protected label with an empty value can be exchanged for
  another, because only counts and old keys are compared.
- `resources_only`: `-only` is split into characters and includes nothing.

What `objects` says of the hooks, property by property:

- `ManagedObjectsKept`: machines, MachineConfigs, ClusterVersions, protected
  CRDs and the like are what someone entitled to them last made of them. The
  entitled are fewer than the trusted: MachineConfigs and ClusterVersions are
  closed to service accounts that are not listed.
- `ManagedLabelsKept`: where a label decides, no update first changes the label
  and then the rest, because selector and hook look at the old object too.
- `ProtectedAccessStays`: protected roles and service accounts survive whatever
  customers do. Of bindings only this holds: the subjects a binding has when it
  is deleted decide, and updates are not guarded.
- `LastAnsweredWriteConforms`, `MirrorsFailClosed`: an outage is repaired by the
  next answered write, or, for mirror sets, cannot admit anything.
- `RetentionCheckedOneLate`: an update of a ClusterLogging is judged by the
  version it replaces. The first version is in range; a later one may not be,
  and can then no longer be updated.
- `HooksAnswer`: rules and handlers agree, so the only calls without an answer
  of their own are the two nil dereferences the property names.

More differences between code and text are in the models but have no run:

- A review that Validate refuses, or whose object a hook cannot decode, is
  answered without the UID that `README.md` line 153 asks for.
- sdnmigration compares the new network type with the status, so during a
  migration it can be set back, while its docString says the type may not be
  modified.
- The rule of the pod hook is for the API group `v1`, which is a version; no
  resource is in it, so the hook is never called.
- The docString of clusterroles-validation names `system:node-proxier`, which
  is not in `protectedClusterRoles`.
- The docString of node-validation-osd says customers may not alter nodes; they
  may create and update nodes without one of the three managed roles.
- `isNetNamespaceValid` needs a new object, so customers never delete a
  NetNamespace.
- hiveownership does not guard creation: a quota can be created with the label.
- `-showhooks` exits only in the branch of `-syncsetfile`, not with
  `-packagedir` alone.
- Once one image of a pod is in the openshift namespace, podimagespec also looks
  up its images in other namespaces of the internal registry, which the comment
  on `checkContainerImageSpecByRegex` does not say.

## Bounds

Two calls are enough for the dispatcher: it keeps no state between calls but the
mutex, and each property relates at most two. `MaxDepth` stands for Go's stack
limit. Three hooks on three paths give all ways of sharing a URI. Label values,
network types, tags and images are the fewest that the code tells apart (equal,
different, empty, missing); `MaxTags` and `MaxImages` bound
sequences at lengths where order and repetition show. Two hooks suffice for the
loops of `Resources`, whose only memory is the set of URIs and the entries.
In `objects`
one object is enough, since the hooks keep nothing and a request concerns one;
there is one for every kind, name and namespace the hooks tell apart, with
contents on both sides of each check, and a user of each kind. `Width` is 20
bits instead of 64: the bounds of seven days still fit, and 2^16 + 1 hours wrap
to one. `hosted` has one hosted cluster with seven parts, from the owner of its
ManifestWork to its control plane, and users with every kind of account.
Where a theorem is listed, the bound matters only to the run.

## Fairness

`dispatcher`: a runnable goroutine runs (weak); the mutex does not starve a
waiter, because sync.Mutex hands itself over after a millisecond (strong, on
`Lock`); every hook sets TimeoutSeconds, so the client gives up (weak); a query
to the API server returns, because the transport drops dead connections (weak).
`server`: main() goes on, and Shutdown's ten-second context expires.
`podimagespec`: the handler runs and each read returns. 
`hosted`: some controller acts as long as one may (weak, on `Controllers`
together), since all of them retry with backoff until nothing is left to do;
which goes first is open. Nothing is assumed of users, of crashes, or of the kubelet beyond this.

## Proofs

All proofs are for any number of calls, hooks, users, labels, selectors, tags or
images. Every safety property of a passing run is proved.

- `DispatcherProofs`: type correctness, mutual exclusion, own answers, status
  codes, futility of the retry. The inductive invariant `IInv` (in
  `Dispatcher`) says of each call which response its program counter allows;
  mutual exclusion alone is not inductive, since Unlock on each path needs to
  know that this call holds the mutex. Under `IInv` the dispatcher implements
  `AdmissionService`, step by step, and calls only go forward (`Forward`).
- `AdmissionProofs`: every step of the whole is a step of the dispatcher or
  leaves it alone, so `IInv` carries over; `SysInv` ties the API server's record
  of a call to its connection. From both follow FailClosed,
  OutageBlocksNothing, DenialLostOnlyToTimeoutOrExit, DrainCutsNoCall and
  LateAnswerIsDropped. Every step of the whole is also a step of `Server` or
  leaves it alone (`SystemRunsServer`), so what `Server` shows carries over
  too, and a call always meets the one hook of its URI.
- `Server`: ServesUniqueURIs follows from `MainInv`: the patterns
  registered are those of the hooks the loop has come to, and no two of these
  share one. `RegistrationTheorem` has the hypothesis that no URI is the name of
  a hook, because `seen` is filled by name: URIs begin with a slash.
- `NamespaceProofs`: both invariants of the run, LabelsKept with the
  strengthening that only protected labels are ever granted. The stronger
  LabelsAsGranted is proved under the hypothesis that no label value is empty,
  and `namespace_swap` shows why: equal counts and equal values of the old keys
  give equal label sets only then.
- `HookProofs`, network: the nested comparison finds every difference, hence
  both invariants.
- `ResourcesProofs`, the slice: distinct keys, stable names and the refinement
  of `SelectorMap`, for any sequence of calls of Add (`SSSpec`); Get finds the
  one entry of a key because keys are distinct.
- `ResourcesProofs`, the build: `RSpec` implements `SSSpec` (`BuildAdds`), so
  the theorems of the slice hold of it. `LoopInv` says that `seen` holds the URIs
  of the hooks the loop is past, all of them distinct; hence WritesUniqueURIs,
  and hence no two hooks have the same configuration, since it names the URI.
  With that `PackInv` and `EntriesInv` say which hooks the package and the slice
  hold so far: each included hook the loop is past once (in the entry of its
  selector), and no other. At the end of the loops these are the two properties
  of the files. With `-only` no hook is included, which gives `OnlyTheorem`, the
  positive side of the finding `resources_only`. `BuildEnds` counts the steps.
- `HookProofs`, podimagespec: the copy is resolved as far as it goes, and
  each tag's present value is in its history. `LookupsEnd` counts the steps.
- `HookProofs`, service: all three invariants of `service`. What the loop of
  buildPatch computes is a recursive function (`NewTags`); that it exists
  (`LoopExists`) and what it keeps (`LoopKeeps`) is shown by taking the least
  length at which it fails (`LeastNatural`) and looking at the iteration before.
  `IterationKeeps` extends the increasing bijection between the old and the new
  places of the other tags by one.
- `ObjectsProofs`: all invariants of `objects`, for any users,
  objects and contents and any width. Those about the object's past are inductive
  with TypeOK, because `granted` already says what the past allows. The argument
  has three layers:
  which hooks the rules register for a kind and an operation
  (`RegularUserRegistered`, `WriteRegistered`, `DeleteRegistered`); that one
  refusal, or one missing answer under Fail, is enough to keep the request out
  (`Refused`); and what each ladder answers to a customer (`CustomerIs`,
  `ManagedRefused`). Retention needs besides that the chain of multiplications
  modulo the width is exact for a length that fits (`SecondsExact`).
  HooksAnswer goes through the hooks one by one: a hook is registered for its own
  kinds only (`RegisteredOnly`, from the API group and resource of all 25
  kinds), these pass its Validate, and the request has the object it decodes.
- `HostedProofs`: both safety properties of `hosted`. WorkloadDeletedInOrder is
  inductive with TypeOK and `GoneStays`; WorkDeletedThroughNamespace needs
  `ProtectedNamespacesInv`, that protected namespaces are deleted only by those
  the namespace hook allows. `NamespaceNeverStuckTheorem` is that the namespace
  controller is in the lists where it has to be.

The assumptions are the named ASSUMEs of the modules, which TLC evaluates. Apart
from the types of the constants they are: no call, verdict or response is the
value `None`; the sets that stand for prefixes and expressions relate as those
do; users are named, and an unauthenticated one has no privileged group; nobody
uses the account of a controller; no hook's configuration is one of the base
resources, and no hook has a name of one character. Type correctness is proved
and not repeated in the runs, and so are the distinct keys of `SyncSet`.

Only model-checked, because temporal reasoning with fairness and ENABLED is
outside the prover's reach: EveryCallEnds, StartsUp, SignalEndsProcess, CallEnds,
TeardownCompletes and NamespacesTerminate. For four of them the part without
fairness is proved: steps that count down (`Forward`, `RegistrationTheorem`,
`LookupsEnd`) or a next step that no hook forbids
(`NamespaceNeverStuckTheorem`). What is missing is that a step that can be taken
is taken.

## Not modelled

- The API client (`pkg/k8sutil`): reads files and the environment; it is a step
  that may fail in `PodImageSpec` and `Server`.
- Metrics (one counter), the generators of documentation and of namespace lists
  (file conversion), JSON encoding, logging, tests, build constants.
- Decoding itself: an object is there or not. A malformed one is the verdict
  "error" or "errorNoUID" of `Dispatcher`.
- Which hooks run on classic clusters and which on hypershift: `Resources` has
  the selection; `Objects` has all of its hooks installed, and a property is
  about the kinds of one hook at a time, save the few that regularuser shares.
- Subresources, `nodes/*` and `*/status`, whose rules are in the models but for
  which no request is made; MatchPolicy Equivalent, since a kind has one version
  here.
- Effects of admitted objects on the cluster, beyond the migration and the
  teardown that the properties are about.
