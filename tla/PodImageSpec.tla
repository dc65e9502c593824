----------------------------- MODULE PodImageSpec -----------------------------
(***************************************************************************)
(* The podimagespec-mutation hook, pkg/webhooks/podimagespec: one call of  *)
(* Authorized, read by read, while the registry's configuration and the    *)
(* image streams change.                                                   *)
(*                                                                         *)
(* A pod is the sequence of the images of its containers, then of its init *)
(* containers, which is the order of the loops.                            *)
(***************************************************************************)
EXTENDS Naturals, Sequences

CONSTANTS
    Internal,    \* images in the internal registry: what imageRegex matches
    Openshift,   \* those whose namespace is openshift
    External,    \* all other images
    MaxImages    \* bound: containers of a pod

ASSUME ImageAssumption ==
    /\ Openshift \subseteq Internal
    /\ Internal \cap External = {}
    /\ MaxImages \in Nat

Image == Internal \cup External

\* What Get finds for an image stream tag: the image it comes from, a tag
\* without a From, or nothing.
Stream == Image \cup {"noFrom", "notFound"}

VARIABLES
    registry,   \* spec.managementState of the registry's Config
    streams,    \* the image stream tag of every internal image
    pc,         \* where the call is, or how it ended
    pod,        \* the pod of the request
    mutatedPod, \* the copy, as far as the loops have come
    wasRemoved, \* history: the registry was not Managed during the call
    held        \* history: what each tag has been during the call

pvars == <<registry, streams, pc, pod, mutatedPod, wasRemoved, held>>

Ended == {"allowed", "errored", "patched", "panicked"}

Pods == UNION {[1..n -> Image] : n \in 1..MaxImages}

PInit ==
    /\ registry \in {"Managed", "Removed"}
    /\ streams \in [Internal -> Stream]
    /\ pc = "client"
    /\ pod \in Pods
    /\ mutatedPod = <<>>
    /\ wasRemoved = (registry = "Removed")
    /\ held = [r \in Internal |-> {streams[r]}]

\* checkContainerImageSpecByRegex: the match; the namespace is looked at only
\* by podContainsContainerRegexMatch.
checkContainerImageSpecByRegex(image) == image \in Internal

podContainsContainerRegexMatch(p) ==
    \E i \in DOMAIN p : checkContainerImageSpecByRegex(p[i]) /\ p[i] \in Openshift

\* KubeClient and renderPod, either of which may fail, and the first check.
Begin ==
    /\ pc = "client"
    /\ \/ pc' = "errored"
       \/ pc' = IF podContainsContainerRegexMatch(pod) THEN "status" ELSE "allowed"
    /\ UNCHANGED <<registry, streams, pod, mutatedPod, wasRemoved, held>>

\* Faulty variant: the hook mutates where the status cannot be read.
checkImageRegistryStatusLeniently ==
    /\ pc = "status"
    /\ \/ pc' = "mutate"
       \/ pc' = IF registry = "Managed" THEN "allowed" ELSE "mutate"
    /\ UNCHANGED <<registry, streams, pod, mutatedPod, wasRemoved, held>>

\* The Get of the registry's Config, and what authorized does with it.
checkImageRegistryStatus ==
    /\ pc = "status"
    /\ \/ pc' = "errored"
       \/ pc' = IF registry = "Managed" THEN "allowed" ELSE "mutate"
    /\ UNCHANGED <<registry, streams, pod, mutatedPod, wasRemoved, held>>

\* The next image of the pod to look up.
NextImage == pod[Len(mutatedPod) + 1]

\* The lookup in the loops of mutatePod gives image.
Found(image) ==
    /\ mutatedPod' = Append(mutatedPod, image)
    /\ pc' = IF Len(mutatedPod') = Len(pod) THEN "patched" ELSE "mutate"

\* Faulty variant: an image that cannot be looked up stays as it is.
lookupImageStreamTagSpecSkipping ==
    /\ pc = "mutate"
    /\ IF ~checkContainerImageSpecByRegex(NextImage)
       THEN Found(NextImage)
       ELSE \/ streams[NextImage] \notin Image /\ Found(NextImage)
            \/ streams[NextImage] \in Image /\ Found(streams[NextImage])
    /\ UNCHANGED <<registry, streams, pod, wasRemoved, held>>

\* Faulty variant: a failed Get is retried without end.
lookupImageStreamTagSpecRetrying ==
    /\ pc = "mutate"
    /\ IF ~checkContainerImageSpecByRegex(NextImage)
       THEN Found(NextImage)
       ELSE \/ streams[NextImage] \notin Image /\ UNCHANGED <<pc, mutatedPod>>
            \/ streams[NextImage] \in Image /\ Found(streams[NextImage])
    /\ UNCHANGED <<registry, streams, pod, wasRemoved, held>>

\* One iteration of the loops: an image outside the registry stays, a tag gives
\* the image it comes from.  A Get may also fail by itself, and a tag without
\* a From is a nil dereference.
lookupImageStreamTagSpec ==
    /\ pc = "mutate"
    /\ IF ~checkContainerImageSpecByRegex(NextImage)
       THEN Found(NextImage)
       ELSE \/ pc' = "errored" /\ UNCHANGED mutatedPod
            \/ streams[NextImage] = "noFrom" /\ pc' = "panicked" /\ UNCHANGED mutatedPod
            \/ streams[NextImage] \in Image /\ Found(streams[NextImage])
    /\ UNCHANGED <<registry, streams, pod, wasRemoved, held>>

\* The registry operator: its state is changed while the call runs.
ChangeRegistry ==
    /\ pc \notin Ended
    /\ registry' \in {"Managed", "Removed"} \ {registry}
    /\ wasRemoved' = (wasRemoved \/ registry' = "Removed")
    /\ UNCHANGED <<streams, pc, pod, mutatedPod, held>>

\* Somebody retags or deletes a stream while the call runs.
ChangeStream ==
    /\ pc \notin Ended
    /\ \E r \in Internal : \E s \in Stream \ {streams[r]} :
         /\ streams' = [streams EXCEPT ![r] = s]
         /\ held' = [held EXCEPT ![r] = @ \cup {s}]
    /\ UNCHANGED <<registry, pc, pod, mutatedPod, wasRemoved>>

Handler == Begin \/ checkImageRegistryStatus \/ lookupImageStreamTagSpec

PNext == Handler \/ ChangeRegistry \/ ChangeStream

PSpec == PInit /\ [][PNext]_pvars

\* The handler's goroutine runs, and each Get returns.
FairPSpec == PSpec /\ WF_pvars(Handler)

-----------------------------------------------------------------------------
(* Properties. *)

(***************************************************************************)
(* A patch is complete and every image in it was right at some time during *)
(* the call: an image outside the registry is kept, one inside is replaced *)
(* by what its tag came from.  No image is left behind, lost or put into   *)
(* another container, however the streams change between the lookups.      *)
(***************************************************************************)
PatchIsResolved ==
    pc = "patched" =>
      /\ Len(mutatedPod) = Len(pod)
      /\ \A i \in DOMAIN pod :
           IF pod[i] \in Internal THEN mutatedPod[i] \in held[pod[i]]
                                  ELSE mutatedPod[i] = pod[i]

(***************************************************************************)
(* "Image registry is available, no mutation required": a pod is mutated   *)
(* only if the registry was seen not to be Managed during the call.        *)
(***************************************************************************)
MutatesOnlyWithoutRegistry == pc = "patched" => wasRemoved

(***************************************************************************)
(* The call ends, whatever is changed meanwhile.                           *)
(***************************************************************************)
CallEnds == <>(pc \in Ended)
=============================================================================
