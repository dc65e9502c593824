---------------------------- MODULE ServiceMutation ----------------------------
(***************************************************************************)
(* The service-mutation hook, pkg/webhooks/service/service.go, and one     *)
(* Service that users write through the API server.                        *)
(*                                                                         *)
(* Only the annotation aws-load-balancer-additional-resource-tags counts.  *)
(* Its value is the nonempty sequence of tags that Split makes of it (the  *)
(* empty string is one empty tag), <<>> stands for no such annotation.     *)
(***************************************************************************)
EXTENDS Naturals, Sequences

CONSTANTS
    Required,   \* the tag red-hat-managed=true
    Conflict,   \* other tags that begin with red-hat-managed=
    Other,      \* the rest, the empty tag included
    MaxTags     \* bound: tags a user writes

ASSUME TagAssumption ==
    /\ Required \notin Conflict \cup Other
    /\ Conflict \cap Other = {}
    /\ MaxTags \in Nat

Tags == {Required} \cup Conflict \cup Other

\* metadata.annotations may be missing, and then so is the annotation.
Annotations ==
    {a \in [map : BOOLEAN, tags : Seq(Tags)] : a.map \/ a.tags = <<>>}

VARIABLES
    loadBalancer,  \* spec.type = LoadBalancer
    annotations,   \* as stored
    asked,         \* the annotations of the last write, before the hook
    vetted,        \* the hook answered the last write in time
    rejected       \* the API server could not apply the patch

svars == <<loadBalancer, annotations, asked, vetted, rejected>>

\* Is the tag one of the annotation's?
hasRedHatManagedTag(a) == \E i \in DOMAIN a.tags : a.tags[i] = Required

\* newTags after so many iterations of the loop over existingTags.
NewTags(existingTags) ==
    LET newTags[i \in 0..Len(existingTags)] ==
          IF i = 0 THEN <<Required>>
          ELSE IF existingTags[i] \in Other THEN Append(newTags[i - 1], existingTags[i])
          ELSE newTags[i - 1]
    IN  newTags

\* Faulty variant: the path does not depend on the annotations.
buildPatchOfKey(a) ==
    [op |-> IF a.tags = <<>> THEN "add" ELSE "replace", path |-> "key",
     value |-> NewTags(a.tags)[Len(a.tags)]]

\* Faulty variant: the existing value is replaced by the tag.
buildPatchOverwriting(a) ==
    [op |-> IF a.tags = <<>> THEN "add" ELSE "replace",
     path |-> IF a.map THEN "key" ELSE "annotations",
     value |-> <<Required>>]

\* Faulty variant: the tag is put before whatever was there.
buildPatchKeeping(a) ==
    [op |-> IF a.tags = <<>> THEN "add" ELSE "replace",
     path |-> IF a.map THEN "key" ELSE "annotations",
     value |-> <<Required>> \o a.tags]

\* The one operation of the patch: the annotation, or the map with only it.
buildPatch(a) ==
    [op |-> IF a.tags = <<>> THEN "add" ELSE "replace",
     path |-> IF a.map THEN "key" ELSE "annotations",
     value |-> NewTags(a.tags)[Len(a.tags)]]

\* JSON patch: "add" needs the parent, "replace" the target itself.
Applicable(patch, a) ==
    /\ patch.path = "key" => a.map
    /\ patch.op = "replace" => IF patch.path = "key" THEN a.tags # <<>> ELSE a.map

\* authorizeOrMutate: does the answer hold a patch?
Mutates(lb, a) == lb /\ ~hasRedHatManagedTag(a)

SInit ==
    /\ loadBalancer = FALSE
    /\ annotations = [map |-> FALSE, tags |-> <<>>]
    /\ asked = annotations
    /\ vetted = FALSE
    /\ rejected = FALSE

\* A create or an update that the hook answers.
Write(lb, a) ==
    /\ vetted' = TRUE
    /\ IF Mutates(lb, a) /\ ~Applicable(buildPatch(a), a)
       THEN /\ rejected' = TRUE
            /\ UNCHANGED <<loadBalancer, annotations, asked>>
       ELSE /\ rejected' = FALSE
            /\ loadBalancer' = lb
            /\ asked' = a
            /\ annotations' = IF Mutates(lb, a)
                              THEN [map |-> TRUE, tags |-> buildPatch(a).value]
                              ELSE a

\* FailurePolicy Ignore: a write that the hook does not answer in time is
\* stored as it came.
WriteUnanswered(lb, a) ==
    /\ vetted' = FALSE
    /\ rejected' = FALSE
    /\ loadBalancer' = lb
    /\ asked' = a
    /\ annotations' = a

\* What a user may write: something new, or the stored Service again.
Written ==
    {a \in [map : BOOLEAN, tags : UNION {[1..n -> Tags] : n \in 0..MaxTags}] :
       a.map \/ a.tags = <<>>} \cup {annotations}

SNext ==
    \E lb \in BOOLEAN, a \in Written : Write(lb, a) \/ WriteUnanswered(lb, a)

SSpec == SInit /\ [][SNext]_svars

-----------------------------------------------------------------------------
(* Properties. *)

\* The type invariant.
STypeOK ==
    /\ loadBalancer \in BOOLEAN
    /\ annotations \in Annotations
    /\ asked \in Annotations
    /\ vetted \in BOOLEAN
    /\ rejected \in BOOLEAN

(***************************************************************************)
(* The patch fits the object the hook was sent, whether it has other       *)
(* annotations, this one, or none: the API server never refuses a Service  *)
(* because of it.                                                          *)
(***************************************************************************)
PatchApplies == ~rejected

(***************************************************************************)
(* docString: LoadBalancer Services "must contain an additional            *)
(* annotation".  They do whenever the hook was asked, whatever was written *)
(* before.  Where the hook put the tag, it is there once, no conflicting   *)
(* one is left, and the Service needs no patch when it is written again.   *)
(***************************************************************************)
TaggedOnceVetted ==
    vetted /\ loadBalancer =>
      \E i \in DOMAIN annotations.tags :
        /\ annotations.tags[i] = Required
        /\ annotations # asked =>
             /\ ~Mutates(loadBalancer, annotations)
             /\ \A j \in DOMAIN annotations.tags \ {i} : annotations.tags[j] \in Other

\* The places of the tags that do not conflict.
Others(tags) == {i \in DOMAIN tags : tags[i] \in Other}

(***************************************************************************)
(* Tags that do not conflict survive, all of them, in the order they were  *)
(* written and as often, and none is added: place takes those of the last  *)
(* write to those that are stored.                                         *)
(***************************************************************************)
OtherTagsKept ==
    \E place \in [Others(asked.tags) -> Others(annotations.tags)] :
      /\ \A i, j \in Others(asked.tags) : i < j => place[i] < place[j]
      /\ \A i \in Others(asked.tags) : annotations.tags[place[i]] = asked.tags[i]
      /\ \A k \in Others(annotations.tags) : \E i \in Others(asked.tags) : place[i] = k
=============================================================================
