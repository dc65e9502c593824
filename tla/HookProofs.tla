------------------------------ MODULE HookProofs ------------------------------
(***************************************************************************)
(* Proofs about four of the hooks: podimagespec-mutation, for pods of any  *)
(* size and any set of images; service-mutation, for annotations of any    *)
(* length and any set of tags; and the two around a change of network, for *)
(* any network types, users and field values.                              *)
(***************************************************************************)
EXTENDS PodImageSpec, ServiceMutation, NetworkMigration, WellFoundedInduction, TLAPS

-----------------------------------------------------------------------------
(* podimagespec-mutation. *)

\* The images copied so far are resolved.
Resolved ==
    \A i \in 1..Len(mutatedPod) :
      IF pod[i] \in Internal THEN mutatedPod[i] \in held[pod[i]]
                             ELSE mutatedPod[i] = pod[i]

\* What the histories know of the present, and the copy's progress of the call.
IInv ==
    /\ pod \in Seq(Image)
    /\ Len(pod) > 0
    /\ mutatedPod \in Seq(Image)
    /\ streams \in [Internal -> Stream]
    /\ held \in [Internal -> SUBSET Stream]
    /\ \A r \in Internal : streams[r] \in held[r]
    /\ registry = "Removed" \/ registry = "Managed"
    /\ registry = "Removed" => wasRemoved
    /\ pc \in {"mutate", "patched"} => wasRemoved
    /\ pc \in {"client", "status"} => mutatedPod = <<>>
    /\ pc = "mutate" => Len(mutatedPod) < Len(pod)
    /\ pc = "patched" => Len(mutatedPod) = Len(pod)
    /\ Len(mutatedPod) <= Len(pod)
    /\ Resolved

\* The first image of a call has nothing resolved before it.
LEMMA InitIInv == PInit => IInv
<1> SUFFICES ASSUME PInit PROVE IInv
  OBVIOUS
<1>1. PICK n \in 1..MaxImages : pod \in [1..n -> Image]
  BY DEF PInit, Pods
<1>2. n \in Nat /\ n > 0
  BY ImageAssumption
<1>3. pod \in Seq(Image) /\ Len(pod) = n
  BY <1>1, <1>2
<1>4. held \in [Internal -> SUBSET Stream] /\ \A r \in Internal : streams[r] \in held[r]
  BY DEF PInit
<1>5. registry = "Removed" => wasRemoved
  BY DEF PInit
<1>6. mutatedPod = <<>> /\ pc = "client"
  BY DEF PInit
<1> QED
  BY <1>2, <1>3, <1>4, <1>5, <1>6 DEF PInit, IInv, Resolved

\* Appending the image that the lookup gave keeps the copy resolved.
LEMMA FoundStep ==
    ASSUME IInv, pc = "mutate", NEW image \in Image, Found(image),
           UNCHANGED <<registry, streams, pod, wasRemoved, held>>,
           IF NextImage \in Internal THEN image \in held[NextImage]
                                     ELSE image = NextImage
    PROVE  IInv'
<1> DEFINE n == Len(mutatedPod)
<1>1. n \in Nat /\ n + 1 <= Len(pod) /\ Len(pod) \in Nat
  BY DEF IInv
<1>2. /\ mutatedPod' \in Seq(Image)
      /\ Len(mutatedPod') = n + 1
      /\ mutatedPod'[n + 1] = image
      /\ \A i \in 1..n : mutatedPod'[i] = mutatedPod[i]
  BY <1>1 DEF IInv, Found
<1>3. Resolved'
  <2> SUFFICES ASSUME NEW i \in 1..(n + 1)
               PROVE  IF pod[i] \in Internal THEN mutatedPod'[i] \in held[pod[i]]
                                             ELSE mutatedPod'[i] = pod[i]
    BY <1>2 DEF Resolved
  <2>1. CASE i = n + 1
    BY <2>1, <1>2 DEF NextImage
  <2>2. CASE i \in 1..n
    BY <2>2, <1>2 DEF IInv, Resolved
  <2> QED
    BY <2>1, <2>2, <1>1
<1>4. pc' = IF n + 1 = Len(pod) THEN "patched" ELSE "mutate"
  BY <1>2 DEF Found
<1>5. wasRemoved'
  BY DEF IInv
<1> QED
  BY <1>1, <1>2, <1>3, <1>4, <1>5 DEF IInv

\* Every step keeps the invariant; a change of a stream only adds to held.
LEMMA StepIInv == IInv /\ [PNext]_pvars => IInv'
<1> SUFFICES ASSUME IInv, [PNext]_pvars PROVE IInv'
  OBVIOUS
<1>1. CASE Begin
  <2>1. pc' \in {"errored", "status", "allowed"} /\ pc = "client"
    BY <1>1 DEF Begin
  <2> QED
    BY <1>1, <2>1 DEF IInv, Begin, Resolved
<1>2. CASE checkImageRegistryStatus
  <2>1. pc' \in {"errored", "allowed"} \/ (pc' = "mutate" /\ registry = "Removed")
    BY <1>2 DEF checkImageRegistryStatus, IInv
  <2>2. mutatedPod = <<>>
    BY <1>2 DEF checkImageRegistryStatus, IInv
  <2> QED
    BY <1>2, <2>1, <2>2 DEF IInv, checkImageRegistryStatus, Resolved
<1>3. CASE lookupImageStreamTagSpec
  <2>1. NextImage \in Image /\ pc = "mutate"
    BY <1>3 DEF IInv, lookupImageStreamTagSpec, NextImage
  <2>2. UNCHANGED <<registry, streams, pod, wasRemoved, held>>
    BY <1>3 DEF lookupImageStreamTagSpec
  <2>3. CASE NextImage \notin Internal
    <3>1. Found(NextImage)
      BY <1>3, <2>3 DEF lookupImageStreamTagSpec, checkContainerImageSpecByRegex
    <3> QED
      BY <2>1, <2>2, <2>3, <3>1, FoundStep
  <2>4. CASE NextImage \in Internal
    <3>1. \/ pc' \in {"errored", "panicked"} /\ UNCHANGED mutatedPod
          \/ streams[NextImage] \in Image /\ Found(streams[NextImage])
      BY <1>3, <2>4 DEF lookupImageStreamTagSpec, checkContainerImageSpecByRegex
    <3>2. CASE pc' \in {"errored", "panicked"} /\ UNCHANGED mutatedPod
      BY <3>2, <2>2 DEF IInv, Resolved
    <3>3. CASE streams[NextImage] \in Image /\ Found(streams[NextImage])
      <4>1. streams[NextImage] \in held[NextImage]
        BY <2>4 DEF IInv
      <4> QED
        BY <2>1, <2>2, <2>4, <3>3, <4>1, FoundStep
    <3> QED
      BY <3>1, <3>2, <3>3
  <2> QED
    BY <2>3, <2>4
<1>4. CASE ChangeRegistry
  BY <1>4 DEF IInv, ChangeRegistry, Resolved
<1>5. CASE ChangeStream
  <2>1. PICK r \in Internal : \E s \in Stream \ {streams[r]} :
          /\ streams' = [streams EXCEPT ![r] = s]
          /\ held' = [held EXCEPT ![r] = @ \cup {s}]
    BY <1>5 DEF ChangeStream
  <2>2. PICK s \in Stream : /\ streams' = [streams EXCEPT ![r] = s]
                            /\ held' = [held EXCEPT ![r] = @ \cup {s}]
    BY <2>1
  <2>3. /\ streams' \in [Internal -> Stream]
        /\ held' \in [Internal -> SUBSET Stream]
        /\ \A q \in Internal : streams'[q] \in held'[q] /\ held[q] \subseteq held'[q]
    BY <2>2 DEF IInv
  <2>4. UNCHANGED <<registry, pc, pod, mutatedPod, wasRemoved>>
    BY <1>5 DEF ChangeStream
  <2>5. Resolved'
    BY <2>3, <2>4 DEF IInv, Resolved
  <2> QED
    BY <2>3, <2>4, <2>5 DEF IInv
<1>6. CASE UNCHANGED pvars
  BY <1>6 DEF IInv, Resolved, pvars
<1> QED
  BY <1>1, <1>2, <1>3, <1>4, <1>5, <1>6 DEF PNext, Handler

\* A patch is complete, and each image in it is one its tag had during the call.
THEOREM ResolvedTheorem == PSpec => []PatchIsResolved
<1>1. IInv => PatchIsResolved
  BY DEF IInv, Resolved, PatchIsResolved
<1> QED
  BY <1>1, InitIInv, StepIInv, PTL DEF PSpec

\* A pod is mutated only if the registry was not Managed during the call.
THEOREM RegistryTheorem == PSpec => []MutatesOnlyWithoutRegistry
<1>1. IInv => MutatesOnlyWithoutRegistry
  BY DEF IInv, MutatesOnlyWithoutRegistry
<1> QED
  BY <1>1, InitIInv, StepIInv, PTL DEF PSpec

\* How many steps the call can still take.
PodLeft ==
    CASE pc = "client" -> Len(pod) + 3
      [] pc = "status" -> Len(pod) + 2
      [] pc = "mutate" -> Len(pod) + 1 - Len(mutatedPod)
      [] OTHER -> 0

(***************************************************************************)
(* Every step of Authorized brings its end closer, and what is changed in  *)
(* the cluster meanwhile does not take it back: the half of CallEnds that  *)
(* does not depend on fairness.                                            *)
(***************************************************************************)
PodCountsDown == PodLeft' \in 0..PodLeft /\ (Handler => PodLeft' < PodLeft)

\* The lookups end, for pods of any size (PodCountsDown).
THEOREM LookupsEnd == PSpec => [][PodCountsDown]_pvars
<1>1. IInv /\ IInv' /\ [PNext]_pvars => [PodCountsDown]_pvars
  <2> SUFFICES ASSUME IInv, IInv', PNext
               PROVE  PodLeft' \in 0..PodLeft /\ (Handler => PodLeft' < PodLeft)
    BY DEF PodCountsDown
  <2>0. /\ Len(pod) \in Nat /\ Len(mutatedPod) \in Nat /\ Len(mutatedPod') \in Nat
        /\ pod' = pod
        /\ PodLeft \in Nat
        /\ PodLeft' \in Nat
    <3>1. pod' = pod
      BY DEF PNext, Handler, Begin, checkImageRegistryStatus, lookupImageStreamTagSpec,
             ChangeRegistry, ChangeStream
    <3>2. Len(pod) \in Nat /\ Len(mutatedPod) \in Nat /\ Len(mutatedPod') \in Nat
      BY DEF IInv
    <3>3. PodLeft \in Nat
      BY <3>2 DEF PodLeft, IInv
    <3>4. PodLeft' \in Nat
      BY <3>1, <3>2 DEF PodLeft, IInv
    <3> QED BY <3>1, <3>2, <3>3, <3>4
  <2>1. CASE Begin
    <3>1. PodLeft = Len(pod) + 3 /\ PodLeft' \in {0, Len(pod) + 2}
      BY <2>0, <2>1 DEF Begin, PodLeft
    <3> QED BY <2>0, <3>1
  <2>2. CASE checkImageRegistryStatus
    <3>1. mutatedPod = <<>> /\ mutatedPod' = <<>>
      BY <2>2 DEF checkImageRegistryStatus, IInv
    <3>2. PodLeft = Len(pod) + 2 /\ PodLeft' \in {0, Len(pod) + 1}
      BY <2>0, <2>2, <3>1 DEF checkImageRegistryStatus, PodLeft
    <3> QED BY <2>0, <3>2
  <2>3. CASE lookupImageStreamTagSpec
    <3>1. pc = "mutate" /\ PodLeft = Len(pod) + 1 - Len(mutatedPod) /\ Len(mutatedPod) < Len(pod)
      BY <2>3 DEF lookupImageStreamTagSpec, PodLeft, IInv
    <3>2. \/ pc' \in {"errored", "panicked", "patched"}
          \/ pc' = "mutate" /\ \E image : mutatedPod' = Append(mutatedPod, image)
      BY <2>3 DEF lookupImageStreamTagSpec, Found
    <3>3. CASE pc' \in {"errored", "panicked", "patched"}
      BY <2>0, <3>1, <3>3 DEF PodLeft
    <3>4. CASE pc' = "mutate" /\ \E image : mutatedPod' = Append(mutatedPod, image)
      <4>1. Len(mutatedPod') = Len(mutatedPod) + 1
        BY <3>4 DEF IInv
      <4> QED BY <2>0, <3>1, <3>4, <4>1 DEF PodLeft
    <3> QED BY <3>2, <3>3, <3>4
  <2>4. CASE ~Handler
    <3>1. UNCHANGED <<pc, pod, mutatedPod>>
      BY <2>4 DEF PNext, ChangeRegistry, ChangeStream
    <3> QED BY <2>0, <2>4, <3>1 DEF PodLeft
  <2> QED BY <2>1, <2>2, <2>3, <2>4 DEF Handler
<1> QED BY <1>1, InitIInv, StepIInv, PTL DEF PSpec

-----------------------------------------------------------------------------
(* service-mutation. *)

\* The library states induction over an arbitrary predicate.  This is what it
\* comes to for a set, the set of counterexamples below.
LEMMA LeastNatural ==
    ASSUME NEW T, T \subseteq Nat, T # {}
    PROVE  \E x \in T : \A y \in T : x <= y
<1> DEFINE R == OpToRel(<, Nat)
<1>1. IsWellFoundedOn(R, Nat)
  BY NatLessThanWellFounded, Zenon
<1>2. \A x, y \in Nat : y < x => <<y, x>> \in R
  BY DEF OpToRel
<1> HIDE DEF R
<1>3. PICK x \in T : \A y \in T : ~(<<y, x>> \in R)
  BY <1>1, WFMin, Zenon
<1>4. \A y \in T : y \in Nat /\ x \in Nat /\ ~(y < x)
  BY <1>2, <1>3, Zenon
<1>5. \A y \in T : x <= y
  BY <1>4
<1> QED BY <1>5

\* f is newTags after 0 to n iterations over tags.
Loop(f, tags, n) ==
    f = [i \in 0..n |-> IF i = 0 THEN <<Required>>
                        ELSE IF tags[i] \in Other THEN Append(f[i - 1], tags[i])
                        ELSE f[i - 1]]

\* The loop has a result, however many iterations it takes.
LEMMA LoopExists == \A tags : \A n \in Nat : \E f : Loop(f, tags, n)
<1> SUFFICES ASSUME NEW tags PROVE \A n \in Nat : \E f : Loop(f, tags, n)
  OBVIOUS
<1> DEFINE T == {n \in Nat : ~ \E f : Loop(f, tags, n)}
<1> SUFFICES ASSUME T # {} PROVE FALSE
  OBVIOUS
<1>1. PICK n \in T : \A m \in T : n <= m
  BY LeastNatural, Zenon
<1>2. n \in Nat /\ ~ \E f : Loop(f, tags, n)
  BY <1>1
<1>3. CASE n = 0
  <2>1. Loop([i \in 0..0 |-> <<Required>>], tags, 0)
    BY DEF Loop
  <2> QED BY <1>2, <1>3, <2>1
<1>4. CASE n # 0
  <2>0. n - 1 \in Nat /\ ~(n <= n - 1) /\ n \in 0..n /\ n # 0
    BY <1>2, <1>4
  <2>1. n - 1 \notin T
    BY <1>1, <2>0
  <2>2. PICK g : Loop(g, tags, n - 1)
    BY <2>0, <2>1
  <2> HIDE DEF T
  <2> DEFINE f == [i \in 0..n |-> IF i < n THEN g[i]
                                 ELSE IF tags[n] \in Other THEN Append(g[n - 1], tags[n])
                                 ELSE g[n - 1]]
  <2>3. \A i \in 0..(n - 1) : f[i] = g[i]
    BY <1>2
  <2>4. \A i \in 0..(n - 1) : g[i] = IF i = 0 THEN <<Required>>
                                    ELSE IF tags[i] \in Other THEN Append(g[i - 1], tags[i])
                                    ELSE g[i - 1]
    BY <2>2 DEF Loop
  <2>5. \A i \in 0..n : f[i] = IF i = 0 THEN <<Required>>
                              ELSE IF tags[i] \in Other THEN Append(f[i - 1], tags[i])
                              ELSE f[i - 1]
    <3> SUFFICES ASSUME NEW i \in 0..n
                 PROVE  f[i] = IF i = 0 THEN <<Required>>
                               ELSE IF tags[i] \in Other THEN Append(f[i - 1], tags[i])
                               ELSE f[i - 1]
      OBVIOUS
    <3>1. CASE i = n
      <4>1. f[n - 1] = g[n - 1]
        BY <2>0, <2>3
      <4>2. f[n] = IF tags[n] \in Other THEN Append(g[n - 1], tags[n]) ELSE g[n - 1]
        BY <2>0
      <4> QED BY <2>0, <3>1, <4>1, <4>2
    <3>2. CASE i # n
      <4>1. i \in 0..(n - 1) /\ (i # 0 => i - 1 \in 0..(n - 1))
        BY <1>2, <3>2
      <4> HIDE DEF f
      <4> QED BY <2>3, <2>4, <4>1
    <3> QED BY <3>1, <3>2
  <2>6. f = [i \in 0..n |-> IF i = 0 THEN <<Required>>
                            ELSE IF tags[i] \in Other THEN Append(f[i - 1], tags[i])
                            ELSE f[i - 1]]
    <3>1. f = [i \in 0..n |-> f[i]]
      OBVIOUS
    <3> HIDE DEF f
    <3> QED BY <2>5, <3>1
  <2> HIDE DEF f
  <2> QED BY <1>2, <2>6 DEF Loop
<1> QED BY <1>3, <1>4

\* NewTags is the result of the loop, iteration by iteration.
LEMMA NewTagsDef ==
    ASSUME NEW tags \in Seq(Tags)
    PROVE  /\ NewTags(tags)[0] = <<Required>>
           /\ \A i \in 1..Len(tags) :
                NewTags(tags)[i] = IF tags[i] \in Other
                                   THEN Append(NewTags(tags)[i - 1], tags[i])
                                   ELSE NewTags(tags)[i - 1]
<1>0. Len(tags) \in Nat
  OBVIOUS
<1>1. \E f : Loop(f, tags, Len(tags))
  BY <1>0, LoopExists, Zenon
<1>2. NewTags(tags) = CHOOSE f : Loop(f, tags, Len(tags))
  BY DEF NewTags, Loop
<1> DEFINE f == NewTags(tags)
<1>3. Loop(f, tags, Len(tags))
  BY <1>1, <1>2
<1> HIDE DEF f
<1>4. \A i \in 0..Len(tags) : f[i] = IF i = 0 THEN <<Required>>
                                     ELSE IF tags[i] \in Other THEN Append(f[i - 1], tags[i])
                                     ELSE f[i - 1]
  BY <1>3 DEF Loop
<1>5. 0 \in 0..Len(tags) /\ \A i \in 1..Len(tags) : i \in 0..Len(tags) /\ i # 0
  BY <1>0
<1>6. f[0] = <<Required>>
  BY <1>4, <1>5
<1>7. \A i \in 1..Len(tags) : f[i] = IF tags[i] \in Other THEN Append(f[i - 1], tags[i])
                                                          ELSE f[i - 1]
  BY <1>4, <1>5
<1> QED BY <1>6, <1>7 DEF f

\* kept begins with the required tag, and place takes the tags among the first n
\* of tags that do not conflict, in their order, to all that follow in kept.
Places(tags, n) == {i \in 1..n : tags[i] \in Other}
Keeps(place, tags, n, kept) ==
    /\ kept \in Seq(Tags) /\ Len(kept) \in Nat /\ Len(kept) > 0 /\ kept[1] = Required
    /\ place \in [Places(tags, n) -> 2..Len(kept)]
    /\ \A i, j \in Places(tags, n) : i < j => place[i] < place[j]
    /\ \A i \in Places(tags, n) : kept[place[i]] = tags[i]
    /\ \A k \in 2..Len(kept) : \E i \in Places(tags, n) : place[i] = k

\* One iteration keeps what was kept, and its own tag if it does not conflict.
LEMMA IterationKeeps ==
    ASSUME NEW tags \in Seq(Tags), NEW n \in 1..Len(tags), NEW kept, NEW place,
           Keeps(place, tags, n - 1, kept)
    PROVE  \E p : Keeps(p, tags, n, IF tags[n] \in Other THEN Append(kept, tags[n]) ELSE kept)
<1>0. n \in Nat /\ n > 0 /\ tags[n] \in Tags
  OBVIOUS
<1>1. CASE tags[n] \notin Other
  <2>1. Places(tags, n) = Places(tags, n - 1)
    BY <1>0, <1>1 DEF Places
  <2>2. Keeps(place, tags, n, kept)
    BY <2>1 DEF Keeps
  <2> QED BY <1>1, <2>2
<1>2. CASE tags[n] \in Other
  <2> DEFINE last == Len(kept) + 1
             new == Append(kept, tags[n])
             p == [i \in Places(tags, n) |-> IF i = n THEN last ELSE place[i]]
  <2>1. /\ Places(tags, n) = Places(tags, n - 1) \cup {n}
        /\ \A i \in Places(tags, n - 1) : i \in Nat /\ i < n
    BY <1>0, <1>2 DEF Places
  <2>2. /\ new \in Seq(Tags) /\ Len(new) = last /\ last \in Nat /\ last > 1
        /\ \A k \in 1..Len(kept) : new[k] = kept[k]
        /\ new[last] = tags[n]
    BY <1>0 DEF Keeps
  <2>3. /\ Len(kept) \in Nat /\ Len(kept) > 0 /\ kept[1] = Required
        /\ \A i \in Places(tags, n - 1) : place[i] \in 2..Len(kept) /\ kept[place[i]] = tags[i]
        /\ \A i, j \in Places(tags, n - 1) : i < j => place[i] < place[j]
        /\ \A k \in 2..Len(kept) : \E i \in Places(tags, n - 1) : place[i] = k
    BY DEF Keeps
  <2>4. /\ p[n] = last
        /\ \A i \in Places(tags, n - 1) : p[i] = place[i]
    BY <2>1
  <2>5. p = [i \in Places(tags, n) |-> p[i]]
    OBVIOUS
  <2> HIDE DEF p, new
  <2>6. p \in [Places(tags, n) -> 2..last]
    <3>1. \A i \in Places(tags, n) : p[i] \in 2..last
      BY <2>1, <2>2, <2>3, <2>4, SMTT(30)
    <3> QED BY <2>5, <3>1
  <2>7. \A i, j \in Places(tags, n) : i < j => p[i] < p[j]
    <3> SUFFICES ASSUME NEW i \in Places(tags, n), NEW j \in Places(tags, n), i < j
                 PROVE  p[i] < p[j]
      OBVIOUS
    <3>1. i \in Places(tags, n - 1)
      BY <1>0, <2>1
    <3>2. CASE j = n
      <4>1. p[i] = place[i] /\ place[i] \in 2..Len(kept) /\ p[j] = last
        BY <2>3, <2>4, <3>1, <3>2
      <4>2. \A k \in 2..Len(kept) : k < last
        BY <2>3
      <4> QED BY <4>1, <4>2
    <3>3. CASE j # n
      BY <2>1, <2>3, <2>4, <3>1, <3>3
    <3> QED BY <3>2, <3>3
  <2>8. \A i \in Places(tags, n) : new[p[i]] = tags[i]
    <3>1. \A i \in Places(tags, n - 1) : place[i] \in 1..Len(kept)
      BY <2>3
    <3> QED BY <2>1, <2>2, <2>3, <2>4, <3>1
  <2>9. \A k \in 2..last : \E i \in Places(tags, n) : p[i] = k
    <3> SUFFICES ASSUME NEW k \in 2..last PROVE \E i \in Places(tags, n) : p[i] = k
      OBVIOUS
    <3>1. CASE k = last
      BY <2>1, <2>4, <3>1
    <3>2. CASE k # last
      <4>1. k \in 2..Len(kept)
        BY <2>3, <3>2
      <4> QED BY <2>1, <2>3, <2>4, <4>1
    <3> QED BY <3>1, <3>2
  <2>10. new[1] = Required
    <3>1. 1 \in 1..Len(kept)
      BY <2>3
    <3> QED BY <2>2, <2>3, <3>1
  <2>11. Keeps(p, tags, n, new)
    BY <2>2, <2>6, <2>7, <2>8, <2>9, <2>10 DEF Keeps
  <2> QED BY <1>2, <2>11 DEF new
<1> QED BY <1>1, <1>2

\* So the whole loop does.
LEMMA LoopKeeps ==
    ASSUME NEW tags \in Seq(Tags)
    PROVE  \A n \in 0..Len(tags) : \E place : Keeps(place, tags, n, NewTags(tags)[n])
<1> DEFINE T == {n \in 0..Len(tags) : ~ \E place : Keeps(place, tags, n, NewTags(tags)[n])}
<1> SUFFICES ASSUME T # {} PROVE FALSE
  OBVIOUS
<1>0. Len(tags) \in Nat /\ T \subseteq Nat
  OBVIOUS
<1>1. PICK n \in T : \A m \in T : n <= m
  BY <1>0, LeastNatural, Zenon
<1>2. n \in 0..Len(tags) /\ ~ \E place : Keeps(place, tags, n, NewTags(tags)[n])
  BY <1>1
<1>3. CASE n = 0
  <2>1. NewTags(tags)[0] = <<Required>> /\ Places(tags, 0) = {}
    BY NewTagsDef DEF Places
  <2>2. Keeps([i \in {} |-> i], tags, 0, <<Required>>)
    BY <2>1 DEF Keeps, Tags
  <2> QED BY <1>2, <1>3, <2>1, <2>2
<1>4. CASE n # 0
  <2>1. n \in 1..Len(tags) /\ n - 1 \in 0..Len(tags) /\ ~(n <= n - 1)
    BY <1>0, <1>2, <1>4
  <2>2. n - 1 \notin T
    BY <1>1, <2>1
  <2>3. PICK place : Keeps(place, tags, n - 1, NewTags(tags)[n - 1])
    BY <2>1, <2>2
  <2> HIDE DEF T
  <2>4. \E p : Keeps(p, tags, n, IF tags[n] \in Other THEN Append(NewTags(tags)[n - 1], tags[n])
                                                   ELSE NewTags(tags)[n - 1])
    BY <2>1, <2>3, IterationKeeps
  <2> QED BY <1>2, <2>1, <2>4, NewTagsDef
<1> QED BY <1>3, <1>4

\* What the patch makes of the annotations.
LEMMA PatchKeeps ==
    ASSUME NEW a \in Annotations
    PROVE  \E place : Keeps(place, a.tags, Len(a.tags), buildPatch(a).value)
<1>1. a.tags \in Seq(Tags) /\ Len(a.tags) \in 0..Len(a.tags)
  BY DEF Annotations
<1>2. \E place : Keeps(place, a.tags, Len(a.tags), NewTags(a.tags)[Len(a.tags)])
  BY <1>1, LoopKeeps
<1> QED BY <1>2 DEF buildPatch

\* It can be applied to them.
LEMMA PatchIsApplicable == ASSUME NEW a \in Annotations PROVE Applicable(buildPatch(a), a)
  BY DEF Annotations, Applicable, buildPatch

\* What a user writes is of the right type.
LEMMA WrittenTyped ==
    ASSUME STypeOK, NEW a \in Written PROVE a \in Annotations
<1>1. CASE a = annotations
  BY <1>1 DEF STypeOK
<1>2. CASE a # annotations
  <2>1. /\ a \in [map : BOOLEAN, tags : UNION {[1..n -> Tags] : n \in 0..MaxTags}]
        /\ a.map \/ a.tags = <<>>
    BY <1>2 DEF Written
  <2>2. PICK n \in 0..MaxTags : a.tags \in [1..n -> Tags]
    BY <2>1
  <2>3. n \in Nat
    BY TagAssumption
  <2>4. a.tags \in Seq(Tags)
    BY <2>2, <2>3
  <2>5. a \in [map : BOOLEAN, tags : Seq(Tags)]
    BY <2>1, <2>4
  <2> QED BY <2>1, <2>5 DEF Annotations
<1> QED BY <1>1, <1>2

\* A step stores what was written, or, answered by the hook and in need of it, what
\* the patch makes of it.
LEMMA WriteStores ==
    ASSUME STypeOK, NEW lb \in BOOLEAN, NEW a \in Written, Write(lb, a) \/ WriteUnanswered(lb, a)
    PROVE  /\ a \in Annotations /\ asked' = a /\ loadBalancer' = lb /\ rejected' = FALSE
           /\ vetted' \in BOOLEAN
           /\ \/ annotations' = a /\ (vetted' => ~Mutates(lb, a))
              \/ annotations' = [map |-> TRUE, tags |-> buildPatch(a).value]
<1>1. a \in Annotations
  BY WrittenTyped
<1>2. Applicable(buildPatch(a), a)
  BY <1>1, PatchIsApplicable
<1>3. CASE Write(lb, a)
  BY <1>1, <1>2, <1>3 DEF Write
<1>4. CASE WriteUnanswered(lb, a)
  BY <1>1, <1>4 DEF WriteUnanswered
<1> QED BY <1>3, <1>4

\* Types are kept by every write.
LEMMA STypeStep == STypeOK /\ [SNext]_svars => STypeOK'
<1> SUFFICES ASSUME STypeOK, [SNext]_svars PROVE STypeOK'
  OBVIOUS
<1>1. ASSUME NEW lb \in BOOLEAN, NEW a \in Written, Write(lb, a) \/ WriteUnanswered(lb, a)
      PROVE  STypeOK'
  <2>1. PICK place : Keeps(place, a.tags, Len(a.tags), buildPatch(a).value)
    BY <1>1, WrittenTyped, PatchKeeps
  <2>2. [map |-> TRUE, tags |-> buildPatch(a).value] \in Annotations
    BY <2>1 DEF Keeps, Annotations
  <2> QED BY <1>1, <2>2, WriteStores DEF STypeOK
<1>2. CASE UNCHANGED svars
  BY <1>2 DEF svars, STypeOK
<1> QED BY <1>1, <1>2 DEF SNext

(***************************************************************************)
(* Annotations stay lists of tags, and none without the map (STypeOK).     *)
(***************************************************************************)
THEOREM ServiceTyped == SSpec => []STypeOK
<1>1. SInit => STypeOK
  <2>1. <<>> \in Seq(Tags)
    OBVIOUS
  <2>2. [map |-> FALSE, tags |-> <<>>] \in Annotations
    BY <2>1 DEF Annotations
  <2> QED BY <2>2 DEF SInit, STypeOK
<1> QED BY <1>1, STypeStep, PTL DEF SSpec

(***************************************************************************)
(* The API server can apply every patch (PatchApplies).                    *)
(***************************************************************************)
THEOREM PatchAppliesTheorem == SSpec => []PatchApplies
<1>1. SInit => PatchApplies
  BY DEF SInit, PatchApplies
<1>2. STypeOK /\ PatchApplies /\ [SNext]_svars => PatchApplies'
  BY WriteStores DEF SNext, svars, PatchApplies
<1> QED BY <1>1, <1>2, ServiceTyped, PTL DEF SSpec

(***************************************************************************)
(* A LoadBalancer Service that the hook was asked about has the tag, and   *)
(* where the hook put it only tags that do not conflict with it besides    *)
(* (TaggedOnceVetted).                                                     *)
(***************************************************************************)
THEOREM TaggedTheorem == SSpec => []TaggedOnceVetted
<1>1. SInit => TaggedOnceVetted
  BY DEF SInit, TaggedOnceVetted
<1>2. STypeOK /\ TaggedOnceVetted /\ [SNext]_svars => TaggedOnceVetted'
  <2> SUFFICES ASSUME STypeOK, TaggedOnceVetted, [SNext]_svars PROVE TaggedOnceVetted'
    OBVIOUS
  <2>1. ASSUME NEW lb \in BOOLEAN, NEW a \in Written, Write(lb, a) \/ WriteUnanswered(lb, a)
        PROVE  TaggedOnceVetted'
    <3> SUFFICES ASSUME vetted', lb
                 PROVE  \E i \in DOMAIN annotations'.tags :
                          /\ annotations'.tags[i] = Required
                          /\ annotations' # asked' =>
                               /\ ~Mutates(lb, annotations')
                               /\ \A j \in DOMAIN annotations'.tags \ {i} :
                                    annotations'.tags[j] \in Other
      BY <2>1, WriteStores DEF TaggedOnceVetted, Mutates, hasRedHatManagedTag
    <3>1. CASE annotations' = a /\ ~Mutates(lb, a)
      <4>1. asked' = a
        BY <2>1, WriteStores
      <4> QED BY <3>1, <4>1 DEF Mutates, hasRedHatManagedTag
    <3>2. CASE annotations' = [map |-> TRUE, tags |-> buildPatch(a).value]
      <4> DEFINE kept == buildPatch(a).value
      <4>1. PICK place : Keeps(place, a.tags, Len(a.tags), kept)
        BY <2>1, WrittenTyped, PatchKeeps
      <4>2. annotations'.tags = kept
        BY <3>2
      <4> HIDE DEF kept
      <4>3. DOMAIN kept = 1..Len(kept) /\ 1 \in DOMAIN kept /\ kept[1] = Required
        BY <4>1 DEF Keeps
      <4>4. \A j \in DOMAIN kept \ {1} : kept[j] \in Other
        <5> SUFFICES ASSUME NEW j \in DOMAIN kept \ {1} PROVE kept[j] \in Other
          OBVIOUS
        <5>1. j \in 2..Len(kept)
          BY <4>1, <4>3 DEF Keeps
        <5>2. PICK i \in Places(a.tags, Len(a.tags)) : place[i] = j
          BY <4>1, <5>1 DEF Keeps
        <5> QED BY <4>1, <5>2 DEF Keeps, Places
      <4>5. ~Mutates(lb, annotations')
        BY <4>2, <4>3 DEF Mutates, hasRedHatManagedTag
      <4> QED BY <4>2, <4>3, <4>4, <4>5
    <3> QED BY <2>1, <3>1, <3>2, WriteStores
  <2>2. CASE UNCHANGED svars
    BY <2>2 DEF svars, TaggedOnceVetted, Mutates, hasRedHatManagedTag
  <2> QED BY <2>1, <2>2 DEF SNext
<1> QED BY <1>1, <1>2, ServiceTyped, PTL DEF SSpec

(***************************************************************************)
(* Tags that do not conflict survive in their order (OtherTagsKept).       *)
(***************************************************************************)
THEOREM OtherTagsTheorem == SSpec => []OtherTagsKept
<1> DEFINE Same(old, new) ==
      \E place \in [Others(old) -> Others(new)] :
        /\ \A i, j \in Others(old) : i < j => place[i] < place[j]
        /\ \A i \in Others(old) : new[place[i]] = old[i]
        /\ \A k \in Others(new) : \E i \in Others(old) : place[i] = k
<1>0. OtherTagsKept <=> Same(asked.tags, annotations.tags)
  BY DEF OtherTagsKept
<1>1. ASSUME NEW tags PROVE Same(tags, tags)
  <2>1. [i \in Others(tags) |-> i] \in [Others(tags) -> Others(tags)]
    OBVIOUS
  <2> QED BY <2>1
<1>2. ASSUME NEW a \in Annotations PROVE Same(a.tags, buildPatch(a).value)
  <2> DEFINE kept == buildPatch(a).value
  <2>1. PICK place : Keeps(place, a.tags, Len(a.tags), kept)
    BY PatchKeeps
  <2> HIDE DEF kept
  <2>2. a.tags \in Seq(Tags)
    BY DEF Annotations
  <2>3. Others(a.tags) = Places(a.tags, Len(a.tags))
    BY <2>2 DEF Others, Places
  <2>4. \A k \in 2..Len(kept) : k \in DOMAIN kept /\ kept[k] \in Other
    BY <2>1 DEF Keeps, Places
  <2>5. Others(kept) = 2..Len(kept)
    <3>1. DOMAIN kept = 1..Len(kept) /\ kept[1] \notin Other
      BY <2>1, TagAssumption DEF Keeps
    <3> QED BY <2>4, <3>1 DEF Others
  <2>6. /\ place \in [Others(a.tags) -> Others(kept)]
        /\ \A i, j \in Others(a.tags) : i < j => place[i] < place[j]
        /\ \A i \in Others(a.tags) : kept[place[i]] = a.tags[i]
        /\ \A k \in Others(kept) : \E i \in Others(a.tags) : place[i] = k
    BY <2>1, <2>3, <2>5 DEF Keeps
  <2>7. Same(a.tags, kept)
    BY <2>6
  <2> QED BY <2>7 DEF kept
<1> HIDE DEF Same
<1>3. SInit => OtherTagsKept
  BY <1>0, <1>1 DEF SInit
<1>4. STypeOK /\ OtherTagsKept /\ [SNext]_svars => OtherTagsKept'
  <2>0. OtherTagsKept' <=> Same(asked'.tags, annotations'.tags)
    BY DEF OtherTagsKept, Same
  <2> SUFFICES ASSUME STypeOK, OtherTagsKept, [SNext]_svars PROVE OtherTagsKept'
    OBVIOUS
  <2>1. ASSUME NEW lb \in BOOLEAN, NEW a \in Written, Write(lb, a) \/ WriteUnanswered(lb, a)
        PROVE  Same(asked'.tags, annotations'.tags)
    <3>1. /\ a \in Annotations /\ asked' = a
          /\ annotations' = a \/ annotations' = [map |-> TRUE, tags |-> buildPatch(a).value]
      BY <2>1, WriteStores
    <3> QED BY <1>1, <1>2, <3>1
  <2>2. CASE UNCHANGED svars
    BY <1>0, <2>0, <2>2 DEF svars
  <2> QED BY <2>0, <2>1, <2>2 DEF SNext
<1> QED BY <1>3, <1>4, ServiceTyped, PTL DEF SSpec

-----------------------------------------------------------------------------
(* The network hooks. *)

(***************************************************************************)
(* hasCriticalMigrationFieldChanges, which compares spec.migration field   *)
(* by field and pointer by pointer, is inequality: no field is forgotten.  *)
(***************************************************************************)
THEOREM ComparesEverything ==
  ASSUME NEW old \in Migration, NEW new \in Migration
  PROVE  hasCriticalMigrationFieldChanges(old, new) <=> old # new
<1>1. CASE old = Nil \/ new = Nil
  BY <1>1 DEF hasCriticalMigrationFieldChanges
<1>2. CASE old # Nil /\ new # Nil
  <2>1. old \in NetworkMigrationSpec /\ new \in NetworkMigrationSpec
    BY <1>2 DEF Migration
  <2>2. old = new <=> /\ old.networkType = new.networkType
                      /\ old.mode = new.mode
                      /\ old.features = new.features
                      /\ old.mtu = new.mtu
    BY <2>1 DEF NetworkMigrationSpec
  <2>3. old.mtu = new.mtu <=>
          /\ (old.mtu = Nil) = (new.mtu = Nil)
          /\ old.mtu # Nil /\ new.mtu # Nil =>
               /\ old.mtu.network = new.mtu.network
               /\ old.mtu.machine = new.mtu.machine
    BY <2>1 DEF NetworkMigrationSpec, MTUMigration
  <2> QED
    BY <1>2, <2>2, <2>3 DEF hasCriticalMigrationFieldChanges, PointeeChanged
<1> QED BY <1>1, <1>2

\* The types of the variables are kept by every update.
LEMMA TypeStep == TypeOK /\ [Next]_vars => TypeOK'
<1> SUFFICES ASSUME TypeOK, [Next]_vars PROVE TypeOK'
  OBVIOUS
<1>1. ASSUME NEW user \in User, UpdateConfig(user) PROVE TypeOK'
  BY <1>1 DEF TypeOK, UpdateConfig
<1>2. ASSUME NEW user \in User, UpdateOperator(user) PROVE TypeOK'
  BY <1>2 DEF TypeOK, UpdateOperator
<1>3. CASE Migrated
  BY <1>3 DEF TypeOK, Migrated
<1>4. CASE UNCHANGED vars
  BY <1>4 DEF TypeOK, vars
<1> QED BY <1>1, <1>2, <1>3, <1>4 DEF Next

\* The cluster starts out on some network, with no migration.
LEMMA InitType == Init => TypeOK
<1>1. Nobody \in [user : User \cup {Nil}, overridden : BOOLEAN]
  BY Zenon DEF Nobody
<1>2. Nil \in Migration
  BY DEF Migration
<1> QED BY <1>1, <1>2, Zenon DEF Init, TypeOK

(***************************************************************************)
(* A network change is only ever under way because hive or a privileged    *)
(* service account asked for it, or on a cluster marked for testing.       *)
(***************************************************************************)
THEOREM NoMigrationTheorem == Spec => []NoMigrationByCustomers
<1> DEFINE Inv == TypeOK /\ NoMigrationByCustomers
<1>1. Init => Inv
  BY InitType DEF Init, NoMigrationByCustomers
<1>2. Inv /\ [Next]_vars => Inv'
  <2> SUFFICES ASSUME Inv, [Next]_vars PROVE NoMigrationByCustomers'
    BY TypeStep
  <2>1. ASSUME NEW user \in User, UpdateConfig(user)
        PROVE  NoMigrationByCustomers'
    BY <2>1, NetworkAssumption
    DEF NoMigrationByCustomers, UpdateConfig, ConfigAuthorized, PrivilegedConfigUser
  <2>2. ASSUME NEW user \in User, UpdateOperator(user)
        PROVE  NoMigrationByCustomers'
    BY <2>2 DEF NoMigrationByCustomers, UpdateOperator, PrivilegedConfigUser
  <2>3. CASE Migrated
    BY <2>3 DEF NoMigrationByCustomers, Migrated
  <2>4. CASE UNCHANGED vars
    BY <2>4 DEF NoMigrationByCustomers, vars, PrivilegedConfigUser
  <2> QED BY <2>1, <2>2, <2>3, <2>4 DEF Next
<1> QED BY <1>1, <1>2, PTL DEF Spec

(***************************************************************************)
(* spec.migration of the operator Network is only ever changed by          *)
(* backplane-cluster-admin, SRE, CNO and MUO.                              *)
(***************************************************************************)
THEOREM MigrationTheorem == Spec => []MigrationByAllowedOnly
<1> DEFINE Inv == TypeOK /\ MigrationByAllowedOnly
<1>1. Init => Inv
  BY InitType DEF Init, MigrationByAllowedOnly
<1>2. Inv /\ [Next]_vars => Inv'
  <2> SUFFICES ASSUME Inv, [Next]_vars PROVE MigrationByAllowedOnly'
    BY TypeStep
  <2>1. ASSUME NEW user \in User, UpdateOperator(user)
        PROVE  MigrationByAllowedOnly'
    <3>1. PICK m \in Migration :
            /\ OperatorAuthorized(user, m)
            /\ migrator' = IF m # migration THEN user ELSE migrator
      BY <2>1 DEF UpdateOperator
    <3>2. m # migration => isAllowedUserGroup(user)
      BY <3>1, ComparesEverything DEF OperatorAuthorized, TypeOK
    <3> QED BY <3>1, <3>2 DEF MigrationByAllowedOnly, isAllowedUserGroup
  <2>2. CASE UNCHANGED migrator
    BY <2>2 DEF MigrationByAllowedOnly, isAllowedUserGroup
  <2> QED BY <2>1, <2>2 DEF Next, UpdateConfig, Migrated, vars
<1> QED BY <1>1, <1>2, PTL DEF Spec
=============================================================================
