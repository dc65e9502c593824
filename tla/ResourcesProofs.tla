---------------------------- MODULE ResourcesProofs ----------------------------
(***************************************************************************)
(* The slice of entries is the map it replaces, for any selectors and      *)
(* resources; and the build that fills it writes every hook it should into *)
(* the template and into the package, for any hooks and options.           *)
(***************************************************************************)
EXTENDS Resources, TLAPS

-----------------------------------------------------------------------------
(* The slice. *)

\* With distinct keys, Get finds the only entry of a key, or none.
LEMMA GetFinds ==
  ASSUME NEW es \in Seq(Entry), NEW key \in Selector,
         \A i, j \in DOMAIN es : es[i].key = es[j].key => i = j
  PROVE  /\ Get(es, key) = 0 => \A i \in DOMAIN es : es[i].key # key
         /\ Get(es, key) # 0 => /\ Get(es, key) \in DOMAIN es
                                /\ es[Get(es, key)].key = key
         /\ \A i \in DOMAIN es : es[i].key = key => Get(es, key) = i
<1>0. DOMAIN es = 1..Len(es) /\ Len(es) \in Nat
  OBVIOUS
<1>1. CASE \E i \in DOMAIN es : es[i].key = key
  <2>1. PICK i \in DOMAIN es : es[i].key = key
    BY <1>1
  <2>2. \A j \in 1..(i - 1) : es[j].key # key
    BY <1>0, <2>1
  <2>3. /\ Get(es, key) \in DOMAIN es
        /\ es[Get(es, key)].key = key
    BY <1>1, <2>1, <2>2 DEF Get
  <2> QED BY <1>0, <2>3
<1>2. CASE ~ \E i \in DOMAIN es : es[i].key = key
  BY <1>2 DEF Get
<1> QED BY <1>1, <1>2

\* What Add does to the entries: all that the properties need to know.
LEMMA AddedEntries ==
  ASSUME SSTypeOK, KeysDistinct, NEW key \in Selector, NEW object \in Object,
         entries' = Added(entries, key, object)
  PROVE  /\ SSTypeOK'
         /\ KeysDistinct'
         /\ \A i \in DOMAIN entries :
              /\ i \in DOMAIN entries'
              /\ entries'[i].key = entries[i].key
              /\ entries'[i].values =
                   IF entries[i].key = key THEN Append(entries[i].values, object)
                                           ELSE entries[i].values
         /\ \A i \in DOMAIN entries' \ DOMAIN entries :
              entries'[i].key = key /\ entries'[i].values = <<object>>
         /\ \E i \in DOMAIN entries' : entries'[i].key = key
<1> DEFINE g == Get(entries, key)
<1>0. /\ DOMAIN entries = 1..Len(entries)
      /\ Len(entries) \in Nat
      /\ \A i \in DOMAIN entries : entries[i] \in Entry
  BY DEF SSTypeOK
<1>1. CASE g # 0
  <2>1. g \in DOMAIN entries /\ entries[g].key = key
    BY <1>1, GetFinds DEF SSTypeOK, KeysDistinct
  <2> HIDE DEF g
  <2>2. entries' = [entries EXCEPT ![g].values = Append(@, object)]
    BY <1>1 DEF Added, g
  <2>3. entries' = [entries EXCEPT ![g] =
           [key |-> entries[g].key, values |-> Append(entries[g].values, object)]]
    BY <1>0, <2>1, <2>2 DEF Entry
  <2>4. DOMAIN entries' = DOMAIN entries
    BY <2>3
  <2>5. entries[g].values \in Seq(Object) /\ Append(entries[g].values, object) \in Seq(Object)
    BY <1>0, <2>1 DEF Entry
  <2>6. [key |-> entries[g].key, values |-> Append(entries[g].values, object)] \in Entry
    BY <2>1, <2>5 DEF Entry
  <2>7. SSTypeOK'
    BY <1>0, <2>1, <2>3, <2>6 DEF SSTypeOK
  <2>8. \A i \in DOMAIN entries :
          /\ entries'[i].key = entries[i].key
          /\ entries'[i].values = IF i = g THEN Append(entries[i].values, object)
                                           ELSE entries[i].values
    BY <2>1, <2>3
  <2>9. \A i \in DOMAIN entries : entries[i].key = key <=> i = g
    BY <2>1 DEF KeysDistinct
  <2> QED BY <2>1, <2>4, <2>7, <2>8, <2>9 DEF KeysDistinct
<1>2. CASE g = 0
  <2>1. \A i \in DOMAIN entries : entries[i].key # key
    BY <1>2, GetFinds DEF SSTypeOK, KeysDistinct
  <2> DEFINE new == [key |-> key, values |-> <<object>>]
  <2>2. entries' = Append(entries, new)
    BY <1>2 DEF Added
  <2>3. new \in Entry
    BY DEF Entry
  <2>4. SSTypeOK'
    BY <2>2, <2>3 DEF SSTypeOK
  <2>5. /\ DOMAIN entries' = 1..(Len(entries) + 1)
        /\ \A i \in DOMAIN entries : entries'[i] = entries[i]
        /\ entries'[Len(entries) + 1] = new
    BY <1>0, <2>2 DEF SSTypeOK
  <2>6. new.key = key /\ new.values = <<object>>
    OBVIOUS
  <2>7. \A i \in DOMAIN entries' \ DOMAIN entries : i = Len(entries) + 1
    BY <1>0, <2>5
  <2> HIDE DEF new
  <2>8. KeysDistinct'
    BY <1>0, <2>1, <2>5, <2>6, <2>7 DEF KeysDistinct
  <2> QED BY <1>0, <2>1, <2>4, <2>5, <2>6, <2>7, <2>8
<1> QED BY <1>1, <1>2

\* Types and distinct keys are inductive.
LEMMA SSInvariance == SSSpec => [](SSTypeOK /\ KeysDistinct)
<1>1. SSInit => SSTypeOK /\ KeysDistinct
  BY DEF SSInit, SSTypeOK, KeysDistinct
<1>2. SSTypeOK /\ KeysDistinct /\ [SSNext]_entries => (SSTypeOK /\ KeysDistinct)'
  <2>1. ASSUME SSTypeOK, KeysDistinct, NEW key \in Selector, NEW object \in Object,
               SSAdd(key, object)
        PROVE  (SSTypeOK /\ KeysDistinct)'
    BY <2>1, AddedEntries DEF SSAdd
  <2>2. ASSUME SSTypeOK, KeysDistinct, UNCHANGED entries
        PROVE  (SSTypeOK /\ KeysDistinct)'
    BY <2>2 DEF SSTypeOK, KeysDistinct
  <2> QED BY <2>1, <2>2 DEF SSNext
<1> QED BY <1>1, <1>2, PTL DEF SSSpec

(***************************************************************************)
(* The rendered set of SelectorSyncSets is minimal.                        *)
(***************************************************************************)
THEOREM MinimalTheorem == SSSpec => []KeysDistinct
  BY SSInvariance, PTL

(***************************************************************************)
(* Add renames no SelectorSyncSet and removes no resource.                 *)
(***************************************************************************)
THEOREM StableTheorem == SSSpec => NamesAreStable
<1> DEFINE Stable ==
      \A i \in DOMAIN entries :
        /\ i \in DOMAIN entries'
        /\ entries'[i].key = entries[i].key
        /\ \A k \in DOMAIN entries[i].values :
             entries'[i].values[k] = entries[i].values[k]
<1>1. SSTypeOK /\ KeysDistinct /\ [SSNext]_entries => [Stable]_entries
  <2> SUFFICES ASSUME SSTypeOK, KeysDistinct, NEW key \in Selector, NEW object \in Object,
                      SSAdd(key, object)
               PROVE  Stable
    BY DEF SSNext
  <2> SUFFICES ASSUME NEW i \in DOMAIN entries
               PROVE  /\ i \in DOMAIN entries'
                      /\ entries'[i].key = entries[i].key
                      /\ \A k \in DOMAIN entries[i].values :
                           entries'[i].values[k] = entries[i].values[k]
    OBVIOUS
  <2>0. entries[i] \in Entry
    BY DEF SSTypeOK
  <2>1. entries[i].values \in Seq(Object)
    BY <2>0 DEF Entry
  <2>2. \A k \in DOMAIN entries[i].values :
          Append(entries[i].values, object)[k] = entries[i].values[k]
    BY <2>1
  <2>3. entries' = Added(entries, key, object)
    BY DEF SSAdd
  <2>4. \A j \in DOMAIN entries :
          /\ j \in DOMAIN entries'
          /\ entries'[j].key = entries[j].key
          /\ entries'[j].values =
               IF entries[j].key = key THEN Append(entries[j].values, object)
                                       ELSE entries[j].values
    BY <2>3, AddedEntries
  <2> QED BY <2>2, <2>4
<1> QED BY <1>1, SSInvariance, PTL DEF SSSpec, NamesAreStable

(***************************************************************************)
(* The slice implements the map from selectors to resources.               *)
(***************************************************************************)
THEOREM MapTheorem == SSSpec => ImplementsMap
<1>1. SSInit => Map!MInit
  BY DEF SSInit, Map!MInit, Table, Get
<1>2. SSTypeOK /\ KeysDistinct /\ (SSTypeOK /\ KeysDistinct)' /\ [SSNext]_entries =>
        [\E key \in Selector, object \in Object : Map!MAdd(key, object)]_Table
  <2>1. ASSUME SSTypeOK, KeysDistinct, (SSTypeOK /\ KeysDistinct)',
               NEW key \in Selector, NEW object \in Object, SSAdd(key, object)
        PROVE  Map!MAdd(key, object)
    <3>1. \A i \in DOMAIN entries :
            /\ i \in DOMAIN entries'
            /\ entries'[i].key = entries[i].key
            /\ entries'[i].values =
                 IF entries[i].key = key THEN Append(entries[i].values, object)
                                         ELSE entries[i].values
      BY <2>1, AddedEntries DEF SSAdd
    <3>2. /\ \A i \in DOMAIN entries' \ DOMAIN entries :
               entries'[i].key = key /\ entries'[i].values = <<object>>
          /\ \E i \in DOMAIN entries' : entries'[i].key = key
      BY <2>1, AddedEntries DEF SSAdd
    <3>3. \A k \in Selector :
            /\ Get(entries, k) = 0 => \A i \in DOMAIN entries : entries[i].key # k
            /\ Get(entries, k) # 0 => /\ Get(entries, k) \in DOMAIN entries
                                      /\ entries[Get(entries, k)].key = k
      BY <2>1, GetFinds DEF SSTypeOK, KeysDistinct
    <3>4. \A k \in Selector :
            /\ Get(entries', k) = 0 => \A i \in DOMAIN entries' : entries'[i].key # k
            /\ \A i \in DOMAIN entries' : entries'[i].key = k => Get(entries', k) = i
      BY <2>1, GetFinds DEF SSTypeOK, KeysDistinct
    <3>5. \A k \in Selector \ {key} :
            Get(entries', k) = Get(entries, k)
            /\ (Get(entries, k) # 0 =>
                  entries'[Get(entries, k)].values = entries[Get(entries, k)].values)
      <4> SUFFICES ASSUME NEW k \in Selector \ {key}
                   PROVE  Get(entries', k) = Get(entries, k)
                          /\ (Get(entries, k) # 0 =>
                                entries'[Get(entries, k)].values = entries[Get(entries, k)].values)
        OBVIOUS
      <4>1. CASE Get(entries, k) # 0
        BY <3>1, <3>3, <3>4, <4>1
      <4>2. CASE Get(entries, k) = 0
        <5>1. \A i \in DOMAIN entries' : entries'[i].key # k
          BY <3>1, <3>2, <3>3, <4>2
        <5> QED BY <4>2, <5>1 DEF Get
      <4> QED BY <4>1, <4>2
    <3>6. Get(entries', key) # 0
          /\ entries'[Get(entries', key)].values =
               Append(IF Get(entries, key) # 0 THEN entries[Get(entries, key)].values ELSE <<>>,
                      object)
      <4>1. PICK i \in DOMAIN entries' : entries'[i].key = key
        BY <3>2
      <4>2. Get(entries', key) = i /\ Get(entries', key) # 0
        BY <2>1, <3>4, <4>1
      <4>3. CASE Get(entries, key) # 0
        BY <3>1, <3>3, <3>4, <4>2, <4>3, ZenonT(30)
      <4>4. CASE Get(entries, key) = 0
        <5>1. i \notin DOMAIN entries
          BY <3>1, <3>3, <4>1, <4>4
        <5> QED BY <3>2, <4>1, <4>2, <4>4, <5>1
      <4> QED BY <4>3, <4>4
    <3>7. Table' = [k \in Selector |->
             IF Get(entries', k) # 0 THEN entries'[Get(entries', k)].values ELSE <<>>]
      BY DEF Table
    <3> QED BY <3>5, <3>6, <3>7 DEF Map!MAdd, Table
  <2>2. UNCHANGED entries => UNCHANGED Table
    BY DEF Table, Get
  <2> QED BY <2>1, <2>2 DEF SSNext
<1> QED BY <1>1, <1>2, SSInvariance, PTL DEF SSSpec, ImplementsMap, Map!MSpec

-----------------------------------------------------------------------------
(* The build. *)

\* The hooks before the loop's place have different URIs.
DistinctBefore(n) ==
    \A i, j \in 1..(n - 1) : hooks[i].uri = hooks[j].uri => i = j

(***************************************************************************)
(* Where main() is: seen are the URIs before the loop's place, they are    *)
(* distinct, and nothing is in the slice before the base is.               *)
(***************************************************************************)
LoopInv ==
    /\ hooks \in Hooks
    /\ next \in 1..(Len(hooks) + 1)
    /\ seen = {hooks[i].uri : i \in 1..(next - 1)}
    /\ DistinctBefore(next)
    /\ step = "base" => next = 1 /\ entries = <<>>

\* The hooks of a registry are a sequence of hooks.
LEMMA HookTyped ==
    ASSUME NEW hs \in Hooks
    PROVE  /\ DOMAIN hs = 1..Len(hs) /\ Len(hs) \in Nat
           /\ \A i \in DOMAIN hs :
                /\ hs[i].selector \in Selector
                /\ Configuration(hs[i]) \in Object /\ Configuration(hs[i]) # Base
<1>1. hs \in Seq(Hook) /\ \A i \in DOMAIN hs : Configuration(hs[i]) \in Object \ {Base}
  BY ResourcesAssumption, Zenon
<1>2. \A i \in DOMAIN hs : hs[i] \in Hook
  BY <1>1
<1> QED BY <1>1, <1>2 DEF Hook

\* The start of an iteration: it stops the build, or the hook is a new one.
LEMMA SeeURIStep ==
    ASSUME LoopInv, next \in DOMAIN hooks, step # "panicked", step # "base",
           SeeURI(hooks[next]), UNCHANGED hooks
    PROVE  /\ LoopInv'
           /\ \/ step' = "panicked"
              \/ /\ step' = step /\ next' = next + 1
                 /\ \A i \in 1..(next - 1) : hooks[i].uri # hooks[next].uri
<1>0. DOMAIN hooks = 1..Len(hooks) /\ Len(hooks) \in Nat /\ next \in Nat
  BY HookTyped DEF LoopInv
<1>1. CASE hooks[next].uri \in seen
  BY <1>1 DEF SeeURI, LoopInv, DistinctBefore
<1>2. CASE hooks[next].uri \notin seen
  <2>1. /\ step' = step /\ next' = next + 1 /\ seen' = seen \cup {hooks[next].uri}
        /\ hooks' = hooks
    BY <1>2 DEF SeeURI
  <2>2. \A i \in 1..(next - 1) : hooks[i].uri # hooks[next].uri
    BY <1>2 DEF LoopInv
  <2>3. 1..(next' - 1) = 1..(next - 1) \cup {next}
    BY <1>0, <2>1
  <2>4. seen' = {hooks[i].uri : i \in 1..(next' - 1)}
    BY <2>1, <2>3 DEF LoopInv
  <2>5. \A i, j \in 1..(next' - 1) : hooks[i].uri = hooks[j].uri => i = j
    BY <2>2, <2>3 DEF LoopInv, DistinctBefore
  <2>6. next' \in 1..(Len(hooks') + 1)
    BY <1>0, <2>1
  <2> QED BY <2>1, <2>2, <2>4, <2>5, <2>6 DEF LoopInv, DistinctBefore
<1> QED BY <1>1, <1>2

\* Every step of main() keeps its place.
LEMMA LoopStep == LoopInv /\ [RNext]_rvars => LoopInv'
<1> SUFFICES ASSUME LoopInv, [RNext]_rvars PROVE LoopInv'
  OBVIOUS
<1>0. DOMAIN hooks = 1..Len(hooks) /\ Len(hooks) \in Nat
  BY HookTyped DEF LoopInv
<1>1. CASE TemplateBase
  BY <1>1 DEF TemplateBase, LoopInv, DistinctBefore
<1>2. CASE TemplateHook
  BY <1>2, SeeURIStep DEF TemplateHook
<1>3. CASE TemplateDone
  BY <1>0, <1>3 DEF TemplateDone, ToPackage, LoopInv, DistinctBefore
<1>4. CASE PackageHook
  BY <1>4, SeeURIStep DEF PackageHook
<1>5. CASE PackageDone
  BY <1>5 DEF PackageDone, LoopInv, DistinctBefore
<1>6. CASE UNCHANGED rvars
  BY <1>6 DEF rvars, LoopInv, DistinctBefore
<1> QED BY <1>1, <1>2, <1>3, <1>4, <1>5, <1>6 DEF RNext

\* So it is always kept.
LEMMA LoopInvariance == RSpec => []LoopInv
<1>1. RInit => LoopInv
  <2> SUFFICES ASSUME RInit PROVE LoopInv
    OBVIOUS
  <2>1. hooks \in Hooks /\ Len(hooks) \in Nat
    BY HookTyped DEF RInit
  <2> QED BY <2>1 DEF RInit, SSInit, LoopInv, DistinctBefore
<1> QED BY <1>1, LoopStep, PTL DEF RSpec

(***************************************************************************)
(* A file is written only if no two hooks have the same URI                *)
(* (WritesUniqueURIs): a loop that ends has seen them all.                 *)
(***************************************************************************)
THEOREM WritesUniqueTheorem == RSpec => []WritesUniqueURIs
<1>1. RInit => WritesUniqueURIs
  BY DEF RInit, WritesUniqueURIs
<1>2. LoopInv /\ WritesUniqueURIs /\ [RNext]_rvars => WritesUniqueURIs'
  <2> SUFFICES ASSUME LoopInv, WritesUniqueURIs, [RNext]_rvars PROVE WritesUniqueURIs'
    OBVIOUS
  <2>0. DOMAIN hooks = 1..Len(hooks) /\ Len(hooks) \in Nat
    BY HookTyped DEF LoopInv
  <2>1. next \notin DOMAIN hooks =>
          \A i, j \in DOMAIN hooks : hooks[i].uri = hooks[j].uri => i = j
    BY <2>0 DEF LoopInv, DistinctBefore
  <2>2. CASE TemplateDone
    BY <2>1, <2>2 DEF TemplateDone, WritesUniqueURIs
  <2>3. CASE PackageDone
    BY <2>1, <2>3 DEF PackageDone, WritesUniqueURIs
  <2>4. CASE UNCHANGED <<hooks, template, manifest>>
    BY <2>4 DEF WritesUniqueURIs
  <2> QED BY <2>2, <2>3, <2>4 DEF RNext, rvars, TemplateBase, TemplateHook, PackageHook
<1> QED BY <1>1, <1>2, LoopInvariance, PTL DEF RSpec

-----------------------------------------------------------------------------
(* The build fills the slice with Add only. *)

(***************************************************************************)
(* The build implements the slice's specification: what it does to the     *)
(* slice is to add the base and the hooks' configurations.                 *)
(***************************************************************************)
THEOREM BuildAdds == RSpec => SSSpec
<1>1. RInit => SSInit
  BY DEF RInit
<1>2. LoopInv /\ [RNext]_rvars => [SSNext]_entries
  <2> SUFFICES ASSUME LoopInv, [RNext]_rvars, entries' # entries PROVE SSNext
    OBVIOUS
  <2>1. CASE TemplateBase
    BY <2>1, ResourcesAssumption DEF TemplateBase, SSNext, SSAdd
  <2>2. CASE TemplateHook
    <3>1. /\ hooks[next].selector \in Selector
          /\ Configuration(hooks[next]) \in Object
      BY <2>2, HookTyped DEF TemplateHook, LoopInv
    <3>2. entries' = Added(entries, hooks[next].selector, Configuration(hooks[next]))
      BY <2>2 DEF TemplateHook
    <3> QED BY <3>1, <3>2 DEF SSNext, SSAdd
  <2> QED BY <2>1, <2>2 DEF RNext, rvars, TemplateDone, PackageHook, PackageDone
<1> QED BY <1>1, <1>2, LoopInvariance, PTL DEF RSpec, SSSpec

(***************************************************************************)
(* So the build has what Add promises: while it runs no SelectorSyncSet    *)
(* changes its name or loses a resource (NamesAreStable), and the slice is *)
(* the map from selectors to resources (ImplementsMap).                    *)
(***************************************************************************)
THEOREM BuildTheorem == RSpec => NamesAreStable /\ ImplementsMap
  BY BuildAdds, StableTheorem, MapTheorem

-----------------------------------------------------------------------------
(* What the files hold. *)

\* The places of a resource.
Places(values, c) == {k \in DOMAIN values : values[k] = c}

\* Appending a resource that was not there puts it in one place, and leaves the
\* places of all others.
LEMMA AppendPlaces ==
    ASSUME NEW values \in Seq(Object), NEW object \in Object
    PROVE  /\ Append(values, object) \in Seq(Object)
           /\ \A c : c # object => Places(Append(values, object), c) = Places(values, c)
           /\ (\A k \in DOMAIN values : values[k] # object) =>
                \E k \in DOMAIN Append(values, object) :
                   Places(Append(values, object), object) = {k}
           /\ \A k \in DOMAIN Append(values, object) :
                \/ Append(values, object)[k] = object
                \/ k \in DOMAIN values /\ Append(values, object)[k] = values[k]
           /\ \A k \in DOMAIN values :
                k \in DOMAIN Append(values, object) /\ Append(values, object)[k] = values[k]
<1> DEFINE v == Append(values, object)
<1>1. /\ v \in Seq(Object) /\ Len(values) \in Nat
      /\ DOMAIN values = 1..Len(values)
      /\ DOMAIN v = 1..(Len(values) + 1)
      /\ v[Len(values) + 1] = object
      /\ \A k \in 1..Len(values) : v[k] = values[k]
  OBVIOUS
<1> HIDE DEF v
<1>2. \A k \in DOMAIN v : k = Len(values) + 1 \/ k \in DOMAIN values
  BY <1>1
<1>3. \A k \in DOMAIN values : k \in DOMAIN v
  BY <1>1
<1>4. \A c : c # object => Places(v, c) = Places(values, c)
  BY <1>1, <1>2, <1>3 DEF Places
<1>5. ASSUME \A k \in DOMAIN values : values[k] # object
      PROVE  Places(v, object) = {Len(values) + 1} /\ Len(values) + 1 \in DOMAIN v
  BY <1>1, <1>2, <1>5 DEF Places
<1>6. (\A k \in DOMAIN values : values[k] # object) =>
        \E k \in DOMAIN v : Places(v, object) = {k}
  BY <1>5
<1> QED BY <1>1, <1>2, <1>3, <1>4, <1>6 DEF v

\* A list holds a hook once, or not at all.
HeldOnce(values, h) == \E k \in DOMAIN values : Places(values, Configuration(h)) = {k}
NotHeld(values, h) == Places(values, Configuration(h)) = {}

\* The list has nothing but the base and hooks from before place n.
OnlyBefore(values, n) ==
    \A k \in DOMAIN values :
      values[k] = Base \/ \E j \in 1..(n - 1) : values[k] = Configuration(hooks[j])

\* Configurations of hooks with different URIs differ.
LEMMA NewConfiguration ==
    ASSUME LoopInv, next \in DOMAIN hooks, NEW values,
           \A i \in 1..(next - 1) : hooks[i].uri # hooks[next].uri,
           OnlyBefore(values, next)
    PROVE  /\ \A k \in DOMAIN values : values[k] # Configuration(hooks[next])
           /\ \A i \in 1..(next - 1) : Configuration(hooks[i]) # Configuration(hooks[next])
<1>1. \A i \in 1..(next - 1) : Configuration(hooks[i]) # Configuration(hooks[next])
  <2> SUFFICES ASSUME NEW i \in 1..(next - 1)
               PROVE  Configuration(hooks[i]) # Configuration(hooks[next])
    OBVIOUS
  <2>1. /\ Configuration(hooks[i]).path = hooks[i].uri
        /\ Configuration(hooks[next]).path = hooks[next].uri
    BY DEF Configuration
  <2> QED BY <2>1
<1>2. Configuration(hooks[next]) # Base
  BY HookTyped DEF LoopInv
<1> QED BY <1>1, <1>2 DEF OnlyBefore

\* One more hook: what a list holds with and without it.
LEMMA OneMoreHook ==
    ASSUME LoopInv, next \in DOMAIN hooks,
           \A i \in 1..(next - 1) : hooks[i].uri # hooks[next].uri,
           NEW values \in Seq(Object), OnlyBefore(values, next)
    PROVE  /\ Append(values, Configuration(hooks[next])) \in Seq(Object)
           /\ OnlyBefore(Append(values, Configuration(hooks[next])), next + 1)
           /\ OnlyBefore(values, next + 1)
           /\ HeldOnce(Append(values, Configuration(hooks[next])), hooks[next])
           /\ NotHeld(values, hooks[next])
           /\ \A i \in 1..(next - 1) :
                /\ HeldOnce(values, hooks[i]) =>
                     HeldOnce(Append(values, Configuration(hooks[next])), hooks[i])
                /\ NotHeld(values, hooks[i]) =>
                     NotHeld(Append(values, Configuration(hooks[next])), hooks[i])
<1> DEFINE c == Configuration(hooks[next])
           v == Append(values, c)
<1>0. next \in Nat /\ next >= 1 /\ c \in Object
  BY HookTyped DEF LoopInv
<1>1. /\ \A k \in DOMAIN values : values[k] # c
      /\ \A i \in 1..(next - 1) : Configuration(hooks[i]) # c
  BY NewConfiguration
<1>2. /\ v \in Seq(Object)
      /\ \A d : d # c => Places(v, d) = Places(values, d)
      /\ (\A k \in DOMAIN values : values[k] # c) => \E k \in DOMAIN v : Places(v, c) = {k}
      /\ \A k \in DOMAIN v : v[k] = c \/ (k \in DOMAIN values /\ v[k] = values[k])
      /\ \A k \in DOMAIN values : k \in DOMAIN v /\ v[k] = values[k]
  BY <1>0, AppendPlaces
<1> DEFINE after == next + 1
<1>3. next \in 1..(after - 1) /\ \A j \in 1..(next - 1) : j \in 1..(after - 1)
  BY <1>0
<1> HIDE DEF after
<1>4. OnlyBefore(values, after)
  BY <1>3 DEF OnlyBefore
<1>5. OnlyBefore(v, after)
  <2>1. \A k \in DOMAIN v : v[k] = c \/ v[k] = Base
           \/ \E j \in 1..(next - 1) : v[k] = Configuration(hooks[j])
    BY <1>2 DEF OnlyBefore
  <2> HIDE DEF v
  <2> QED BY <1>3, <2>1 DEF OnlyBefore
<1>6. HeldOnce(v, hooks[next]) /\ NotHeld(values, hooks[next])
  <2>1. \E k \in DOMAIN v : Places(v, c) = {k}
    BY <1>1, <1>2
  <2>2. Places(values, c) = {}
    BY <1>1 DEF Places
  <2> QED BY <2>1, <2>2 DEF HeldOnce, NotHeld
<1>7. ASSUME NEW i \in 1..(next - 1)
      PROVE  /\ HeldOnce(values, hooks[i]) => HeldOnce(v, hooks[i])
             /\ NotHeld(values, hooks[i]) => NotHeld(v, hooks[i])
  <2>1. Places(v, Configuration(hooks[i])) = Places(values, Configuration(hooks[i]))
    BY <1>1, <1>2
  <2>2. \A k \in DOMAIN values : k \in DOMAIN v
    BY <1>2
  <2> HIDE DEF v, c
  <2> QED BY <2>1, <2>2 DEF HeldOnce, NotHeld
<1> QED BY <1>2, <1>4, <1>5, <1>6, <1>7 DEF after

(***************************************************************************)
(* The package so far: it holds the included hooks before the loop's place *)
(* once each, and nothing else but the base.                               *)
(***************************************************************************)
PackInv ==
    step = "package" =>
      /\ pack \in Seq(Object)
      /\ OnlyBefore(pack, next)
      /\ \A i \in 1..(next - 1) :
           IF Included(hooks[i], hooks[i].hypershift)
           THEN HeldOnce(pack, hooks[i]) ELSE NotHeld(pack, hooks[i])

\* The package begins with the base, without a template
LEMMA PackInit == RInit => PackInv
<1> SUFFICES ASSUME RInit, step = "package" PROVE PackInv
  BY DEF PackInv
<1>1. pack = <<Base>> /\ next = 1
  BY DEF RInit
<1>2. pack \in Seq(Object) /\ \A k \in DOMAIN pack : pack[k] = Base
  BY <1>1, ResourcesAssumption
<1> QED BY <1>1, <1>2 DEF PackInv, OnlyBefore

\* and after it.
LEMMA PackBegins ==
    ASSUME pack' = <<Base>>, next' = 1 PROVE PackInv'
<1>1. pack' \in Seq(Object) /\ \A k \in DOMAIN pack' : pack'[k] = Base
  BY ResourcesAssumption
<1> QED BY <1>1 DEF PackInv, OnlyBefore

\* Every step of main() keeps that.
LEMMA PackStep == LoopInv /\ PackInv /\ [RNext]_rvars => PackInv'
<1> SUFFICES ASSUME LoopInv, PackInv, [RNext]_rvars PROVE PackInv'
  OBVIOUS
<1>1. CASE TemplateBase \/ TemplateHook
  BY <1>1 DEF TemplateBase, TemplateHook, SeeURI, PackInv
<1>2. CASE TemplateDone
  BY <1>2, PackBegins DEF TemplateDone, ToPackage, PackInv
<1>3. CASE PackageHook
  <2> SUFFICES ASSUME step' = "package" PROVE PackInv'
    BY DEF PackInv
  <2>1. /\ step = "package" /\ next \in DOMAIN hooks /\ hooks' = hooks /\ options' = options
        /\ next' = next + 1
        /\ \A i \in 1..(next - 1) : hooks[i].uri # hooks[next].uri
        /\ pack' = IF Included(hooks[next], hooks[next].hypershift)
                   THEN Append(pack, Configuration(hooks[next])) ELSE pack
    BY <1>3, SeeURIStep DEF PackageHook
  <2>2. /\ pack \in Seq(Object) /\ OnlyBefore(pack, next)
        /\ \A i \in 1..(next - 1) :
             IF Included(hooks[i], hooks[i].hypershift)
             THEN HeldOnce(pack, hooks[i]) ELSE NotHeld(pack, hooks[i])
    BY <2>1 DEF PackInv
  <2>3. /\ Append(pack, Configuration(hooks[next])) \in Seq(Object)
        /\ OnlyBefore(Append(pack, Configuration(hooks[next])), next + 1)
        /\ OnlyBefore(pack, next + 1)
        /\ HeldOnce(Append(pack, Configuration(hooks[next])), hooks[next])
        /\ NotHeld(pack, hooks[next])
        /\ \A i \in 1..(next - 1) :
             /\ HeldOnce(pack, hooks[i]) =>
                  HeldOnce(Append(pack, Configuration(hooks[next])), hooks[i])
             /\ NotHeld(pack, hooks[i]) =>
                  NotHeld(Append(pack, Configuration(hooks[next])), hooks[i])
    BY <2>1, <2>2, OneMoreHook
  <2>4. next \in Nat /\ next >= 1
    BY HookTyped DEF LoopInv
  <2>5. 1..(next' - 1) = 1..(next - 1) \cup {next}
    BY <2>1, <2>4
  <2>6. pack' \in Seq(Object) /\ OnlyBefore(pack', next')
    BY <2>1, <2>2, <2>3
  <2>7. \A i \in 1..(next' - 1) :
          IF Included(hooks[i], hooks[i].hypershift)
          THEN HeldOnce(pack', hooks[i]) ELSE NotHeld(pack', hooks[i])
    <3> SUFFICES ASSUME NEW i \in 1..(next' - 1)
                 PROVE  IF Included(hooks[i], hooks[i].hypershift)
                        THEN HeldOnce(pack', hooks[i]) ELSE NotHeld(pack', hooks[i])
      OBVIOUS
    <3>1. CASE i = next
      BY <2>1, <2>3, <3>1
    <3>2. CASE i \in 1..(next - 1)
      BY <2>1, <2>2, <2>3, <3>2
    <3> QED BY <2>5, <3>1, <3>2
  <2>8. \A h, e : Included(h, e)' <=> Included(h, e)
    BY <2>1 DEF Included, onlyInclude
  <2> QED BY <2>1, <2>6, <2>7, <2>8, ZenonT(30) DEF PackInv, OnlyBefore, HeldOnce, NotHeld, Included, onlyInclude
<1>4. CASE PackageDone
  BY <1>4 DEF PackageDone, PackInv
<1>5. CASE UNCHANGED rvars
  BY <1>5 DEF rvars, PackInv, OnlyBefore, HeldOnce, NotHeld, Included, onlyInclude
<1> QED BY <1>1, <1>2, <1>3, <1>4, <1>5 DEF RNext

(***************************************************************************)
(* The package holds each hook that it should once, and no other           *)
(* (PackageHoldsItsHooks).                                                 *)
(***************************************************************************)
THEOREM PackageTheorem == RSpec => []PackageHoldsItsHooks
<1>1. RInit => PackInv /\ PackageHoldsItsHooks
  BY PackInit DEF RInit, PackageHoldsItsHooks
<1>2. LoopInv /\ PackInv /\ PackageHoldsItsHooks /\ [RNext]_rvars => PackageHoldsItsHooks'
  <2> SUFFICES ASSUME LoopInv, PackInv, PackageHoldsItsHooks, [RNext]_rvars
               PROVE  PackageHoldsItsHooks'
    OBVIOUS
  <2>1. CASE UNCHANGED <<hooks, options, manifest>>
    BY <2>1 DEF PackageHoldsItsHooks, Unfiltered, Wanted
  <2>2. CASE PackageDone /\ manifest' # manifest
    <3> SUFFICES ASSUME manifest' # None, options.only = {}
                 PROVE  \A i \in DOMAIN hooks :
                          IF Wanted(hooks[i], hooks[i].hypershift)
                          THEN HeldOnce(pack, hooks[i]) ELSE NotHeld(pack, hooks[i])
      BY <2>2 DEF PackageDone, PackageHoldsItsHooks, Unfiltered, Wanted, HeldOnce, NotHeld, Places
    <3>1. options.package /\ step = "package" /\ next \notin DOMAIN hooks
      BY <2>2 DEF PackageDone
    <3>2. DOMAIN hooks = 1..(next - 1)
      BY <3>1, HookTyped DEF LoopInv
    <3>3. \A h, e : Included(h, e) <=> Wanted(h, e)
      BY DEF Included, Wanted, onlyInclude
    <3> QED BY <3>1, <3>2, <3>3 DEF PackInv
  <2> QED BY <2>1, <2>2 DEF RNext, rvars, TemplateBase, TemplateHook, TemplateDone,
                            PackageHook, PackageDone
<1> QED BY <1>1, <1>2, PackStep, LoopInvariance, PTL DEF RSpec

\* What all clusters need comes first.
BaseFirst(es) ==
    /\ 1 \in DOMAIN es /\ es[1].key = DefaultLabelSelector
    /\ 1 \in DOMAIN es[1].values /\ es[1].values[1] = Base

\* A hook is in the entry of its selector, once, and in no other.
HeldBySelector(e, h) ==
    IF Included(h, h.classic) /\ e.key = h.selector
    THEN HeldOnce(e.values, h) ELSE NotHeld(e.values, h)

(***************************************************************************)
(* The slice so far: the base comes first; the included hooks before the   *)
(* loop's place are in the entry of their selector, once, and nowhere      *)
(* else; and there is nothing else in it.                                  *)
(***************************************************************************)
EntriesInv ==
    step = "syncset" =>
      /\ BaseFirst(entries)
      /\ \A s \in DOMAIN entries : OnlyBefore(entries[s].values, next)
      /\ \A i \in 1..(next - 1), s \in DOMAIN entries : HeldBySelector(entries[s], hooks[i])
      /\ \A i \in 1..(next - 1) :
           Included(hooks[i], hooks[i].classic) =>
             \E s \in DOMAIN entries : entries[s].key = hooks[i].selector

\* The values of an entry are a list of resources.
LEMMA ValuesTyped ==
    ASSUME SSTypeOK, NEW s \in DOMAIN entries PROVE entries[s].values \in Seq(Object)
<1>1. entries[s] \in Entry
  BY DEF SSTypeOK
<1> QED BY <1>1 DEF Entry

\* The invariant of the next state, in terms of the hooks and options of this one.
LEMMA EntriesNext ==
    ASSUME UNCHANGED <<hooks, options>>,
           BaseFirst(entries'),
           \A s \in DOMAIN entries' : OnlyBefore(entries'[s].values, next'),
           \A i \in 1..(next' - 1), s \in DOMAIN entries' : HeldBySelector(entries'[s], hooks[i]),
           \A i \in 1..(next' - 1) :
             Included(hooks[i], hooks[i].classic) =>
               \E s \in DOMAIN entries' : entries'[s].key = hooks[i].selector
    PROVE  EntriesInv'
<1>1. \A h, e : Included(h, e)' <=> Included(h, e)
  BY DEF Included, onlyInclude
<1>2. \A s \in DOMAIN entries' : OnlyBefore(entries[s].values, next)'
  BY DEF OnlyBefore
<1>3. \A i \in 1..(next' - 1), s \in DOMAIN entries' : HeldBySelector(entries[s], hooks[i])'
  BY <1>1 DEF HeldBySelector, HeldOnce, NotHeld, Included, onlyInclude
<1>4. \A i \in 1..(next' - 1) :
        Included(hooks[i], hooks[i].classic)' =>
          \E s \in DOMAIN entries' : entries'[s].key = hooks'[i].selector
  BY <1>1 DEF Included, onlyInclude
<1>5. BaseFirst(entries)'
  BY DEF BaseFirst
<1> QED BY <1>2, <1>3, <1>4, <1>5 DEF EntriesInv

\* The slice begins with the base.
LEMMA EntriesBegin == LoopInv /\ TemplateBase => EntriesInv'
<1> SUFFICES ASSUME LoopInv, TemplateBase PROVE EntriesInv'
  OBVIOUS
<1>1. entries = <<>> /\ next' = 1 /\ entries' = Added(entries, DefaultLabelSelector, Base)
  BY DEF TemplateBase, LoopInv
<1>2. entries' = <<[key |-> DefaultLabelSelector, values |-> <<Base>>]>>
  BY <1>1 DEF Added, Get
<1>3. /\ DOMAIN entries' = {1} /\ entries'[1].key = DefaultLabelSelector
      /\ entries'[1].values = <<Base>>
  BY <1>2
<1>4. 1 \in DOMAIN <<Base>> /\ \A k \in DOMAIN <<Base>> : <<Base>>[k] = Base
  OBVIOUS
<1> QED BY <1>1, <1>3, <1>4 DEF EntriesInv, BaseFirst, OnlyBefore

\* An iteration that adds nothing keeps that: the hook was nowhere before.
LEMMA EntriesSkip ==
    ASSUME LoopInv, SSTypeOK, EntriesInv, step = "syncset", next \in DOMAIN hooks,
           \A i \in 1..(next - 1) : hooks[i].uri # hooks[next].uri,
           ~Included(hooks[next], hooks[next].classic),
           UNCHANGED <<hooks, options, entries>>, next' = next + 1
    PROVE  EntriesInv'
<1>1. next \in Nat /\ next >= 1 /\ 1..(next' - 1) = 1..(next - 1) \cup {next}
  BY HookTyped DEF LoopInv
<1>2. \A s \in DOMAIN entries : entries[s].values \in Seq(Object)
  BY ValuesTyped
<1>3. \A s \in DOMAIN entries : OnlyBefore(entries[s].values, next)
  BY DEF EntriesInv
<1>4. \A s \in DOMAIN entries :
        OnlyBefore(entries[s].values, next') /\ NotHeld(entries[s].values, hooks[next])
  BY <1>2, <1>3, OneMoreHook
<1>5. \A i \in 1..(next' - 1), s \in DOMAIN entries :
        HeldBySelector(entries[s], hooks[i])
  BY <1>1, <1>4 DEF EntriesInv, HeldBySelector
<1>6. \A i \in 1..(next' - 1) :
        Included(hooks[i], hooks[i].classic) =>
          \E s \in DOMAIN entries : entries[s].key = hooks[i].selector
  BY <1>1 DEF EntriesInv
<1>7. BaseFirst(entries)
  BY DEF EntriesInv
<1> QED BY <1>4, <1>5, <1>6, <1>7, EntriesNext

\* An iteration that adds the hook adds it to the entry of its selector only; if
\* the entry is new, no hook before it has that selector.
LEMMA EntriesAdd ==
    ASSUME LoopInv, SSTypeOK, KeysDistinct, EntriesInv, step = "syncset", next \in DOMAIN hooks,
           \A i \in 1..(next - 1) : hooks[i].uri # hooks[next].uri,
           Included(hooks[next], hooks[next].classic),
           entries' = Added(entries, hooks[next].selector, Configuration(hooks[next])),
           UNCHANGED <<hooks, options>>, next' = next + 1
    PROVE  EntriesInv'
<1> DEFINE key == hooks[next].selector
           c == Configuration(hooks[next])
<1>0. key \in Selector /\ c \in Object
  BY HookTyped DEF LoopInv
<1>1. next \in Nat /\ next >= 1 /\ 1..(next' - 1) = 1..(next - 1) \cup {next}
  BY HookTyped DEF LoopInv
<1>2. /\ KeysDistinct'
      /\ \A s \in DOMAIN entries :
           /\ s \in DOMAIN entries' /\ entries'[s].key = entries[s].key
           /\ entries'[s].values = IF entries[s].key = key THEN Append(entries[s].values, c)
                                                           ELSE entries[s].values
      /\ \A s \in DOMAIN entries' \ DOMAIN entries :
           entries'[s].key = key /\ entries'[s].values = <<c>>
      /\ \E s \in DOMAIN entries' : entries'[s].key = key
  BY <1>0, AddedEntries, SMTT(30)
<1> HIDE DEF key, c
<1>3. ASSUME NEW s \in DOMAIN entries
      PROVE  /\ OnlyBefore(entries'[s].values, next')
             /\ \A i \in 1..(next' - 1) :
                  HeldBySelector(entries'[s], hooks[i])
  <2>1. entries[s].values \in Seq(Object) /\ OnlyBefore(entries[s].values, next)
    BY ValuesTyped DEF EntriesInv
  <2>2. /\ OnlyBefore(Append(entries[s].values, c), next') /\ OnlyBefore(entries[s].values, next')
        /\ HeldOnce(Append(entries[s].values, c), hooks[next])
        /\ NotHeld(entries[s].values, hooks[next])
        /\ \A i \in 1..(next - 1) :
             /\ HeldOnce(entries[s].values, hooks[i]) =>
                  HeldOnce(Append(entries[s].values, c), hooks[i])
             /\ NotHeld(entries[s].values, hooks[i]) =>
                  NotHeld(Append(entries[s].values, c), hooks[i])
    BY <2>1, OneMoreHook DEF c
  <2>3. \A i \in 1..(next - 1) :
          HeldBySelector(entries[s], hooks[i])
    BY DEF EntriesInv
  <2>4. \A i \in 1..(next - 1) :
          HeldBySelector(entries'[s], hooks[i])
    BY <1>2, <2>2, <2>3 DEF HeldBySelector
  <2>5. HeldBySelector(entries'[s], hooks[next])
    BY <1>2, <2>2 DEF HeldBySelector, key
  <2> QED BY <1>1, <1>2, <2>2, <2>4, <2>5 DEF key
<1>4. ASSUME NEW s \in DOMAIN entries' \ DOMAIN entries
      PROVE  /\ OnlyBefore(entries'[s].values, next')
             /\ \A i \in 1..(next' - 1) :
                  HeldBySelector(entries'[s], hooks[i])
  <2>1. <<>> \in Seq(Object) /\ OnlyBefore(<<>>, next) /\ Append(<<>>, c) = <<c>>
    BY DEF OnlyBefore
  <2>2. \A i \in 1..(next - 1) : NotHeld(<<>>, hooks[i])
    BY DEF NotHeld, Places
  <2>3. /\ OnlyBefore(<<c>>, next') /\ HeldOnce(<<c>>, hooks[next])
        /\ \A i \in 1..(next - 1) : NotHeld(<<>>, hooks[i]) => NotHeld(<<c>>, hooks[i])
    BY <2>1, OneMoreHook DEF c
  <2>4. \A i \in 1..(next - 1) :
          ~(Included(hooks[i], hooks[i].classic) /\ entries'[s].key = hooks[i].selector)
    <3> SUFFICES ASSUME NEW i \in 1..(next - 1), Included(hooks[i], hooks[i].classic),
                        entries'[s].key = hooks[i].selector
                 PROVE  FALSE
      OBVIOUS
    <3>1. PICK t \in DOMAIN entries : entries[t].key = hooks[i].selector
      BY DEF EntriesInv
    <3> QED BY <1>2, <3>1 DEF KeysDistinct
  <2>5. entries'[s].values = <<c>> /\ entries'[s].key = key
    BY <1>2
  <2> HIDE DEF c
  <2> QED BY <1>1, <2>2, <2>3, <2>4, <2>5 DEF key, HeldBySelector
<1>5. \A i \in 1..(next' - 1) :
        Included(hooks[i], hooks[i].classic) =>
          \E s \in DOMAIN entries' : entries'[s].key = hooks[i].selector
  BY <1>1, <1>2 DEF EntriesInv, key
<1>6. BaseFirst(entries')
  <2>1. BaseFirst(entries)
    BY DEF EntriesInv
  <2>2. entries[1].values \in Seq(Object)
    BY <2>1, ValuesTyped DEF BaseFirst
  <2>3. 1 \in DOMAIN Append(entries[1].values, c) /\ Append(entries[1].values, c)[1] = Base
    BY <1>0, <2>1, <2>2, AppendPlaces DEF c, BaseFirst
  <2> QED BY <1>2, <2>1, <2>3 DEF BaseFirst
<1>7. \A s \in DOMAIN entries' : OnlyBefore(entries'[s].values, next')
  BY <1>3, <1>4
<1>8. \A i \in 1..(next' - 1), s \in DOMAIN entries' : HeldBySelector(entries'[s], hooks[i])
  BY <1>3, <1>4
<1> QED BY <1>5, <1>6, <1>7, <1>8, EntriesNext

\* Every step of main() keeps that.
LEMMA EntriesStep ==
    LoopInv /\ SSTypeOK /\ KeysDistinct /\ EntriesInv /\ [RNext]_rvars => EntriesInv'
<1> SUFFICES ASSUME LoopInv, SSTypeOK, KeysDistinct, EntriesInv, [RNext]_rvars PROVE EntriesInv'
  OBVIOUS
<1>1. CASE TemplateBase
  BY <1>1, EntriesBegin
<1>2. CASE TemplateHook
  <2> SUFFICES ASSUME step' = "syncset" PROVE EntriesInv'
    BY DEF EntriesInv
  <2>1. /\ step = "syncset" /\ next \in DOMAIN hooks /\ UNCHANGED <<hooks, options>>
        /\ next' = next + 1
        /\ \A i \in 1..(next - 1) : hooks[i].uri # hooks[next].uri
        /\ entries' = IF Included(hooks[next], hooks[next].classic)
                      THEN Added(entries, hooks[next].selector, Configuration(hooks[next]))
                      ELSE entries
    BY <1>2, SeeURIStep DEF TemplateHook
  <2>2. CASE Included(hooks[next], hooks[next].classic)
    BY <2>1, <2>2, EntriesAdd
  <2>3. CASE ~Included(hooks[next], hooks[next].classic)
    BY <2>1, <2>3, EntriesSkip
  <2> QED BY <2>2, <2>3
<1>3. CASE TemplateDone \/ PackageHook \/ PackageDone
  BY <1>3 DEF TemplateDone, ToPackage, PackageHook, PackageDone, SeeURI, EntriesInv
<1>4. CASE UNCHANGED rvars
  BY <1>4, ZenonT(40) DEF rvars, EntriesInv, BaseFirst, HeldBySelector, OnlyBefore, HeldOnce, NotHeld,
              Included, onlyInclude
<1> QED BY <1>1, <1>2, <1>3, <1>4 DEF RNext

\* What RenderSelectorSyncSets makes of the slice when the loop is over.
LEMMA RenderedHolds ==
    ASSUME LoopInv, EntriesInv, step = "syncset", next \notin DOMAIN hooks, Unfiltered,
           template' = RenderSelectorSyncSets(entries), UNCHANGED <<hooks, options>>
    PROVE  TemplateHoldsItsHooks'
<1>1. /\ DOMAIN template' = DOMAIN entries
      /\ \A s \in DOMAIN entries : /\ template'[s].selector = entries[s].key
                                   /\ template'[s].resources = entries[s].values
  BY DEF RenderSelectorSyncSets
<1>2. DOMAIN hooks = 1..(next - 1)
  BY HookTyped DEF LoopInv
<1>3. \A h, e : Included(h, e) <=> Wanted(h, e)
  BY DEF Included, Wanted, Unfiltered, onlyInclude
<1>4. /\ template'[1].selector = DefaultLabelSelector
      /\ template'[1].resources[1] = Base
  BY <1>1 DEF EntriesInv, BaseFirst
<1>5. ASSUME NEW i \in DOMAIN hooks, NEW s \in DOMAIN template'
      PROVE  IF Wanted(hooks[i], hooks[i].classic) /\ template'[s].selector = hooks[i].selector
             THEN \E k \in DOMAIN template'[s].resources :
                    Places(template'[s].resources, Configuration(hooks[i])) = {k}
             ELSE Places(template'[s].resources, Configuration(hooks[i])) = {}
  <2>1. HeldBySelector(entries[s], hooks[i])
    BY <1>1, <1>2 DEF EntriesInv
  <2> QED BY <1>1, <1>3, <2>1 DEF HeldBySelector, HeldOnce, NotHeld
<1>6. \A i \in DOMAIN hooks : Wanted(hooks[i], hooks[i].classic) =>
        \E s \in DOMAIN template' : template'[s].selector = hooks[i].selector
  BY <1>1, <1>2, <1>3 DEF EntriesInv
<1>7. \A i \in DOMAIN hooks : \A s \in DOMAIN template' :
        Copies(s, hooks[i])' = Places(template'[s].resources, Configuration(hooks[i]))
  BY DEF Copies, Places
<1>8. \A h, e : Wanted(h, e)' <=> Wanted(h, e)
  BY DEF Wanted
<1>9. \A i \in DOMAIN hooks' : \A s \in DOMAIN template' :
        IF Wanted(hooks[i], hooks[i].classic)' /\ template'[s].selector = hooks'[i].selector
        THEN \E k \in DOMAIN template'[s].resources : Copies(s, hooks[i])' = {k}
        ELSE Copies(s, hooks[i])' = {}
  <2> SUFFICES ASSUME NEW i \in DOMAIN hooks, NEW s \in DOMAIN template'
               PROVE  IF Wanted(hooks[i], hooks[i].classic)' /\ template'[s].selector = hooks'[i].selector
                      THEN \E k \in DOMAIN template'[s].resources : Copies(s, hooks[i])' = {k}
                      ELSE Copies(s, hooks[i])' = {}
    OBVIOUS
  <2>1. Copies(s, hooks[i])' = Places(template'[s].resources, Configuration(hooks[i]))
    BY <1>7
  <2>2. Wanted(hooks[i], hooks[i].classic)' <=> Wanted(hooks[i], hooks[i].classic)
    BY DEF Wanted
  <2>3. hooks'[i].selector = hooks[i].selector
    OBVIOUS
  <2> QED BY <1>5, <2>1, <2>2, <2>3, Zenon
<1>10. \A i \in DOMAIN hooks' : Wanted(hooks[i], hooks[i].classic)' =>
        \E s \in DOMAIN template' : template'[s].selector = hooks'[i].selector
  BY <1>6, <1>8 DEF Wanted
<1> QED BY <1>4, <1>9, <1>10 DEF TemplateHoldsItsHooks

(***************************************************************************)
(* The template holds each hook that it should, once, in the one set for   *)
(* its clusters, no other hook, and the base first                         *)
(* (TemplateHoldsItsHooks).                                                *)
(***************************************************************************)
THEOREM TemplateTheorem == RSpec => []TemplateHoldsItsHooks
<1>1. RInit => EntriesInv /\ TemplateHoldsItsHooks
  BY DEF RInit, EntriesInv, TemplateHoldsItsHooks
<1>2. LoopInv /\ EntriesInv /\ TemplateHoldsItsHooks /\ [RNext]_rvars => TemplateHoldsItsHooks'
  <2> SUFFICES ASSUME LoopInv, EntriesInv, TemplateHoldsItsHooks, [RNext]_rvars
               PROVE  TemplateHoldsItsHooks'
    OBVIOUS
  <2>1. CASE UNCHANGED <<hooks, options, template>>
    BY <2>1, SMT DEF TemplateHoldsItsHooks, Unfiltered, Wanted, Copies
  <2>2. CASE TemplateDone /\ template' # template
    <3>1. /\ step = "syncset" /\ next \notin DOMAIN hooks /\ UNCHANGED <<hooks, options>>
          /\ template' = RenderSelectorSyncSets(entries)
      BY <2>2 DEF TemplateDone
    <3>2. CASE Unfiltered
      BY <3>1, <3>2, RenderedHolds, Zenon
    <3>3. CASE ~Unfiltered
      BY <3>1, <3>3 DEF Unfiltered, TemplateHoldsItsHooks
    <3> QED BY <3>2, <3>3
  <2> QED BY <2>1, <2>2 DEF RNext, rvars, TemplateBase, TemplateHook, TemplateDone,
                            PackageHook, PackageDone
<1>3. RSpec => [](SSTypeOK /\ KeysDistinct)
  BY BuildAdds, SSInvariance, PTL
<1> QED BY <1>1, <1>2, <1>3, EntriesStep, LoopInvariance, PTL DEF RSpec

-----------------------------------------------------------------------------
(* What -only does. *)

(***************************************************************************)
(* A build with -only: neither file holds any hook.                        *)
(***************************************************************************)
OnlyHoldsNoHook ==
    ~Unfiltered =>
      \A i \in DOMAIN hooks :
        /\ template # None =>
             \A s \in DOMAIN template : NotHeld(template[s].resources, hooks[i])
        /\ manifest # None => NotHeld(manifest, hooks[i])

\* Split into its characters, the option names no hook.
LEMMA OnlyIncludesNone ==
    ASSUME LoopInv, ~Unfiltered, NEW i \in DOMAIN hooks, NEW enabled
    PROVE  ~Included(hooks[i], enabled)
<1>1. hooks[i].name \notin Character /\ Character # {}
  BY ResourcesAssumption DEF LoopInv
<1>2. onlyInclude = Character
  BY DEF onlyInclude, Unfiltered
<1> QED BY <1>1, <1>2 DEF Included

(***************************************************************************)
(* -only takes the option apart into characters, and no hook is called     *)
(* like one: whatever hooks it names, the template and the package hold    *)
(* none.                                                                   *)
(***************************************************************************)
THEOREM OnlyTheorem == RSpec => []OnlyHoldsNoHook
<1>1. RInit => EntriesInv /\ PackInv /\ OnlyHoldsNoHook
  <2> SUFFICES ASSUME RInit PROVE EntriesInv /\ PackInv /\ OnlyHoldsNoHook
    OBVIOUS
  <2>1. EntriesInv /\ OnlyHoldsNoHook
    BY DEF RInit, EntriesInv, OnlyHoldsNoHook
  <2> QED BY <2>1, PackInit
<1>2. LoopInv /\ EntriesInv /\ PackInv /\ OnlyHoldsNoHook /\ [RNext]_rvars => OnlyHoldsNoHook'
  <2> SUFFICES ASSUME LoopInv, EntriesInv, PackInv, OnlyHoldsNoHook, [RNext]_rvars,
                      options'.only # {}, NEW i \in DOMAIN hooks'
               PROVE  /\ template' # None =>
                           \A s \in DOMAIN template' : NotHeld(template'[s].resources, hooks'[i])
                      /\ manifest' # None => NotHeld(manifest', hooks'[i])
    BY DEF OnlyHoldsNoHook, Unfiltered, NotHeld
  <2>0. UNCHANGED <<hooks, options>>
    BY DEF RNext, rvars, TemplateBase, TemplateHook, TemplateDone, PackageHook, PackageDone
  <2>1. /\ template # None =>
             \A s \in DOMAIN template : NotHeld(template[s].resources, hooks[i])
        /\ manifest # None => NotHeld(manifest, hooks[i])
        /\ ~Unfiltered
    BY <2>0 DEF OnlyHoldsNoHook, Unfiltered
  <2>2. \A enabled : ~Included(hooks[i], enabled)
    BY <2>0, <2>1, OnlyIncludesNone
  <2>3. next \notin DOMAIN hooks => i \in 1..(next - 1)
    BY <2>0, HookTyped DEF LoopInv
  <2>4. CASE TemplateDone
    <3>1. \A s \in DOMAIN entries : NotHeld(entries[s].values, hooks[i])
      BY <2>2, <2>3, <2>4 DEF TemplateDone, EntriesInv, HeldBySelector
    <3>2. /\ DOMAIN RenderSelectorSyncSets(entries) = DOMAIN entries
          /\ \A s \in DOMAIN entries :
               RenderSelectorSyncSets(entries)[s].resources = entries[s].values
      BY DEF RenderSelectorSyncSets
    <3>3. manifest' = manifest /\ template' \in {template, RenderSelectorSyncSets(entries)}
      BY <2>4 DEF TemplateDone
    <3> QED BY <2>0, <2>1, <3>1, <3>2, <3>3
  <2>5. CASE PackageDone
    <3>1. options.package => NotHeld(pack, hooks[i])
      BY <2>2, <2>3, <2>5 DEF PackageDone, PackInv
    <3>2. template' = template /\ (\/ manifest' = IF options.package THEN pack ELSE None
                                   \/ manifest' = manifest)
      BY <2>5 DEF PackageDone
    <3> QED BY <2>0, <2>1, <3>1, <3>2
  <2>6. CASE UNCHANGED <<template, manifest>>
    BY <2>0, <2>1, <2>6
  <2> QED BY <2>4, <2>5, <2>6 DEF RNext, rvars, TemplateBase, TemplateHook, PackageHook
<1>3. RSpec => [](SSTypeOK /\ KeysDistinct)
  BY BuildAdds, SSInvariance, PTL
<1> QED BY <1>1, <1>2, <1>3, EntriesStep, PackStep, LoopInvariance, PTL DEF RSpec

-----------------------------------------------------------------------------
(* The build ends. *)

\* How many steps main() can still take.
Remaining ==
    CASE step = "base" -> 2 * Len(hooks) + 5
      [] step = "syncset" -> (Len(hooks) + 2 - next) + (Len(hooks) + 2)
      [] step = "package" -> Len(hooks) + 2 - next
      [] OTHER -> 0

(***************************************************************************)
(* Every step of main() brings its end closer, so it takes no more than    *)
(* twice as many as there are hooks, and five.                             *)
(***************************************************************************)
CountsDown ==
    /\ Remaining \in 1..(2 * Len(hooks) + 5)
    /\ Remaining' \in 0..(Remaining - 1)

\* The build ends, for any number of hooks (CountsDown).
THEOREM BuildEnds == RSpec => [][CountsDown]_rvars
<1>1. LoopInv /\ LoopInv' /\ [RNext]_rvars => [CountsDown]_rvars
  <2> SUFFICES ASSUME LoopInv, LoopInv', RNext
               PROVE  Remaining \in 1..(2 * Len(hooks) + 5) /\ Remaining' \in 0..(Remaining - 1)
    BY DEF CountsDown
  <2>1. /\ Len(hooks) \in Nat /\ next \in 1..(Len(hooks) + 1) /\ next' \in 1..(Len(hooks) + 1)
        /\ hooks' = hooks
    BY HookTyped DEF LoopInv, RNext, TemplateBase, TemplateHook, TemplateDone, PackageHook, PackageDone
  <2> DEFINE n == Len(hooks)
  <2>2. n' = n
    BY <2>1
  <2>3. CASE TemplateBase
    <3>1. step = "base" /\ step' = "syncset" /\ next = 1 /\ next' = 1
      BY <2>3 DEF TemplateBase, LoopInv
    <3>2. Remaining = 2 * n + 5 /\ Remaining' = (n + 2 - 1) + (n + 2)
      BY <2>2, <3>1 DEF Remaining
    <3> QED BY <2>1, <3>2
  <2>4. CASE TemplateHook
    <3>1. step = "syncset" /\ (step' = "panicked" \/ (step' = "syncset" /\ next' = next + 1))
      BY <2>4 DEF TemplateHook, SeeURI
    <3>2. /\ Remaining = (n + 2 - next) + (n + 2)
          /\ \/ Remaining' = 0
             \/ Remaining' = (n + 2 - (next + 1)) + (n + 2) /\ next + 1 <= n + 1
      BY <2>1, <2>2, <3>1 DEF Remaining
    <3> QED BY <2>1, <3>2
  <2>5. CASE TemplateDone
    <3>1. step = "syncset" /\ (step' \in {"exit0", "panicked"} \/ (step' = "package" /\ next' = 1))
      BY <2>5 DEF TemplateDone, ToPackage
    <3>2. /\ Remaining = (n + 2 - next) + (n + 2)
          /\ Remaining' = 0 \/ Remaining' = n + 2 - 1
      BY <2>2, <3>1 DEF Remaining
    <3> QED BY <2>1, <3>2
  <2>6. CASE PackageHook
    <3>1. step = "package" /\ (step' = "panicked" \/ (step' = "package" /\ next' = next + 1))
      BY <2>6 DEF PackageHook, SeeURI
    <3>2. /\ Remaining = n + 2 - next
          /\ Remaining' = 0 \/ (Remaining' = n + 2 - (next + 1) /\ next + 1 <= n + 1)
      BY <2>1, <2>2, <3>1 DEF Remaining
    <3> QED BY <2>1, <3>2
  <2>7. CASE PackageDone
    <3>1. step = "package" /\ step' \in {"exit0", "panicked"}
      BY <2>7 DEF PackageDone
    <3>2. Remaining = n + 2 - next /\ Remaining' = 0
      BY <3>1 DEF Remaining
    <3> QED BY <2>1, <3>2
  <2> QED BY <2>3, <2>4, <2>5, <2>6, <2>7 DEF RNext
<1> QED BY <1>1, LoopInvariance, PTL DEF RSpec
=============================================================================
