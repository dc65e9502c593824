-------------------------------- MODULE SyncSet --------------------------------
(***************************************************************************)
(* SyncSetResourcesByLabelSelector of                                      *)
(* pkg/syncset/syncsetbylabelselector.go: a slice of entries searched with *)
(* DeepEqual, rendered into one SelectorSyncSet per entry.                 *)
(***************************************************************************)
EXTENDS Naturals, Sequences

CONSTANTS
    Selector,   \* label selectors
    Object      \* resources

VARIABLE entries   \* the slice: records [key, values]

Entry == [key : Selector, values : Seq(Object)]

\* The place of the first entry with that key; 0 for nil.
Get(es, key) ==
    IF \E i \in DOMAIN es : es[i].key = key
    THEN CHOOSE i \in DOMAIN es :
           es[i].key = key /\ \A j \in 1..(i - 1) : es[j].key # key
    ELSE 0

\* Faulty variant: a new slice takes the place of the existing one.
AddedInstead(es, key, object) ==
    LET i == Get(es, key)
    IN  IF i # 0 THEN [es EXCEPT ![i].values = <<object>>]
        ELSE Append(es, [key |-> key, values |-> <<object>>])

\* Faulty variant: new entries go to the front.
AddedInFront(es, key, object) ==
    LET i == Get(es, key)
    IN  IF i # 0 THEN [es EXCEPT ![i].values = Append(@, object)]
        ELSE <<[key |-> key, values |-> <<object>>]>> \o es

\* Add: the object joins the entry of its key, or starts one.
Added(es, key, object) ==
    LET i == Get(es, key)
    IN  IF i # 0 THEN [es EXCEPT ![i].values = Append(@, object)]
        ELSE Append(es, [key |-> key, values |-> <<object>>])

\* RenderSelectorSyncSets: entry i becomes managed-cluster-validating-webhooks-i.
RenderSelectorSyncSets(es) ==
    [i \in DOMAIN es |->
       [name |-> i - 1, resources |-> es[i].values, selector |-> es[i].key]]

SSInit == entries = <<>>

SSAdd(key, object) == entries' = Added(entries, key, object)

SSNext == \E key \in Selector, object \in Object : SSAdd(key, object)

SSSpec == SSInit /\ [][SSNext]_entries

-----------------------------------------------------------------------------
(* Properties. *)

\* The type invariant.
SSTypeOK == entries \in Seq(Entry)

(***************************************************************************)
(* "render the minimal set of SelectorSyncSets": no two entries have the   *)
(* same key.                                                               *)
(***************************************************************************)
KeysDistinct ==
    \A i, j \in DOMAIN entries : entries[i].key = entries[j].key => i = j

(***************************************************************************)
(* Adding a resource renames no rendered SelectorSyncSet and takes nothing *)
(* out of it: Hive finds every set it applied before under the same name   *)
(* and selector, with the same resources first.                            *)
(***************************************************************************)
NamesAreStable ==
    [][\A i \in DOMAIN entries :
         /\ i \in DOMAIN entries'
         /\ entries'[i].key = entries[i].key
         /\ \A k \in DOMAIN entries[i].values :
              entries'[i].values[k] = entries[i].values[k]]_entries

Table ==
    [key \in Selector |->
       IF Get(entries, key) # 0 THEN entries[Get(entries, key)].values ELSE <<>>]

Map == INSTANCE SelectorMap WITH table <- Table

(***************************************************************************)
(* The slice implements the map it replaces.                               *)
(***************************************************************************)
ImplementsMap == Map!MSpec
=============================================================================
