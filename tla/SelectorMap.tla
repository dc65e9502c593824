------------------------------ MODULE SelectorMap ------------------------------
(***************************************************************************)
(* What package syncset stands in for: a map from label selectors to lists *)
(* of objects ("The idea is to use it as a replacement for                 *)
(* map[metav1.LabelSelector]runtime.RawExtension").                        *)
(***************************************************************************)
EXTENDS Sequences

CONSTANTS Selector, Object

VARIABLE table   \* the objects of each selector, in the order they were added

MInit == table = [key \in Selector |-> <<>>]

MAdd(key, object) == table' = [table EXCEPT ![key] = Append(@, object)]

MSpec == MInit /\ [][\E key \in Selector, object \in Object : MAdd(key, object)]_table
=============================================================================
