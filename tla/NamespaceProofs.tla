---------------------------- MODULE NamespaceProofs ----------------------------
(***************************************************************************)
(* What the namespace hook keeps for any names, users, labels and values.  *)
(***************************************************************************)
EXTENDS Namespace, FiniteSetTheorems, TLAPS

\* The protected part of a label map is a label map with that domain.
LEMMA ProtectedType ==
  ASSUME NEW labels \in LabelMap
  PROVE  /\ Protected(labels) \in LabelMap
         /\ DOMAIN Protected(labels) = doesNamespaceContainProtectedLabels(labels)
         /\ DOMAIN labels \subseteq Label
         /\ \A key \in DOMAIN labels : labels[key] \in Values
         /\ IsFiniteSet(doesNamespaceContainProtectedLabels(labels))
<1>1. PICK L \in SUBSET Label : labels \in [L -> Values]
  BY DEF LabelMap
<1>2. IsFiniteSet(L \cap protectedLabels)
  BY NamespaceAssumption, FS_Subset
<1>3. Protected(labels) \in [L \cap protectedLabels -> Values]
  BY <1>1 DEF Protected, doesNamespaceContainProtectedLabels
<1>4. L \cap protectedLabels \in SUBSET Label
  OBVIOUS
<1> QED BY <1>1, <1>2, <1>3, <1>4 DEF LabelMap, Protected, doesNamespaceContainProtectedLabels

\* The empty label map is a label map without protected labels.
LEMMA NoLabelsType ==
  NoLabels \in LabelMap /\ DOMAIN NoLabels = {} /\ Protected(NoLabels) = NoLabels
<1>1. NoLabels \in [{} -> Values]
  BY DEF NoLabels
<1> QED BY <1>1 DEF LabelMap, NoLabels, Protected, doesNamespaceContainProtectedLabels

(***************************************************************************)
(* The counting argument behind unauthorizedLabelChanges: if no label has  *)
(* the empty value, as many labels before as after, and the same value for *)
(* each label that was there, means the same labels.                       *)
(***************************************************************************)
LEMMA NoChange ==
  ASSUME Empty \notin Values,
         NEW old \in LabelMap, NEW new \in LabelMap,
         ~unauthorizedLabelChanges("UPDATE", old, new)
  PROVE  Protected(new) = Protected(old)
<1> DEFINE inOld == doesNamespaceContainProtectedLabels(old)
           inNew == doesNamespaceContainProtectedLabels(new)
<1>1. /\ Cardinality(inOld) = Cardinality(inNew)
      /\ \A key \in inOld : Lookup(old, key) = Lookup(new, key)
  BY DEF unauthorizedLabelChanges
<1>2. \A key \in inOld : key \in inNew /\ old[key] = new[key]
  BY <1>1, ProtectedType DEF Lookup, doesNamespaceContainProtectedLabels
<1>3. IsFiniteSet(inNew) /\ inOld \subseteq inNew
  BY <1>2, ProtectedType
<1> HIDE DEF inOld, inNew
<1>4. inOld = inNew
  BY <1>1, <1>3, FS_Subset
<1> QED BY <1>2, <1>4 DEF Protected, inOld, inNew

\* To keep the labels, what was granted must be about protected ones only.
IInv == TypeOK /\ LabelsKept /\ DOMAIN granted \subseteq protectedLabels

\* The types of the variables are kept by every request.
LEMMA TypeStep == TypeOK /\ [Next]_vars => TypeOK'
  BY ProtectedType, NoLabelsType
  DEF TypeOK, Next, vars, Create, Update, Delete

\* Only protected labels are granted.
LEMMA GrantedStep ==
  IInv /\ [Next]_vars => (DOMAIN granted \subseteq protectedLabels)'
<1>1. \A labels \in LabelMap : DOMAIN Protected(labels) \subseteq protectedLabels
  BY ProtectedType DEF doesNamespaceContainProtectedLabels
<1>2. DOMAIN NoLabels \subseteq protectedLabels
  BY NoLabelsType
<1> QED BY <1>1, <1>2 DEF IInv, Next, vars, Create, Update, Delete

\* A label map keeps what it has itself been taken for.
LEMMA KeptByGrant ==
  ASSUME NEW labels \in LabelMap
  PROVE  /\ Cardinality(doesNamespaceContainProtectedLabels(labels))
              = Cardinality(DOMAIN Protected(labels))
         /\ \A key \in DOMAIN Protected(labels) :
              Lookup(labels, key) = Protected(labels)[key]
  BY ProtectedType DEF Protected, Lookup, doesNamespaceContainProtectedLabels

\* A request keeps the protected labels, or someone trusted sets them.
LEMMA KeptStep == IInv /\ [Next]_vars => LabelsKept'
<1> SUFFICES ASSUME IInv, [Next]_vars PROVE LabelsKept'
  OBVIOUS
<1>1. ASSUME NEW user \in User, NEW labels \in LabelMap, Create(user, labels)
      PROVE  LabelsKept'
  <2>1. CASE Exempt(user, name)
    BY <1>1, <2>1, KeptByGrant DEF LabelsKept, Create
  <2>2. CASE ~Exempt(user, name)
    BY <1>1, <2>2, NoLabelsType
    DEF LabelsKept, Create, authorized, unauthorizedLabelChanges
  <2> QED BY <2>1, <2>2
<1>2. ASSUME NEW user \in User, NEW labels \in LabelMap, Update(user, labels)
      PROVE  LabelsKept'
  <2>1. CASE Exempt(user, name)
    BY <1>2, <2>1, KeptByGrant DEF LabelsKept, Update
  <2>2. CASE ~Exempt(user, name)
    <3>1. /\ ns # None /\ ns' = labels /\ granted' = granted
          /\ ~unauthorizedLabelChanges("UPDATE", ns, labels)
      BY <1>2, <2>2 DEF Update, authorized
    <3>2. ASSUME NEW key \in DOMAIN granted, granted[key] # Empty
          PROVE  Lookup(labels, key) = granted[key]
      <4>1. Lookup(ns, key) = granted[key] /\ key \in protectedLabels
        BY <3>1, <3>2 DEF IInv, LabelsKept
      <4>2. key \in doesNamespaceContainProtectedLabels(ns)
        BY <3>2, <4>1 DEF Lookup, doesNamespaceContainProtectedLabels
      <4> QED BY <3>1, <4>1, <4>2 DEF unauthorizedLabelChanges
    <3>3. Cardinality(doesNamespaceContainProtectedLabels(labels)) = Cardinality(DOMAIN granted)
      BY <3>1 DEF IInv, LabelsKept, unauthorizedLabelChanges
    <3> QED BY <3>1, <3>2, <3>3 DEF LabelsKept
  <2> QED BY <2>1, <2>2
<1>3. ASSUME NEW user \in User, Delete(user)
      PROVE  LabelsKept'
  BY <1>3 DEF LabelsKept, Delete
<1>4. CASE UNCHANGED vars
  BY <1>4 DEF IInv, LabelsKept, vars
<1> QED BY <1>1, <1>2, <1>3, <1>4 DEF Next

\* Without empty values a request keeps all of them.
LEMMA LabelStep ==
  ASSUME Empty \notin Values, TypeOK, LabelsAsGranted, [Next]_vars
  PROVE  LabelsAsGranted'
<1>1. ASSUME NEW user \in User, NEW labels \in LabelMap, Create(user, labels)
      PROVE  LabelsAsGranted'
  <2>1. CASE Exempt(user, name)
    BY <1>1, <2>1 DEF LabelsAsGranted, Create
  <2>2. CASE ~Exempt(user, name)
    <3>1. doesNamespaceContainProtectedLabels(labels) = {}
      BY <1>1, <2>2 DEF Create, authorized, unauthorizedLabelChanges
    <3>2. Protected(labels) = NoLabels
      BY <3>1 DEF Protected, NoLabels
    <3> QED BY <1>1, <2>2, <3>2 DEF LabelsAsGranted, Create
  <2> QED BY <2>1, <2>2
<1>2. ASSUME NEW user \in User, NEW labels \in LabelMap, Update(user, labels)
      PROVE  LabelsAsGranted'
  <2>1. CASE Exempt(user, name)
    BY <1>2, <2>1 DEF LabelsAsGranted, Update
  <2>2. CASE ~Exempt(user, name)
    <3>1. ns \in LabelMap /\ ~unauthorizedLabelChanges("UPDATE", ns, labels)
      BY <1>2, <2>2 DEF Update, authorized, TypeOK
    <3>2. Protected(labels) = Protected(ns)
      BY <3>1, NoChange
    <3> QED BY <1>2, <2>2, <3>2 DEF LabelsAsGranted, Update
  <2> QED BY <2>1, <2>2
<1>3. ASSUME NEW user \in User, Delete(user)
      PROVE  LabelsAsGranted'
  BY <1>3 DEF LabelsAsGranted, Delete
<1>4. CASE UNCHANGED vars
  BY <1>4 DEF LabelsAsGranted, vars
<1> QED BY <1>1, <1>2, <1>3, <1>4 DEF Next

\* There is no namespace at first.
LEMMA InitInv ==
  Init => IInv /\ LabelsAsGranted
  BY NoLabelsType DEF Init, IInv, TypeOK, LabelsKept, LabelsAsGranted

(***************************************************************************)
(* Where no label has the empty value, no sequence of requests gives a     *)
(* namespace protected labels that nobody trusted gave it, nor takes one   *)
(* away.                                                                   *)
(***************************************************************************)
THEOREM GrantedTheorem ==
  ASSUME Empty \notin Values
  PROVE  Spec => []LabelsAsGranted
<1>1. TypeOK /\ LabelsAsGranted /\ [Next]_vars => (TypeOK /\ LabelsAsGranted)'
  BY TypeStep, LabelStep
<1>2. Init => TypeOK /\ LabelsAsGranted
  BY InitInv DEF IInv
<1> QED BY <1>1, <1>2, PTL DEF Spec

(***************************************************************************)
(* With any values, their number is as granted, and so is each that has a  *)
(* value.                                                                  *)
(***************************************************************************)
THEOREM KeptTheorem == Spec => []LabelsKept
<1>1. IInv /\ [Next]_vars => IInv'
  BY TypeStep, KeptStep, GrantedStep DEF IInv
<1>2. Init => IInv
  BY InitInv
<1> QED BY <1>1, <1>2, PTL DEF Spec, IInv

(***************************************************************************)
(* Managed namespaces and names that disturb DNS are in trusted hands.     *)
(***************************************************************************)
THEOREM ManagedTheorem == Spec => []ManagedNamespacesByTrustedOnly
<1>1. Init => ManagedNamespacesByTrustedOnly
  BY DEF Init, ManagedNamespacesByTrustedOnly
<1>2. ManagedNamespacesByTrustedOnly /\ [Next]_vars => ManagedNamespacesByTrustedOnly'
  BY DEF ManagedNamespacesByTrustedOnly, Next, vars, Create, Update, Delete,
         authorized, Exempt, amIAdmin
<1> QED BY <1>1, <1>2, PTL DEF Spec
=============================================================================
