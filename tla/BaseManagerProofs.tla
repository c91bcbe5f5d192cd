------------------------- MODULE BaseManagerProofs -------------------------
(***************************************************************************)
(* What the manager guarantees for every set of accounts, modules and      *)
(* extensions, every length of extension list and any number of pending    *)
(* approvals.                                                              *)
(***************************************************************************)
EXTENDS BaseManager, TLAPS

\* A list names only extensions.
LEMMA ListedAreExtensions == \A list : Listed(list) \subseteq Extensions
BY DEF Listed

\* An extension that is in none of the protected modules' authorizations can
\* be told by walking the protected modules only.
LEMMA UnauthorizedEverywhere ==
    ASSUME AuthorizationsClean, TypeOK, NEW e, ~isAuthorizedAnywhere(e), NEW m \in Modules
    PROVE  e \notin authorizedExtensions[m]
BY DEF AuthorizationsClean, isAuthorizedAnywhere, TypeOK

\* The approvals on record and in the history are of calls by accounts.
LEMMA RolesOfType == \A S : rolesOf(S) \subseteq {"operator", "methodologist"}
BY DEF rolesOf

\* The arguments of a recorded call have their types, function by function.
LEMMA CallArguments ==
    ASSUME NEW c \in Calls
    PROVE  /\ c.fn = "setManager" => c.to = NewManager
           /\ c.fn \in {"authorizeExtension", "revokeExtensionAuthorization"} =>
                c.module \in Modules /\ c.extension \in Extensions
           /\ c.fn = "replaceProtectedModule" =>
                /\ c.old \in Modules /\ c.module \in Modules
                /\ c.extensions \in ExtensionLists
           /\ c.fn = "emergencyReplaceProtectedModule" =>
                c.module \in Modules /\ c.extensions \in ExtensionLists
BY DEF Calls

\* A list of the arguments is a bag of extensions.
LEMMA ListType == ExtensionLists \subseteq [Extensions -> Nat] /\ NoList \in [Extensions -> Nat]
BY BoundsAssumption DEF ExtensionLists, NoList

\* Adding an argument list to an array of extensions.
LEMMA AddedLists ==
    ASSUME NEW f \in [Extensions -> Nat], NEW g \in [Extensions -> Nat]
    PROVE  [e \in Extensions |-> f[e] + g[e]] \in [Extensions -> Nat]
OBVIOUS

\* The manager's data keep their types; the counter never goes below zero
\* because both decrements are behind onlyEmergency.
THEOREM TypeCorrect == Spec => []TypeOK
<1>1. Init => TypeOK
  <2> SUFFICES ASSUME Init PROVE TypeOK
    OBVIOUS
  <2>1. initialized \in BOOLEAN /\ by \subseteq {"operator", "methodologist"}
    BY DEF Init
  <2>2. authorizedExtensionsList \in [Modules -> [Extensions -> Nat]]
    BY ListType DEF Init
  <2>3. moduleStates \in [Modules -> {"NONE", "PENDING", "INITIALIZED"}]
    BY DEF Init
  <2> QED
    BY <2>1, <2>2, <2>3, RolesAssumption DEF Init, TypeOK
<1>2. TypeOK /\ [Next]_vars => TypeOK'
  <2> SUFFICES ASSUME TypeOK, [Next]_vars PROVE TypeOK'
    OBVIOUS
  <2> USE RolesOfType, ListType
  <2>1. CASE UNCHANGED vars
    BY <2>1 DEF vars, TypeOK
  <2>2. ASSUME NEW s \in Accounts, authorizeInitialization(s) \/ resolveEmergency(s)
        PROVE  TypeOK'
    <3>1. CASE authorizeInitialization(s)
      <4>1. initialized' \in BOOLEAN
        BY <3>1 DEF authorizeInitialization
      <4> QED
        BY <3>1, <4>1 DEF TypeOK, authorizeInitialization, onlyMethodologist, roles, registry,
                          setToken, approvals
    <3>2. CASE resolveEmergency(s)
      BY <3>2 DEF TypeOK, resolveEmergency, onlyMethodologist, onlyEmergency, roles, registry,
                  setToken, approvals
    <3> QED
      BY <2>2, <3>1, <3>2
  <2>3. ASSUME NEW s \in Accounts, NEW a \in Successors, setMethodologist(s, a) \/ setOperator(s, a)
        PROVE  TypeOK'
    BY <2>3, RolesAssumption DEF TypeOK, setMethodologist, setOperator, onlyMethodologist, onlyOperator,
                registry, setToken, approvals
  <2>4. ASSUME NEW s \in Accounts, NEW e \in Extensions, addExtension(s, e) \/ removeExtension(s, e)
        PROVE  TypeOK'
    BY <2>4 DEF TypeOK, addExtension, removeExtension, onlyOperator, roles, registry, setToken, approvals
  <2>5. ASSUME NEW s \in Accounts, NEW m \in Modules, addModule(s, m) \/ removeModule(s, m)
        PROVE  TypeOK'
    BY <2>5 DEF TypeOK, addModule, removeModule, onlyOperator, roles, registry, approvals
  <2>6. ASSUME NEW s \in Accounts, NEW m \in Modules,
               emergencyRemoveProtectedModule(s, m) \/ unProtectModule(s, m)
        PROVE  TypeOK'
    <3>1. unProtected(m) => /\ protectedModulesList' \subseteq Modules
                            /\ authorizedExtensions' \in [Modules -> SUBSET Extensions]
                            /\ authorizedExtensionsList' \in [Modules -> [Extensions -> Nat]]
      BY DEF TypeOK, unProtected, clearedAuthorizations
    <3>2. CASE emergencyRemoveProtectedModule(s, m)
      BY <3>1, <3>2 DEF TypeOK, emergencyRemoveProtectedModule, onlyOperator, roles, approvals
    <3>3. CASE unProtectModule(s, m)
      BY <3>1, <3>3 DEF TypeOK, unProtectModule, onlyMethodologist, roles, setToken, approvals
    <3> QED
      BY <2>6, <3>2, <3>3
  <2>7. ASSUME NEW s \in Accounts, NEW m \in Modules, NEW exts \in ExtensionLists,
               protectModule(s, m, exts)
        PROVE  TypeOK'
    <3>1. [e \in Extensions |-> authorizedExtensionsList[m][e] + exts[e]] \in [Extensions -> Nat]
      BY AddedLists DEF TypeOK
    <3> QED
      BY <2>7, <3>1, ListedAreExtensions DEF TypeOK, protectModule, onlyOperator, roles, setToken, approvals
  <2>8. ASSUME NEW s \in Accounts, NEW c \in Calls, registerUpgrade(c, s)
        PROVE  TypeOK'
    BY <2>8 DEF TypeOK, registerUpgrade, roles, registry, setToken
  <2>9. ASSUME NEW s \in Accounts, NEW c \in Calls, executeUpgrade(c, s)
        PROVE  TypeOK'
    <3>1. /\ UNCHANGED <<roles, initialized>>
          /\ mutualUpgrades' \subseteq Calls \X Accounts
          /\ called' \subseteq Calls \X Accounts
          /\ by' \subseteq {"operator", "methodologist"}
      BY <2>9 DEF TypeOK, executeUpgrade
    <3>2. CASE setManager(c)
      BY <3>1, <3>2, CallArguments DEF TypeOK, setManager, roles, registry
    <3>3. CASE authorizeExtension(c)
      BY <3>1, <3>3, CallArguments DEF TypeOK, authorizeExtension, roles, setToken
    <3>4. CASE revokeExtensionAuthorization(c)
      BY <3>1, <3>4, CallArguments DEF TypeOK, revokeExtensionAuthorization, roles, setToken
    <3>5. CASE replaceProtectedModule(c)
      <4> DEFINE cleared == [authorizedExtensionsList EXCEPT ![c.old] = NoList]
      <4>1. c.old \in Modules /\ c.module \in Modules /\ c.extensions \in [Extensions -> Nat]
        BY <3>5, CallArguments DEF replaceProtectedModule
      <4>2. cleared \in [Modules -> [Extensions -> Nat]]
        BY <4>1 DEF TypeOK
      <4>3. [e \in Extensions |-> cleared[c.module][e] + c.extensions[e]] \in [Extensions -> Nat]
        BY <4>1, <4>2, AddedLists
      <4>4. authorizedExtensionsList' \in [Modules -> [Extensions -> Nat]]
        BY <3>5, <4>1, <4>2, <4>3 DEF replaceProtectedModule
      <4>5. authorizedExtensions' \in [Modules -> SUBSET Extensions]
        BY <3>5, <4>1, ListedAreExtensions DEF TypeOK, replaceProtectedModule, clearedAuthorizations
      <4>6. moduleStates' \in [Modules -> {"NONE", "PENDING", "INITIALIZED"}]
        BY <3>5, <4>1 DEF TypeOK, replaceProtectedModule
      <4> QED
        BY <3>1, <3>5, <4>1, <4>4, <4>5, <4>6, ListedAreExtensions DEF TypeOK, replaceProtectedModule, roles
    <3>6. CASE emergencyReplaceProtectedModule(c)
      <4>1. c.module \in Modules /\ c.extensions \in [Extensions -> Nat]
        BY <3>6, CallArguments DEF emergencyReplaceProtectedModule
      <4>2. [e \in Extensions |-> authorizedExtensionsList[c.module][e] + c.extensions[e]]
              \in [Extensions -> Nat]
        BY <4>1, AddedLists DEF TypeOK
      <4> QED
        BY <3>1, <3>6, <4>1, <4>2, ListedAreExtensions
        DEF TypeOK, emergencyReplaceProtectedModule, onlyEmergency, roles
    <3> QED
      BY <2>9, <3>2, <3>3, <3>4, <3>5, <3>6 DEF executeUpgrade
  <2>10. ASSUME NEW e \in Extensions, NEW m \in Modules, interactManager(e, m)
         PROVE  TypeOK'
    BY <2>10 DEF TypeOK, interactManager, roles, registry, approvals
  <2> QED
    BY <2>1, <2>2, <2>3, <2>4, <2>5, <2>6, <2>7, <2>8, <2>9, <2>10 DEF Next
<1> QED
  BY <1>1, <1>2, PTL DEF Spec

(***************************************************************************)
(* Authorizations and protections.                                         *)
(***************************************************************************)

\* Clearing along the array empties the mapping, because the mapping holds
\* nothing that the array does not.
LEMMA ClearedIsEmpty ==
    ASSUME AuthorizationsClean, NEW m \in Modules
    PROVE  clearedAuthorizations(m) = {}
BY DEF AuthorizationsClean, clearedAuthorizations

\* After _unProtectModule the registry is exact again.
LEMMA UnProtectedKeepsClean ==
    ASSUME TypeOK, AuthorizationsClean, NEW m \in Modules, unProtected(m), UNCHANGED isExtension
    PROVE  AuthorizationsClean'
<1> SUFFICES ASSUME NEW n \in Modules
             PROVE  /\ authorizedExtensions'[n] \subseteq isExtension
                    /\ authorizedExtensions'[n] \subseteq Listed(authorizedExtensionsList'[n])
                    /\ n \notin protectedModulesList' =>
                         authorizedExtensions'[n] = {} /\ authorizedExtensionsList'[n] = NoList
  BY DEF AuthorizationsClean, Listed
<1>1. CASE n = m
  BY <1>1, ClearedIsEmpty DEF unProtected, TypeOK
<1>2. CASE n # m
  BY <1>2 DEF unProtected, TypeOK, AuthorizationsClean
<1> QED
  BY <1>1, <1>2

\* Authorizing a list of extensions for a module that becomes protected keeps
\* the registry exact, duplicates in the list included.
LEMMA ProtectedKeepsClean ==
    ASSUME TypeOK, AuthorizationsClean, NEW m \in Modules, NEW exts \in ExtensionLists,
           m \notin protectedModulesList,
           protectedModulesList' = protectedModulesList \cup {m},
           authorizedExtensions' = [authorizedExtensions EXCEPT ![m] = @ \cup Listed(exts)],
           authorizedExtensionsList' =
             [authorizedExtensionsList EXCEPT ![m] = [e \in Extensions |-> @[e] + exts[e]]],
           isExtension' = isExtension \cup Listed(exts)
    PROVE  AuthorizationsClean'
<1> SUFFICES ASSUME NEW n \in Modules
             PROVE  /\ authorizedExtensions'[n] \subseteq isExtension'
                    /\ authorizedExtensions'[n] \subseteq Listed(authorizedExtensionsList'[n])
                    /\ n \notin protectedModulesList' =>
                         authorizedExtensions'[n] = {} /\ authorizedExtensionsList'[n] = NoList
  BY DEF AuthorizationsClean, Listed
<1>1. CASE n = m
  <2>1. authorizedExtensions[m] = {} /\ authorizedExtensionsList[m] = NoList
    BY DEF AuthorizationsClean
  <2>2. \A e \in Extensions : authorizedExtensionsList'[n][e] = exts[e]
    BY <1>1, <2>1, ListType DEF TypeOK, NoList
  <2>3. authorizedExtensions'[n] = Listed(exts)
    BY <1>1, <2>1 DEF TypeOK
  <2>4. Listed(authorizedExtensionsList'[n]) = Listed(exts)
    BY <2>2 DEF Listed
  <2> QED
    BY <1>1, <2>3, <2>4
<1>2. CASE n # m
  BY <1>2 DEF TypeOK, AuthorizationsClean
<1> QED
  BY <1>1, <1>2

\* The same after a replacement, where the new module may be the old one.
LEMMA ReplacedKeepsClean ==
    ASSUME TypeOK, AuthorizationsClean, NEW c \in Calls, replaceProtectedModule(c)
    PROVE  AuthorizationsClean'
<1>0. c.old \in Modules /\ c.module \in Modules /\ c.extensions \in [Extensions -> Nat]
  BY CallArguments, ListType DEF replaceProtectedModule
<1> DEFINE cleared == [authorizedExtensions EXCEPT ![c.old] = clearedAuthorizations(c.old)]
           clearedList == [authorizedExtensionsList EXCEPT ![c.old] = NoList]
<1>1. cleared[c.module] = {} /\ clearedList[c.module] = NoList
  <2>1. CASE c.module = c.old
    BY <1>0, <2>1, ClearedIsEmpty DEF TypeOK
  <2>2. CASE c.module # c.old
    BY <1>0, <2>2 DEF TypeOK, AuthorizationsClean, replaceProtectedModule
  <2> QED
    BY <2>1, <2>2
<1> SUFFICES ASSUME NEW n \in Modules
             PROVE  /\ authorizedExtensions'[n] \subseteq isExtension'
                    /\ authorizedExtensions'[n] \subseteq Listed(authorizedExtensionsList'[n])
                    /\ n \notin protectedModulesList' =>
                         authorizedExtensions'[n] = {} /\ authorizedExtensionsList'[n] = NoList
  BY DEF AuthorizationsClean, Listed
<1>2. CASE n = c.module
  <2>1. authorizedExtensions' = [cleared EXCEPT ![c.module] = @ \cup Listed(c.extensions)]
    BY DEF replaceProtectedModule
  <2>2. authorizedExtensions'[n] = Listed(c.extensions)
    BY <1>0, <1>1, <1>2, <2>1 DEF TypeOK
  <2>3. authorizedExtensionsList' = [clearedList EXCEPT ![c.module] =
                [e \in Extensions |-> clearedList[c.module][e] + c.extensions[e]]]
    BY DEF replaceProtectedModule
  <2>4. \A e \in Extensions : authorizedExtensionsList'[n][e] = c.extensions[e]
    BY <1>0, <1>1, <1>2, <2>3 DEF TypeOK, NoList
  <2>5. Listed(authorizedExtensionsList'[n]) = Listed(c.extensions)
    BY <2>4 DEF Listed
  <2> QED
    BY <1>2, <2>2, <2>5 DEF replaceProtectedModule
<1>3. CASE n # c.module /\ n = c.old
  BY <1>0, <1>3, ClearedIsEmpty DEF TypeOK, replaceProtectedModule
<1>4. CASE n # c.module /\ n # c.old
  BY <1>0, <1>4 DEF TypeOK, AuthorizationsClean, replaceProtectedModule
<1> QED
  BY <1>2, <1>3, <1>4

\* Every step of the manager keeps the authorizations exact.
LEMMA CleanStep ==
    ASSUME TypeOK, AuthorizationsClean, [Next]_vars
    PROVE  AuthorizationsClean'
<1> USE DEF roles, registry, setToken, approvals
<1>1. CASE UNCHANGED <<isExtension, registry>>
  BY <1>1 DEF AuthorizationsClean, Listed
<1>2. ASSUME NEW s \in Accounts, NEW e \in Extensions, addExtension(s, e) \/ removeExtension(s, e)
      PROVE  AuthorizationsClean'
  <2>1. \A n \in Modules : e \in authorizedExtensions[n] => isExtension \subseteq isExtension'
    BY <1>2, UnauthorizedEverywhere DEF addExtension, removeExtension
  <2>2. isExtension \ {e} \subseteq isExtension' /\ UNCHANGED registry
    BY <1>2 DEF addExtension, removeExtension
  <2> QED
    BY <2>1, <2>2 DEF AuthorizationsClean, Listed
<1>3. ASSUME NEW s \in Accounts, NEW m \in Modules,
             emergencyRemoveProtectedModule(s, m) \/ unProtectModule(s, m)
      PROVE  AuthorizationsClean'
  BY <1>3, UnProtectedKeepsClean DEF emergencyRemoveProtectedModule, unProtectModule
<1>4. ASSUME NEW s \in Accounts, NEW m \in Modules, NEW exts \in ExtensionLists,
             protectModule(s, m, exts)
      PROVE  AuthorizationsClean'
  BY <1>4, ProtectedKeepsClean DEF protectModule
<1>5. ASSUME NEW s \in Accounts, NEW c \in Calls, executeUpgrade(c, s)
      PROVE  AuthorizationsClean'
  <2>1. CASE setManager(c)
    BY <1>1, <2>1 DEF setManager
  <2>2. CASE authorizeExtension(c)
    <3>1. c.module \in Modules /\ c.extension \in Extensions
      BY <2>2, CallArguments DEF authorizeExtension
    <3> QED
      BY <2>2, <3>1 DEF authorizeExtension, AuthorizationsClean, Listed, TypeOK
  <2>3. CASE revokeExtensionAuthorization(c)
    <3>1. c.module \in Modules /\ c.extension \in Extensions
      BY <2>3, CallArguments DEF revokeExtensionAuthorization
    <3> QED
      BY <2>3, <3>1 DEF revokeExtensionAuthorization, AuthorizationsClean, Listed, TypeOK
  <2>4. CASE replaceProtectedModule(c)
    BY <2>4, ReplacedKeepsClean
  <2>5. CASE emergencyReplaceProtectedModule(c)
    <3>1. c.module \in Modules /\ c.extensions \in ExtensionLists
      BY <2>5, CallArguments DEF emergencyReplaceProtectedModule
    <3> QED
      BY <2>5, <3>1, ProtectedKeepsClean DEF emergencyReplaceProtectedModule
  <2> QED
    BY <1>5, <2>1, <2>2, <2>3, <2>4, <2>5 DEF executeUpgrade
<1>6. UNCHANGED vars => UNCHANGED <<isExtension, registry>>
  BY DEF vars
<1>7. ASSUME NEW s \in Accounts, authorizeInitialization(s) \/ resolveEmergency(s)
      PROVE  UNCHANGED <<isExtension, registry>>
  BY <1>7 DEF authorizeInitialization, resolveEmergency
<1>8. ASSUME NEW s \in Accounts, NEW a \in Successors, setMethodologist(s, a) \/ setOperator(s, a)
      PROVE  UNCHANGED <<isExtension, registry>>
  BY <1>8 DEF setMethodologist, setOperator
<1>9. ASSUME NEW s \in Accounts, NEW m \in Modules, addModule(s, m) \/ removeModule(s, m)
      PROVE  UNCHANGED <<isExtension, registry>>
  BY <1>9 DEF addModule, removeModule
<1>10. ASSUME NEW s \in Accounts, NEW c \in Calls, registerUpgrade(c, s)
       PROVE  UNCHANGED <<isExtension, registry>>
  BY <1>10 DEF registerUpgrade
<1>11. ASSUME NEW e \in Extensions, NEW m \in Modules, interactManager(e, m)
       PROVE  UNCHANGED <<isExtension, registry>>
  BY <1>11 DEF interactManager
<1> QED
  BY <1>1, <1>2, <1>3, <1>4, <1>5, <1>6, <1>7, <1>8, <1>9, <1>10, <1>11 DEF Next

\* BaseManagerV2's authorizations stay exact for every number of modules and
\* extensions: the array that _unProtectModule walks always covers the mapping,
\* so no grant survives into a later protection of the same module.
THEOREM AuthorizationsStayClean == Spec => []AuthorizationsClean
<1>1. Init => AuthorizationsClean
  BY DEF Init, AuthorizationsClean, NoList, Listed
<1>2. TypeOK /\ AuthorizationsClean /\ [Next]_vars => AuthorizationsClean'
  BY CleanStep
<1> QED
  BY <1>1, <1>2, TypeCorrect, PTL DEF Spec

(***************************************************************************)
(* The registry and the SetToken.                                          *)
(***************************************************************************)

\* A protected module is on the SetToken for as long as this contract is its
\* manager: emergencyRemoveProtectedModule and replaceProtectedModule unprotect
\* what they remove, removeModule refuses a protected module.
THEOREM ProtectedStayOnSet == Spec => []ProtectedModulesOnSet
<1>1. Init => ProtectedModulesOnSet
  BY DEF Init, ProtectedModulesOnSet
<1>2. TypeOK /\ ProtectedModulesOnSet /\ [Next]_vars => ProtectedModulesOnSet'
  <2> SUFFICES ASSUME TypeOK, ProtectedModulesOnSet, [Next]_vars PROVE ProtectedModulesOnSet'
    OBVIOUS
  <2> USE DEF registry, setToken
  <2>1. CASE UNCHANGED <<protectedModulesList, setToken>>
    BY <2>1 DEF ProtectedModulesOnSet
  <2>2. ASSUME NEW s \in Accounts, NEW m \in Modules,
               \/ addModule(s, m) \/ removeModule(s, m)
               \/ emergencyRemoveProtectedModule(s, m) \/ unProtectModule(s, m)
        PROVE  ProtectedModulesOnSet'
    BY <2>2 DEF addModule, removeModule, emergencyRemoveProtectedModule, unProtectModule,
                unProtected, ProtectedModulesOnSet, TypeOK
  <2>3. ASSUME NEW s \in Accounts, NEW m \in Modules, NEW exts \in ExtensionLists,
               protectModule(s, m, exts)
        PROVE  ProtectedModulesOnSet'
    BY <2>3 DEF protectModule, ProtectedModulesOnSet, TypeOK
  <2>4. ASSUME NEW s \in Accounts, NEW c \in Calls, executeUpgrade(c, s)
        PROVE  ProtectedModulesOnSet'
    <3>1. CASE setManager(c)
      BY <3>1, CallArguments, ManagersAssumption DEF setManager, ProtectedModulesOnSet
    <3>2. CASE authorizeExtension(c) \/ revokeExtensionAuthorization(c)
      BY <2>1, <3>2 DEF authorizeExtension, revokeExtensionAuthorization
    <3>3. CASE replaceProtectedModule(c)
      BY <3>3, CallArguments DEF replaceProtectedModule, ProtectedModulesOnSet, TypeOK
    <3>4. CASE emergencyReplaceProtectedModule(c)
      BY <3>4, CallArguments DEF emergencyReplaceProtectedModule, ProtectedModulesOnSet, TypeOK
    <3> QED
      BY <2>4, <3>1, <3>2, <3>3, <3>4 DEF executeUpgrade
  <2>5. ASSUME NEW e \in Extensions, NEW m \in Modules, interactManager(e, m)
        PROVE  ProtectedModulesOnSet'
    BY <2>5 DEF interactManager, ProtectedModulesOnSet, TypeOK
  <2>6. UNCHANGED vars => UNCHANGED <<protectedModulesList, setToken>>
    BY DEF vars
  <2>7. ASSUME NEW s \in Accounts, authorizeInitialization(s) \/ resolveEmergency(s)
        PROVE  UNCHANGED <<protectedModulesList, setToken>>
    BY <2>7 DEF authorizeInitialization, resolveEmergency
  <2>8. ASSUME NEW s \in Accounts, NEW a \in Successors, setMethodologist(s, a) \/ setOperator(s, a)
        PROVE  UNCHANGED <<protectedModulesList, setToken>>
    BY <2>8 DEF setMethodologist, setOperator
  <2>9. ASSUME NEW s \in Accounts, NEW e \in Extensions, addExtension(s, e) \/ removeExtension(s, e)
        PROVE  UNCHANGED <<protectedModulesList, setToken>>
    BY <2>9 DEF addExtension, removeExtension
  <2>10. ASSUME NEW s \in Accounts, NEW c \in Calls, registerUpgrade(c, s)
         PROVE  UNCHANGED <<protectedModulesList, setToken>>
    BY <2>10 DEF registerUpgrade
  <2> QED
    BY <2>1, <2>2, <2>3, <2>4, <2>5, <2>6, <2>7, <2>8, <2>9, <2>10 DEF Next
<1> QED
  BY <1>1, <1>2, TypeCorrect, PTL DEF Spec

(***************************************************************************)
(* Consent.                                                                *)
(***************************************************************************)

\* The hashes on record are exactly the approvals given and not yet used.
ApprovalsAreRecorded == called = mutualUpgrades

\* The modifier keeps its record in step with who asked for what.
LEMMA ApprovalsStep ==
    ASSUME ApprovalsAreRecorded, [Next]_vars
    PROVE  ApprovalsAreRecorded'
<1> USE DEF approvals, ApprovalsAreRecorded
<1>1. CASE UNCHANGED vars
  BY <1>1 DEF vars
<1>2. CASE \E s \in Accounts, c \in Calls : registerUpgrade(c, s) \/ executeUpgrade(c, s)
  BY <1>2 DEF registerUpgrade, executeUpgrade, expectedHash
<1>3. CASE \E s \in Accounts : authorizeInitialization(s) \/ resolveEmergency(s)
  BY <1>3 DEF authorizeInitialization, resolveEmergency
<1>4. CASE \E s \in Accounts, a \in Successors : setMethodologist(s, a) \/ setOperator(s, a)
  BY <1>4 DEF setMethodologist, setOperator
<1>5. CASE \E s \in Accounts, e \in Extensions : addExtension(s, e) \/ removeExtension(s, e)
  BY <1>5 DEF addExtension, removeExtension
<1>6. CASE \E s \in Accounts, m \in Modules :
             \/ addModule(s, m) \/ removeModule(s, m)
             \/ emergencyRemoveProtectedModule(s, m) \/ unProtectModule(s, m)
  BY <1>6 DEF addModule, removeModule, emergencyRemoveProtectedModule, unProtectModule
<1>7. CASE \E s \in Accounts, m \in Modules, exts \in ExtensionLists : protectModule(s, m, exts)
  BY <1>7 DEF protectModule
<1>8. CASE \E e \in Extensions, m \in Modules : interactManager(e, m)
  BY <1>8 DEF interactManager
<1> QED
  BY <1>1, <1>2, <1>3, <1>4, <1>5, <1>6, <1>7, <1>8 DEF Next

\* A call that runs under mutual approval was asked for by whoever holds the
\* two roles now, not by a former holder and not twice by the same party.
LEMMA UpgradeHasBothConsents ==
    ASSUME TypeOK, ApprovalsAreRecorded, NEW s \in Accounts, NEW c \in Calls, executeUpgrade(c, s)
    PROVE  by' = {"operator", "methodologist"}
<1>1. s \in {operator, methodologist} /\ <<c, nonCaller(s)>> \in called
  BY DEF executeUpgrade, approvalRegistered, expectedHash, ApprovalsAreRecorded
<1>2. nonCaller(s) \in Accounts
  BY DEF TypeOK, nonCaller
<1>3. {operator, methodologist} \subseteq {s} \cup {a \in Accounts : <<c, a>> \in called}
  BY <1>1, <1>2 DEF nonCaller
<1>4. rolesOf({s} \cup {a \in Accounts : <<c, a>> \in called}) = {"operator", "methodologist"}
  BY <1>3 DEF rolesOf, holder
<1> QED
  BY <1>4 DEF executeUpgrade

\* The step of ProtectionNeedsMethodologist.
ProtectionStep ==
    \A m \in protectedModulesList :
        \/ m \in protectedModulesList' /\ authorizedExtensions'[m] = authorizedExtensions[m]
        \/ "methodologist" \in by'
        \/ emergencies' = emergencies + 1 /\ m \notin protectedModulesList'

\* A call by the methodologist alone is recorded as such.
LEMMA MethodologistConsents ==
    ASSUME NEW s, onlyMethodologist(s)
    PROVE  "methodologist" \in by'
BY DEF onlyMethodologist, rolesOf, holder

\* A protection falls, or the authorizations of a protected module change, only
\* with the methodologist or in an emergency removal that is counted.
THEOREM ProtectionSafe == Spec => ProtectionNeedsMethodologist
<1>1. Init => ApprovalsAreRecorded
  BY DEF Init, ApprovalsAreRecorded
<1>2. ApprovalsAreRecorded /\ [Next]_vars => ApprovalsAreRecorded'
  BY ApprovalsStep
<1>3. TypeOK /\ ApprovalsAreRecorded /\ [Next]_vars => [ProtectionStep]_vars
  <2> SUFFICES ASSUME TypeOK, ApprovalsAreRecorded, Next PROVE ProtectionStep
    OBVIOUS
  <2> USE DEF registry
  <2>1. CASE UNCHANGED registry
    BY <2>1 DEF ProtectionStep
  <2>2. ASSUME NEW s \in Accounts, NEW m \in Modules,
               emergencyRemoveProtectedModule(s, m) \/ unProtectModule(s, m)
        PROVE  ProtectionStep
    <3>1. CASE emergencyRemoveProtectedModule(s, m)
      BY <3>1 DEF emergencyRemoveProtectedModule, unProtected, ProtectionStep, TypeOK
    <3>2. CASE unProtectModule(s, m)
      BY <3>2, MethodologistConsents DEF unProtectModule, ProtectionStep
    <3> QED
      BY <2>2, <3>1, <3>2
  <2>3. ASSUME NEW s \in Accounts, NEW m \in Modules, NEW exts \in ExtensionLists,
               protectModule(s, m, exts)
        PROVE  ProtectionStep
    BY <2>3 DEF protectModule, ProtectionStep, TypeOK
  <2>4. ASSUME NEW s \in Accounts, NEW c \in Calls, executeUpgrade(c, s)
        PROVE  ProtectionStep
    BY <2>4, UpgradeHasBothConsents DEF ProtectionStep
  <2>5. CASE \E s \in Accounts : authorizeInitialization(s) \/ resolveEmergency(s)
    BY <2>1, <2>5 DEF authorizeInitialization, resolveEmergency
  <2>6. CASE \E s \in Accounts, a \in Successors : setMethodologist(s, a) \/ setOperator(s, a)
    BY <2>1, <2>6 DEF setMethodologist, setOperator
  <2>7. CASE \E s \in Accounts, e \in Extensions : addExtension(s, e) \/ removeExtension(s, e)
    BY <2>1, <2>7 DEF addExtension, removeExtension
  <2>8. CASE \E s \in Accounts, m \in Modules : addModule(s, m) \/ removeModule(s, m)
    BY <2>1, <2>8 DEF addModule, removeModule
  <2>9. CASE \E s \in Accounts, c \in Calls : registerUpgrade(c, s)
    BY <2>1, <2>9 DEF registerUpgrade
  <2>10. CASE \E e \in Extensions, m \in Modules : interactManager(e, m)
    BY <2>1, <2>10 DEF interactManager
  <2> QED
    BY <2>2, <2>3, <2>4, <2>5, <2>6, <2>7, <2>8, <2>9, <2>10 DEF Next
<1> QED
  BY <1>1, <1>2, <1>3, TypeCorrect, PTL DEF Spec, ProtectionNeedsMethodologist, ProtectionStep

\* The step of EmergencyFreezesOperator.
FreezeStep ==
    emergencies > 0 =>
        /\ (\/ isExtension' \ isExtension # {}
            \/ \E m \in Modules : moduleStates[m] = "NONE" /\ moduleStates'[m] # "NONE")
              => by' = {"operator", "methodologist"}
        /\ emergencies' < emergencies => "methodologist" \in by'

\* While an emergency lasts nothing is added without both role holders, and
\* the methodologist takes part in ending it.
THEOREM EmergencyFreezes == Spec => EmergencyFreezesOperator
<1>1. Init => ApprovalsAreRecorded
  BY DEF Init, ApprovalsAreRecorded
<1>2. ApprovalsAreRecorded /\ [Next]_vars => ApprovalsAreRecorded'
  BY ApprovalsStep
<1>3. TypeOK /\ ApprovalsAreRecorded /\ [Next]_vars => [FreezeStep]_vars
  <2> SUFFICES ASSUME TypeOK, ApprovalsAreRecorded, Next, emergencies > 0 PROVE FreezeStep
    BY DEF FreezeStep
  <2> USE DEF registry, setToken
  <2>1. CASE /\ isExtension' \subseteq isExtension
             /\ UNCHANGED emergencies
             /\ \A m \in Modules : moduleStates[m] = "NONE" => moduleStates'[m] = "NONE"
    BY <2>1 DEF FreezeStep, TypeOK
  <2>2. ASSUME NEW s \in Accounts, authorizeInitialization(s) \/ resolveEmergency(s)
        PROVE  FreezeStep
    BY <2>2, MethodologistConsents DEF authorizeInitialization, resolveEmergency, FreezeStep
  <2>3. ASSUME NEW s \in Accounts, NEW a \in Successors, setMethodologist(s, a) \/ setOperator(s, a)
        PROVE  FreezeStep
    BY <2>1, <2>3 DEF setMethodologist, setOperator
  <2>4. ASSUME NEW s \in Accounts, NEW e \in Extensions, addExtension(s, e) \/ removeExtension(s, e)
        PROVE  FreezeStep
    BY <2>1, <2>4 DEF addExtension, removeExtension, upgradesPermitted
  <2>5. ASSUME NEW s \in Accounts, NEW m \in Modules, addModule(s, m) \/ removeModule(s, m)
        PROVE  FreezeStep
    BY <2>1, <2>5 DEF addModule, removeModule, upgradesPermitted, TypeOK
  <2>6. ASSUME NEW s \in Accounts, NEW m \in Modules,
               emergencyRemoveProtectedModule(s, m) \/ unProtectModule(s, m)
        PROVE  FreezeStep
    <3>1. CASE emergencyRemoveProtectedModule(s, m)
      BY <3>1 DEF emergencyRemoveProtectedModule, FreezeStep, TypeOK
    <3>2. CASE unProtectModule(s, m)
      BY <2>1, <3>2 DEF unProtectModule
    <3> QED
      BY <2>6, <3>1, <3>2
  <2>7. ASSUME NEW s \in Accounts, NEW m \in Modules, NEW exts \in ExtensionLists,
               protectModule(s, m, exts)
        PROVE  FreezeStep
    BY <2>7 DEF protectModule, upgradesPermitted
  <2>8. ASSUME NEW s \in Accounts, NEW c \in Calls, registerUpgrade(c, s)
        PROVE  FreezeStep
    BY <2>1, <2>8 DEF registerUpgrade
  <2>9. ASSUME NEW s \in Accounts, NEW c \in Calls, executeUpgrade(c, s)
        PROVE  FreezeStep
    BY <2>9, UpgradeHasBothConsents DEF FreezeStep
  <2>10. ASSUME NEW e \in Extensions, NEW m \in Modules, interactManager(e, m)
         PROVE  FreezeStep
    BY <2>1, <2>10 DEF interactManager, TypeOK
  <2> QED
    BY <2>2, <2>3, <2>4, <2>5, <2>6, <2>7, <2>8, <2>9, <2>10 DEF Next
<1> QED
  BY <1>1, <1>2, <1>3, TypeCorrect, PTL DEF Spec, EmergencyFreezesOperator, FreezeStep

=============================================================================
