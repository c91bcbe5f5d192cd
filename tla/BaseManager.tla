---------------------------- MODULE BaseManager ----------------------------
(***************************************************************************)
(* BaseManagerV2, the contract that is the manager of the SetToken: the    *)
(* operator runs the product alone, but what the methodologist cares about *)
(* sits behind protected modules, which only the two of them can change    *)
(* together (MutualUpgrade) or which the operator may tear out at the      *)
(* price of an emergency that freezes its own powers.                      *)
(*                                                                         *)
(* The SetToken is here with what the manager touches: the state of each   *)
(* module and the address of the manager.  `by' and `called' are history   *)
(* variables: who asked for the last change, and which approvals were      *)
(* given and not used yet, kept without looking at the contract's hashes.  *)
(***************************************************************************)
EXTENDS Naturals, FiniteSets

CONSTANTS
    Accounts,         \* people (or multisigs) that can hold a role
    Successors,       \* bound: the accounts a role is handed to
    Modules,          \* modules the Controller knows
    Extensions,       \* contracts that can be listed as extensions
    Self, NewManager, \* this contract, and the manager it may hand over to
    Operator0, Methodologist0, InitialModules, \* constructor and SetToken at deployment
    MaxCopies,        \* bound: copies of one extension in an argument list
    MaxApprovals      \* bound: approvals waiting at the same time

ASSUME RolesAssumption == Operator0 \in Accounts /\ Methodologist0 \in Accounts
                          /\ Successors \subseteq Accounts
ASSUME ModulesAssumption == InitialModules \subseteq Modules
ASSUME BoundsAssumption == MaxCopies \in Nat \ {0} /\ MaxApprovals \in Nat
ASSUME ManagersAssumption == Self # NewManager

VARIABLES
    operator, methodologist, initialized, emergencies,
    isExtension,              \* the listed extensions
    protectedModulesList,     \* the modules with isProtected
    authorizedExtensions,     \* per module, the mapping that grants access
    authorizedExtensionsList, \* per module, how often the array holds each extension
    mutualUpgrades,           \* approvals on record: <<call, sender>>
    moduleStates, manager,    \* of the SetToken
    called, by                \* history: unused approvals, consent to the last step

vars == <<operator, methodologist, initialized, emergencies, isExtension,
          protectedModulesList, authorizedExtensions, authorizedExtensionsList,
          mutualUpgrades, moduleStates, manager, called, by>>

roles      == <<operator, methodologist>>
registry   == <<protectedModulesList, authorizedExtensions, authorizedExtensionsList>>
setToken   == <<moduleStates, manager>>
approvals  == <<mutualUpgrades, called>>

ExtensionLists == [Extensions -> 0..MaxCopies]
NoList         == [e \in Extensions |-> 0]
Listed(list)   == {e \in Extensions : list[e] > 0}

Calls ==
    [fn : {"setManager"}, to : {NewManager}]
    \cup [fn : {"authorizeExtension", "revokeExtensionAuthorization"},
          module : Modules, extension : Extensions]
    \cup [fn : {"replaceProtectedModule"}, old : Modules, module : Modules,
          extensions : ExtensionLists]
    \cup [fn : {"emergencyReplaceProtectedModule"}, module : Modules,
          extensions : ExtensionLists]

holder(role) == IF role = "operator" THEN operator ELSE methodologist
rolesOf(accounts) == {r \in {"operator", "methodologist"} : holder(r) \in accounts}

\* Types.  The emergency counter is a natural number: resolveEmergency and
\* emergencyReplaceProtectedModule never take it below zero.
TypeOK ==
    /\ operator \in Accounts /\ methodologist \in Accounts
    /\ initialized \in BOOLEAN /\ emergencies \in Nat
    /\ isExtension \subseteq Extensions
    /\ protectedModulesList \subseteq Modules
    /\ authorizedExtensions \in [Modules -> SUBSET Extensions]
    /\ authorizedExtensionsList \in [Modules -> [Extensions -> Nat]]
    /\ mutualUpgrades \subseteq Calls \X Accounts
    /\ moduleStates \in [Modules -> {"NONE", "PENDING", "INITIALIZED"}]
    /\ manager \in {Self, NewManager}
    /\ called \subseteq Calls \X Accounts
    /\ by \subseteq {"operator", "methodologist"}

Init ==
    /\ operator = Operator0 /\ methodologist = Methodologist0
    /\ initialized = FALSE /\ emergencies = 0
    /\ isExtension = {} /\ protectedModulesList = {}
    /\ authorizedExtensions = [m \in Modules |-> {}]
    /\ authorizedExtensionsList = [m \in Modules |-> NoList]
    /\ mutualUpgrades = {}
    /\ moduleStates = [m \in Modules |-> IF m \in InitialModules THEN "INITIALIZED" ELSE "NONE"]
    /\ manager = Self
    /\ called = {} /\ by = {}

(***************************************************************************)
(* Modifiers                                                               *)
(***************************************************************************)
onlyOperator(sender)      == sender = operator      /\ by' = rolesOf({sender})
onlyMethodologist(sender) == sender = methodologist /\ by' = rolesOf({sender})

\* Mutants: the modifier is missing.
upgradesPermitted_missing == TRUE
onlyEmergency_missing == TRUE

upgradesPermitted         == emergencies = 0
onlyEmergency             == emergencies > 0

nonCaller(sender) == IF sender = operator THEN methodologist ELSE operator

\* Mutant: the sender's own approval is looked up.
expectedHash_sender(call, sender) == <<call, sender>>

\* The hash under which the first half of the modifier looks for the other
\* party's approval.
expectedHash(call, sender) == <<call, nonCaller(sender)>>

approvalRegistered(call, sender) == expectedHash(call, sender) \in mutualUpgrades

(***************************************************************************)
(* Internal functions.                                                     *)
(***************************************************************************)
\* Mutant: only the struct is deleted.
clearedAuthorizations_delete(m) == authorizedExtensions[m]

\* Every extension in the array loses its entry in the mapping, then the
\* struct is deleted; `delete' does not reach a nested mapping by itself.
clearedAuthorizations(m) ==
    authorizedExtensions[m] \ Listed(authorizedExtensionsList[m])

\* _isAuthorizedExtension: some protected module relies on the extension.
isAuthorizedAnywhere(e) == \E m \in protectedModulesList : e \in authorizedExtensions[m]

(***************************************************************************)
(* The SetToken's side of module changes: it accepts them from its manager *)
(* only.                                                                   *)
(***************************************************************************)
setTokenAdds(m)    == manager = Self /\ moduleStates[m] = "NONE"
setTokenRemoves(m) == manager = Self /\ moduleStates[m] = "INITIALIZED"

(***************************************************************************)
(* What a call under mutual approval does once both parties have asked.    *)
(***************************************************************************)
setManager(c) ==
    /\ c.fn = "setManager"
    /\ manager = Self
    /\ manager' = c.to
    /\ UNCHANGED <<moduleStates, emergencies, isExtension, registry>>

authorizeExtension(c) ==
    /\ c.fn = "authorizeExtension"
    /\ c.module \in protectedModulesList
    /\ c.extension \notin authorizedExtensions[c.module]
    /\ isExtension' = isExtension \cup {c.extension}
    /\ authorizedExtensions' = [authorizedExtensions EXCEPT ![c.module] = @ \cup {c.extension}]
    /\ authorizedExtensionsList' =
         [authorizedExtensionsList EXCEPT ![c.module][c.extension] = @ + 1]
    /\ UNCHANGED <<protectedModulesList, setToken, emergencies>>

revokeExtensionAuthorization(c) ==
    /\ c.fn = "revokeExtensionAuthorization"
    /\ c.module \in protectedModulesList
    /\ c.extension \in isExtension
    /\ c.extension \in authorizedExtensions[c.module]
    /\ authorizedExtensionsList[c.module][c.extension] > 0   \* removeStorage
    /\ authorizedExtensions' = [authorizedExtensions EXCEPT ![c.module] = @ \ {c.extension}]
    /\ authorizedExtensionsList' =
         [authorizedExtensionsList EXCEPT ![c.module][c.extension] = @ - 1]
    /\ UNCHANGED <<isExtension, protectedModulesList, setToken, emergencies>>

\* _unProtectModule(old), then the SetToken swaps the modules, then
\* _protectModule(module, extensions): the new module may be the old one.
replaceProtectedModule(c) ==
    /\ c.fn = "replaceProtectedModule"
    /\ c.old \in protectedModulesList
    /\ setTokenRemoves(c.old)
    /\ \/ c.module = c.old
       \/ setTokenAdds(c.module) /\ c.module \notin protectedModulesList
    /\ protectedModulesList' = (protectedModulesList \ {c.old}) \cup {c.module}
    /\ authorizedExtensions' =
         LET cleared == [authorizedExtensions EXCEPT ![c.old] = clearedAuthorizations(c.old)]
         IN  [cleared EXCEPT ![c.module] = @ \cup Listed(c.extensions)]
    /\ authorizedExtensionsList' =
         LET cleared == [authorizedExtensionsList EXCEPT ![c.old] = NoList]
         IN  [cleared EXCEPT ![c.module] =
                [e \in Extensions |-> cleared[c.module][e] + c.extensions[e]]]
    /\ isExtension' = isExtension \cup Listed(c.extensions)
    /\ moduleStates' = [moduleStates EXCEPT ![c.old] = "NONE", ![c.module] = "PENDING"]
    /\ UNCHANGED <<manager, emergencies>>

\* Mutant: the counter is not decremented.
emergencyReplaceProtectedModule_uncounted(c) ==
    /\ c.fn = "emergencyReplaceProtectedModule"
    /\ onlyEmergency
    /\ setTokenAdds(c.module)
    /\ c.module \notin protectedModulesList
    /\ protectedModulesList' = protectedModulesList \cup {c.module}
    /\ authorizedExtensions' =
         [authorizedExtensions EXCEPT ![c.module] = @ \cup Listed(c.extensions)]
    /\ authorizedExtensionsList' = [authorizedExtensionsList EXCEPT ![c.module] =
         [e \in Extensions |-> @[e] + c.extensions[e]]]
    /\ isExtension' = isExtension \cup Listed(c.extensions)
    /\ moduleStates' = [moduleStates EXCEPT ![c.module] = "PENDING"]
    /\ UNCHANGED <<manager, emergencies>>

emergencyReplaceProtectedModule(c) ==
    /\ c.fn = "emergencyReplaceProtectedModule"
    /\ onlyEmergency
    /\ setTokenAdds(c.module)
    /\ c.module \notin protectedModulesList
    /\ protectedModulesList' = protectedModulesList \cup {c.module}
    /\ authorizedExtensions' =
         [authorizedExtensions EXCEPT ![c.module] = @ \cup Listed(c.extensions)]
    /\ authorizedExtensionsList' = [authorizedExtensionsList EXCEPT ![c.module] =
         [e \in Extensions |-> @[e] + c.extensions[e]]]
    /\ isExtension' = isExtension \cup Listed(c.extensions)
    /\ moduleStates' = [moduleStates EXCEPT ![c.module] = "PENDING"]
    /\ emergencies' = emergencies - 1
    /\ UNCHANGED manager

\* First half of the modifier: the other party has not asked for this call,
\* so the sender's wish is put on record and nothing else happens.
registerUpgrade(call, sender) ==
    /\ sender \in {operator, methodologist}
    /\ ~approvalRegistered(call, sender)
    /\ Cardinality(mutualUpgrades) < MaxApprovals
    /\ mutualUpgrades' = mutualUpgrades \cup {<<call, sender>>}
    /\ called' = called \cup {<<call, sender>>}
    /\ by' = rolesOf({sender})
    /\ UNCHANGED <<roles, initialized, emergencies, isExtension, registry, setToken>>

\* Second half: the approval is used up and the call runs; if it reverts, the
\* approval stays on record.
executeUpgrade(call, sender) ==
    /\ sender \in {operator, methodologist}
    /\ approvalRegistered(call, sender)
    /\ mutualUpgrades' = mutualUpgrades \ {expectedHash(call, sender)}
    /\ by' = rolesOf({sender} \cup {a \in Accounts : <<call, a>> \in called})
    /\ called' = called \ {<<call, nonCaller(sender)>>}
    /\ \/ setManager(call)
       \/ authorizeExtension(call)
       \/ revokeExtensionAuthorization(call)
       \/ replaceProtectedModule(call)
       \/ emergencyReplaceProtectedModule(call)
    /\ UNCHANGED <<roles, initialized>>

(***************************************************************************)
(* Calls one party makes alone.                                            *)
(***************************************************************************)
authorizeInitialization(sender) ==
    /\ onlyMethodologist(sender)
    /\ ~initialized
    /\ initialized' = TRUE
    /\ UNCHANGED <<roles, emergencies, isExtension, registry, setToken, approvals>>

addExtension(sender, e) ==
    /\ upgradesPermitted /\ onlyOperator(sender)
    /\ e \notin isExtension
    /\ isExtension' = isExtension \cup {e}
    /\ UNCHANGED <<roles, initialized, emergencies, registry, setToken, approvals>>

removeExtension(sender, e) ==
    /\ onlyOperator(sender)
    /\ e \in isExtension
    /\ ~isAuthorizedAnywhere(e)
    /\ isExtension' = isExtension \ {e}
    /\ UNCHANGED <<roles, initialized, emergencies, registry, setToken, approvals>>

addModule(sender, m) ==
    /\ upgradesPermitted /\ onlyOperator(sender)
    /\ setTokenAdds(m)
    /\ moduleStates' = [moduleStates EXCEPT ![m] = "PENDING"]
    /\ UNCHANGED <<roles, initialized, emergencies, isExtension, registry, manager, approvals>>

\* Mutant: protected modules can be removed like any other.
removeModule_unchecked(sender, m) ==
    /\ onlyOperator(sender)
    /\ setTokenRemoves(m)
    /\ moduleStates' = [moduleStates EXCEPT ![m] = "NONE"]
    /\ UNCHANGED <<roles, initialized, emergencies, isExtension, registry, manager, approvals>>

removeModule(sender, m) ==
    /\ onlyOperator(sender)
    /\ m \notin protectedModulesList
    /\ setTokenRemoves(m)
    /\ moduleStates' = [moduleStates EXCEPT ![m] = "NONE"]
    /\ UNCHANGED <<roles, initialized, emergencies, isExtension, registry, manager, approvals>>

unProtected(m) ==
    /\ m \in protectedModulesList
    /\ protectedModulesList' = protectedModulesList \ {m}
    /\ authorizedExtensions' = [authorizedExtensions EXCEPT ![m] = clearedAuthorizations(m)]
    /\ authorizedExtensionsList' = [authorizedExtensionsList EXCEPT ![m] = NoList]

emergencyRemoveProtectedModule(sender, m) ==
    /\ onlyOperator(sender)
    /\ unProtected(m)
    /\ setTokenRemoves(m)
    /\ moduleStates' = [moduleStates EXCEPT ![m] = "NONE"]
    /\ emergencies' = emergencies + 1
    /\ UNCHANGED <<roles, initialized, isExtension, manager, approvals>>

unProtectModule(sender, m) ==
    /\ onlyMethodologist(sender)
    /\ unProtected(m)
    /\ UNCHANGED <<roles, initialized, emergencies, isExtension, setToken, approvals>>

protectModule(sender, m, exts) ==
    /\ upgradesPermitted /\ onlyOperator(sender)
    /\ moduleStates[m] = "INITIALIZED"
    /\ m \notin protectedModulesList
    /\ protectedModulesList' = protectedModulesList \cup {m}
    /\ authorizedExtensions' = [authorizedExtensions EXCEPT ![m] = @ \cup Listed(exts)]
    /\ authorizedExtensionsList' =
         [authorizedExtensionsList EXCEPT ![m] = [e \in Extensions |-> @[e] + exts[e]]]
    /\ isExtension' = isExtension \cup Listed(exts)
    /\ UNCHANGED <<roles, initialized, emergencies, setToken, approvals>>

resolveEmergency(sender) ==
    /\ onlyMethodologist(sender) /\ onlyEmergency
    /\ emergencies' = emergencies - 1
    /\ UNCHANGED <<roles, initialized, isExtension, registry, setToken, approvals>>

setMethodologist(sender, account) ==
    /\ onlyMethodologist(sender)
    /\ methodologist' = account
    /\ UNCHANGED <<operator, initialized, emergencies, isExtension, registry, setToken, approvals>>

setOperator(sender, account) ==
    /\ onlyOperator(sender)
    /\ operator' = account
    /\ UNCHANGED <<methodologist, initialized, emergencies, isExtension, registry, setToken, approvals>>

\* An extension calls a module through the manager.  The call that matters
\* here is the module's initialize(), which the SetToken answers by moving the
\* module from PENDING to INITIALIZED.
interactManager(e, m) ==
    /\ e \in isExtension
    /\ initialized
    /\ m \in protectedModulesList => e \in authorizedExtensions[m]
    /\ manager = Self
    /\ moduleStates[m] = "PENDING"
    /\ moduleStates' = [moduleStates EXCEPT ![m] = "INITIALIZED"]
    /\ by' = {}
    /\ UNCHANGED <<roles, initialized, emergencies, isExtension, registry, manager, approvals>>

Next ==
    \/ \E s \in Accounts : authorizeInitialization(s) \/ resolveEmergency(s)
    \/ \E s \in Accounts, a \in Successors : setMethodologist(s, a) \/ setOperator(s, a)
    \/ \E s \in Accounts, e \in Extensions : addExtension(s, e) \/ removeExtension(s, e)
    \/ \E s \in Accounts, m \in Modules :
          \/ addModule(s, m)
          \/ removeModule(s, m)
          \/ emergencyRemoveProtectedModule(s, m)
          \/ unProtectModule(s, m)
    \/ \E s \in Accounts, m \in Modules, exts \in ExtensionLists : protectModule(s, m, exts)
    \/ \E s \in Accounts, c \in Calls : registerUpgrade(c, s) \/ executeUpgrade(c, s)
    \/ \E e \in Extensions, m \in Modules : interactManager(e, m)

Spec == Init /\ [][Next]_vars

\* A methodologist who keeps calling resolveEmergency while there is one.
FairSpec == Spec /\ WF_vars(\E s \in Accounts : resolveEmergency(s))

(***************************************************************************)
(* Properties                                                              *)
(***************************************************************************)

\* Authorizations are exact: what the mapping grants is an extension that is
\* listed, it is in the array that _unProtectModule walks, and a module that is
\* not protected has no authorization left over for the next protection of the
\* same module (Solidity's delete does not clear the nested mapping).
AuthorizationsClean ==
    \A m \in Modules :
        /\ authorizedExtensions[m] \subseteq isExtension
        /\ authorizedExtensions[m] \subseteq Listed(authorizedExtensionsList[m])
        /\ m \notin protectedModulesList =>
             authorizedExtensions[m] = {} /\ authorizedExtensionsList[m] = NoList

\* The manager's registry and the SetToken agree: as long as this contract is
\* the manager, a protected module is on the SetToken (initialized, or pending
\* after a replacement); no order of removals and replacements loses it.
ProtectedModulesOnSet ==
    manager = Self => \A m \in protectedModulesList : moduleStates[m] # "NONE"

\* A protection is never weakened (a module unprotected, an extension's
\* authorization taken away or given) behind the methodologist's back: either
\* the methodologist asked for it, or it is the operator's emergency removal,
\* which is counted; protecting more by protectModule is the operator's right.
ProtectionNeedsMethodologist ==
    [][\A m \in protectedModulesList :
          \/ m \in protectedModulesList' /\ authorizedExtensions'[m] = authorizedExtensions[m]
          \/ "methodologist" \in by'
          \/ emergencies' = emergencies + 1 /\ m \notin protectedModulesList']_vars

\* During an emergency the operator alone adds nothing: the SetToken gets no new
\* module and the manager no new extension unless both role holders have asked
\* for it; and the emergency is over only when the methodologist took part.
EmergencyFreezesOperator ==
    [][emergencies > 0 =>
          /\ (\/ isExtension' \ isExtension # {}
              \/ \E m \in Modules : moduleStates[m] = "NONE" /\ moduleStates'[m] # "NONE")
                => by' = {"operator", "methodologist"}
          /\ emergencies' < emergencies => "methodologist" \in by']_vars

\* An emergency ends if the methodologist wants it to: the operator cannot keep
\* it going, since every further emergency removal uses up a protected module
\* and none can be protected again without the methodologist.
EmergencyEnds == emergencies > 0 ~> emergencies = 0
=============================================================================
