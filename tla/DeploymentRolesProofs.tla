------------------------ MODULE DeploymentRolesProofs --------------------------
(* The roles of the two contracts, for any accounts, any order of grants and any    *)
(* interruption of the scripts: that the scripts keep an administrator, that money  *)
(* waits for the end of the hand-over, that a verification that passed is true at   *)
(* the block of its manifest, and that what it found separated stays separated.     *)
(*                                                                                  *)
(* Scripted says what the scripts rely on; HandOverInv, what a hand-over has done   *)
(* as far as it has come; Recorded, that the last event of an account tells whether *)
(* it has the role, now and at the end of each block; Shown, that the chain stands  *)
(* still while the verifier reads, so that what a replay showed stays shown.        *)
EXTENDS DeploymentRoles, FiniteSetTheorems, SequenceTheorems, WellFoundedInduction, TLAPS

\* The script that runs: a deployment before bindFactory, a hand-over after it.
ScriptInv ==
  /\ script = [name |-> script.name, next |-> script.next]
  /\ script.name \in {"none", "core", "handOver"}
  /\ script.name = "core" => ~bound
  /\ script.name = "handOver" => bound /\ script.next \in 1 .. 8

\* Nothing is bound or granted before there is a contract, and the registry's second
\* role is granted to nobody before it is bound.
Scripted ==
  /\ member \in [Roles -> SUBSET Accounts]
  /\ bound \in BOOLEAN
  /\ ScriptInv
  /\ ~bound => member["sourceAdmin"] = {}
  /\ DOMAIN deployed = {} => ~bound /\ \A r \in Roles : member[r] = {}

--------------------------------------------------------------------------------
(* The two ways a role changes.                                                    *)

LEMMA HandOverIsOfRoles ==
  ASSUME DeploymentAssumption, NEW i \in 1 .. 8
  PROVE  /\ Len(HandOver) = 8
         /\ HandOver[i].type \in {"granted", "revoked"}
         /\ HandOver[i].role \in Roles
         /\ HandOver[i].to \in Accounts
BY DEF HandOver, DeploymentAssumption, Roles, FactoryRoles, RegistryRoles

\* A grant or a revocation that a contract lets through.
LEMMA ChangeKeeps ==
  ASSUME Scripted, NEW r \in Roles, NEW a \in Accounts,
         NEW type \in {"granted", "revoked"}, NEW sender, Change(type, r, a, sender)
  PROVE  /\ member' \in [Roles -> SUBSET Accounts]
         /\ UNCHANGED <<deployed, bound>>
         /\ ~bound => member'["sourceAdmin"] = {}
<1>1. /\ member' = [member EXCEPT ![r] = IF type = "granted" THEN member[r] \cup {a}
                                         ELSE member[r] \ {a}]
      /\ UNCHANGED <<deployed, bound>>
      /\ type = "granted" => MayGrant(member, bound, r, a)
  BY DEF Change, Write, Permitted
<1>2. ~bound /\ type = "granted" => r # "sourceAdmin"
  BY <1>1 DEF MayGrant, RegistryAllows, FactoryRoles
<1> QED BY <1>1, <1>2 DEF Scripted

\* transferRoles starts only once the factory is bound: its sixth transaction, the
\* grant of the registry's second role, would revert before.
LEMMA HandOverNeedsBind ==
  ASSUME Scripted, HandOverSimulates
  PROVE  bound
<1>1. 6 \in DOMAIN HandOver BY DEF HandOver
<1>2. HandOver[6].type = "granted" /\ HandOver[6].role = "sourceAdmin" BY DEF HandOver
<1>3. MayGrant(RolesAfter(5), bound, "sourceAdmin", HandOver[6].to)
  <2>1. Permitted(RolesAfter(6 - 1), bound, HandOver[6].type, HandOver[6].role,
                  HandOver[6].to, Deployer)
    BY <1>1 DEF HandOverSimulates
  <2> QED BY <2>1, <1>2 DEF Permitted
<1>4. "sourceAdmin" \notin FactoryRoles BY DEF FactoryRoles
<1> QED BY <1>3, <1>4 DEF MayGrant, RegistryAllows, Scripted

--------------------------------------------------------------------------------
(* Scripted is kept.                                                               *)

LEMMA ScriptedInit ==
  ASSUME Init
  PROVE  Scripted
BY DEF Init, Scripted, ScriptInv, Idle, Roles, RegistryRoles

\* The constructors.
LEMMA DeployKeeps ==
  ASSUME DeploymentAssumption, Scripted, NEW c \in Contracts, Deploy(c)
  PROVE  Scripted'
<1> DEFINE admin == IF c = "registry" THEN "registryAdmin" ELSE "factoryAdmin"
<1>1. ~bound /\ bound' = bound
  BY DEF Deploy, Scripted, ScriptInv
<1>2. DOMAIN deployed' # {} BY DEF Deploy
<1>3. script = [name |-> script.name, next |-> script.next] /\ script.name = "core"
  BY DEF Deploy, Scripted, ScriptInv
<1>4. script' = [name |-> "core", next |-> script.next + 1]
  BY <1>3 DEF Deploy
<1>5. ScriptInv' BY <1>1, <1>4 DEF ScriptInv
<1>6. /\ admin \in {"registryAdmin", "factoryAdmin"}
      /\ \/ member' = member
         \/ member' = [member EXCEPT ![admin] = member[admin] \cup {Deployer}]
  BY DEF Deploy, Write, Contracts
<1> HIDE DEF admin
<1>7. admin \in Roles /\ admin # "sourceAdmin" /\ "sourceAdmin" \in Roles
  BY <1>6 DEF Roles, FactoryRoles, RegistryRoles
<1>8. Deployer \in Accounts BY DEF DeploymentAssumption
<1>9. /\ member' \in [Roles -> SUBSET Accounts]
      /\ member'["sourceAdmin"] = member["sourceAdmin"]
  <2>1. member \in [Roles -> SUBSET Accounts] BY DEF Scripted
  <2>2. member[admin] \cup {Deployer} \in SUBSET Accounts BY <1>7, <1>8, <2>1
  <2> QED BY <1>6, <1>7, <2>1, <2>2
<1> QED BY <1>1, <1>2, <1>5, <1>9 DEF Scripted

LEMMA HandOverStepKeeps ==
  ASSUME DeploymentAssumption, Scripted, HandOverStep
  PROVE  Scripted'
<1> DEFINE s == HandOver[script.next]
<1>1. script.next \in 1 .. 8 /\ script.name = "handOver" /\ bound
  BY DEF HandOverStep, Scripted, ScriptInv
<1>2. /\ s.type \in {"granted", "revoked"} /\ s.role \in Roles /\ s.to \in Accounts
      /\ Len(HandOver) = 8
  BY <1>1, HandOverIsOfRoles
<1>3. Change(s.type, s.role, s.to, Deployer) BY DEF HandOverStep
<1> HIDE DEF s
<1>4. /\ member' \in [Roles -> SUBSET Accounts]
      /\ UNCHANGED <<deployed, bound>>
  BY <1>2, <1>3, ChangeKeeps
<1>5. script' = IF script.next = 8 THEN Idle ELSE [script EXCEPT !.next = @ + 1]
  BY <1>2 DEF HandOverStep
<1>6. DOMAIN deployed # {} BY <1>1 DEF Scripted
<1>7. ScriptInv'
  <2>1. script = [name |-> script.name, next |-> script.next]
    BY DEF Scripted, ScriptInv
  <2>2. CASE script.next = 8
    BY <2>2, <1>5, <1>4 DEF ScriptInv, Idle
  <2>3. CASE script.next # 8
    <3>1. script.next + 1 \in 1 .. 8 BY <1>1, <2>3
    <3>2. script' = [name |-> "handOver", next |-> script.next + 1]
      BY <1>1, <1>5, <2>1, <2>3
    <3> QED BY <3>1, <3>2, <1>1, <1>4 DEF ScriptInv
  <2> QED BY <2>2, <2>3
<1> QED BY <1>1, <1>4, <1>6, <1>7 DEF Scripted

LEMMA ByHandKeeps ==
  ASSUME DeploymentAssumption, Scripted,
         NEW type \in {"granted", "revoked"}, NEW r \in Roles,
         NEW a \in Operable, NEW sender \in Accounts,
         ByHand(type, r, a, sender)
  PROVE  Scripted'
<1>1. Change(type, r, a, sender) /\ UNCHANGED script /\ DOMAIN deployed # {}
  BY DEF ByHand, Live
<1>2. a \in Accounts BY DEF DeploymentAssumption
<1>3. /\ member' \in [Roles -> SUBSET Accounts]
      /\ UNCHANGED <<deployed, bound>>
      /\ ~bound => member'["sourceAdmin"] = {}
  BY <1>1, <1>2, ChangeKeeps
<1> QED BY <1>1, <1>3 DEF Scripted, ScriptInv

LEMMA RenounceKeeps ==
  ASSUME Scripted, NEW r \in Roles, NEW a \in Accounts, Renounce(r, a)
  PROVE  Scripted'
<1>1. /\ member' = [member EXCEPT ![r] = member[r] \ {a}]
      /\ UNCHANGED <<deployed, bound, script>>
  BY DEF Renounce, Write
<1>2. member' \in [Roles -> SUBSET Accounts] BY <1>1 DEF Scripted
<1>3. \A x \in Roles : member'[x] \subseteq member[x] BY <1>1 DEF Scripted
<1>4. "sourceAdmin" \in Roles BY DEF Roles, RegistryRoles
<1> QED BY <1>1, <1>2, <1>3, <1>4 DEF Scripted, ScriptInv

LEMMA ScriptsKeep ==
  ASSUME Scripted,
         \/ StartCore \/ ResumeCore \/ StartHandOver \/ BindFactory \/ ScriptStops
  PROVE  Scripted'
<1>1. CASE StartCore
  BY <1>1 DEF StartCore, chain, Scripted, ScriptInv
<1>2. CASE ResumeCore
  <2>1. UNCHANGED <<deployed, bound, member>> /\ ~bound BY <1>2 DEF ResumeCore, chain
  <2>2. PICK n : script' = [name |-> "core", next |-> n] BY <1>2 DEF ResumeCore
  <2> QED BY <2>1, <2>2 DEF Scripted, ScriptInv
<1>3. CASE StartHandOver
  <2>1. bound BY <1>3, HandOverNeedsBind DEF StartHandOver
  <2>2. UNCHANGED <<deployed, bound, member>> BY <1>3 DEF StartHandOver, chain
  <2>3. script' = [name |-> "handOver", next |-> 1] BY <1>3 DEF StartHandOver
  <2>4. ScriptInv' BY <2>1, <2>2, <2>3 DEF ScriptInv
  <2> QED BY <2>1, <2>2, <2>4 DEF Scripted
<1>4. CASE BindFactory
  <2>1. /\ Deployer \in member["registryAdmin"] /\ bound' = TRUE /\ script' = Idle
        /\ UNCHANGED <<deployed, member>>
    BY <1>4 DEF BindFactory
  <2>2. "registryAdmin" \in Roles BY DEF Roles, RegistryRoles
  <2>3. DOMAIN deployed # {} BY <2>1, <2>2 DEF Scripted
  <2> QED BY <2>1, <2>3 DEF Scripted, ScriptInv, Idle
<1>5. CASE ScriptStops
  BY <1>5 DEF ScriptStops, chain, Idle, Scripted, ScriptInv
<1> QED BY <1>1, <1>2, <1>3, <1>4, <1>5

\* The steps that touch neither the roles nor the scripts.
LEMMA IdleKeeps ==
  ASSUME Scripted, UNCHANGED <<deployed, bound, member, script>>
  PROVE  Scripted'
BY DEF Scripted, ScriptInv

LEMMA ScriptedStep ==
  ASSUME DeploymentAssumption, Scripted, [Next]_vars
  PROVE  Scripted'
<1>1. CASE \/ StartCore \/ ResumeCore \/ StartHandOver \/ BindFactory \/ ScriptStops
  BY <1>1, ScriptsKeep
<1>2. CASE \E c \in Contracts : Deploy(c)
  BY <1>2, DeployKeeps
<1>3. CASE HandOverStep
  BY <1>3, HandOverStepKeeps
<1>4. CASE \E type \in {"granted", "revoked"}, r \in Roles, a \in Operable, s \in Accounts :
             ByHand(type, r, a, s)
  BY <1>4, ByHandKeeps
<1>5. CASE \E r \in Roles, a \in Accounts : Renounce(r, a)
  BY <1>5, RenounceKeeps
<1>6. CASE \E a \in Accounts : PauseCreation(a)
  BY <1>6, IdleKeeps DEF PauseCreation
<1>7. CASE \E o \in Offers, a \in Accounts : CreateSource(o, a) \/ UpdateSource(o, a)
  BY <1>7, IdleKeeps DEF CreateSource, UpdateSource, WriteSource
<1>8. CASE \E v \in Vouchers, s \in Accounts : CreateAndFund(v, s)
  BY <1>8, IdleKeeps DEF CreateAndFund, chain
<1>9. CASE SealBlock
  BY <1>9, IdleKeeps DEF SealBlock
<1>10. CASE \/ Finalize \/ Read \/ RequestFails
            \/ \E b \in 1 .. Len(past), tag \in {"finalized", "pinned"} : StartCheck(b, tag)
  BY <1>10, IdleKeeps DEF Finalize, Read, RequestFails, StartCheck, chain
<1>11. CASE UNCHANGED vars
  BY <1>11, IdleKeeps DEF vars
<1> QED BY <1>1, <1>2, <1>3, <1>4, <1>5, <1>6, <1>7, <1>8, <1>9, <1>10, <1>11
        DEF Next, ChainStep

--------------------------------------------------------------------------------
(* The scripts and the administrators.                                             *)

\* Until a role is changed by hand, the administrator of a contract is still there,
\* or its successor is already, and the script that removes the one has granted the
\* other the role before.
Governed ==
  /\ ops \in Nat
  /\ ops = 0 => /\ Live("factory") => member["factoryAdmin"] # {}
                /\ Live("registry") => member["registryAdmin"] # {}
  /\ (ops = 0 /\ script.name = "handOver") =>
        /\ Expected["factoryAdmin"] # Deployer /\ Expected["registryAdmin"] # Deployer
        /\ script.next > 1 => Expected["factoryAdmin"] \in member["factoryAdmin"]
        /\ script.next > 5 => Expected["registryAdmin"] \in member["registryAdmin"]

LEMMA AdminsAreRoles ==
  /\ "factoryAdmin" \in Roles /\ "registryAdmin" \in Roles
BY DEF Roles, FactoryRoles, RegistryRoles

\* The first four transactions grant roles of the factory.
LEMMA FirstFour ==
  ASSUME NEW j \in 1 .. 4
  PROVE  HandOver[j].type = "granted" /\ HandOver[j].role # "registryAdmin"
BY DEF HandOver

LEMMA RolesAfterFour ==
  /\ RolesAfter(0)["factoryAdmin"] = member["factoryAdmin"]
  /\ RolesAfter(0)["registryAdmin"] = member["registryAdmin"]
  /\ RolesAfter(4)["registryAdmin"] = member["registryAdmin"]
  /\ member["factoryAdmin"] \subseteq RolesAfter(4)["factoryAdmin"]
<1> DEFINE To(n, r, type) ==
      {HandOver[i].to : i \in {j \in 1 .. n : /\ HandOver[j].type = type
                                              /\ HandOver[j].role = r}}
<1>1. \A n \in {0, 4} : \A r \in Roles :
        RolesAfter(n)[r] = (member[r] \cup To(n, r, "granted")) \ To(n, r, "revoked")
  BY DEF RolesAfter
<1>2. \A r, type : To(0, r, type) = {} OBVIOUS
<1>3. \A r : To(4, r, "revoked") = {} BY FirstFour
<1>4. To(4, "registryAdmin", "granted") = {} BY FirstFour
<1> HIDE DEF To
<1> QED BY <1>1, <1>2, <1>3, <1>4, AdminsAreRoles

\* A hand-over that forge lets through goes to administrators of their own.
LEMMA SuccessorsAreNew ==
  ASSUME bound, HandOverSimulates
  PROVE  Expected["factoryAdmin"] # Deployer /\ Expected["registryAdmin"] # Deployer
<1>1. 1 \in DOMAIN HandOver /\ 5 \in DOMAIN HandOver BY DEF HandOver
<1>2. /\ HandOver[1].type = "granted" /\ HandOver[1].role = "factoryAdmin"
      /\ HandOver[1].to = Expected["factoryAdmin"]
      /\ HandOver[5].type = "granted" /\ HandOver[5].role = "registryAdmin"
      /\ HandOver[5].to = Expected["registryAdmin"]
  BY DEF HandOver
<1>3. /\ Deployer \in RolesAfter(0)[AdminOf("factoryAdmin")]
      /\ MayGrant(RolesAfter(0), bound, "factoryAdmin", Expected["factoryAdmin"])
  <2>1. Permitted(RolesAfter(1 - 1), bound, HandOver[1].type, HandOver[1].role,
                  HandOver[1].to, Deployer)
    BY <1>1 DEF HandOverSimulates
  <2>2. 1 - 1 = 0 OBVIOUS
  <2> QED BY <2>1, <2>2, <1>2 DEF Permitted
<1>4. /\ Deployer \in RolesAfter(4)[AdminOf("registryAdmin")]
      /\ MayGrant(RolesAfter(4), bound, "registryAdmin", Expected["registryAdmin"])
  <2>1. Permitted(RolesAfter(5 - 1), bound, HandOver[5].type, HandOver[5].role,
                  HandOver[5].to, Deployer)
    BY <1>1 DEF HandOverSimulates
  <2>2. 5 - 1 = 4 OBVIOUS
  <2> QED BY <2>1, <2>2, <1>2 DEF Permitted
<1>5. "factoryAdmin" \in FactoryRoles /\ "registryAdmin" \in RegistryRoles
      /\ "registryAdmin" \notin FactoryRoles
  BY DEF FactoryRoles, RegistryRoles
<1>6. Deployer \in RolesAfter(0)["factoryAdmin"]
      /\ Expected["factoryAdmin"] \notin RolesAfter(0)["registryAdmin"]
  BY <1>3, <1>5 DEF AdminOf, MayGrant, FactoryAllows
<1>7. Deployer \in RolesAfter(4)["registryAdmin"]
      /\ Expected["registryAdmin"] \notin RolesAfter(4)["factoryAdmin"]
  BY <1>4, <1>5 DEF AdminOf, MayGrant, RegistryAllows
<1> QED BY <1>6, <1>7, RolesAfterFour

LEMMA GovernedHandOver ==
  ASSUME Scripted, Governed, HandOverStep
  PROVE  Governed'
<1> DEFINE s == HandOver[script.next]
<1>1. /\ script = [name |-> "handOver", next |-> script.next] /\ script.next \in 1 .. 8
      /\ member \in [Roles -> SUBSET Accounts]
  BY DEF HandOverStep, Scripted, ScriptInv
<1>2. /\ UNCHANGED <<ops, deployed>>
      /\ script' = IF script.next = 8 THEN Idle ELSE [script EXCEPT !.next = @ + 1]
  BY DEF HandOverStep, Change, HandOver
<1>3. member' = [member EXCEPT ![s.role] =
                   IF s.type = "granted" THEN member[s.role] \cup {s.to}
                   ELSE member[s.role] \ {s.to}]
  BY DEF HandOverStep, Change, Write
<1>4. SUFFICES ASSUME ops = 0 PROVE Governed'
  BY <1>2 DEF Governed
<1> DEFINE fa == "factoryAdmin" ra == "registryAdmin"
<1>5. /\ Expected[fa] # Deployer /\ Expected[ra] # Deployer
      /\ script.next > 1 => Expected[fa] \in member[fa]
      /\ script.next > 5 => Expected[ra] \in member[ra]
      /\ Live("factory") => member[fa] # {}
      /\ Live("registry") => member[ra] # {}
  BY <1>1, <1>4 DEF Governed
<1>6. /\ s.type \in {"granted", "revoked"}
      /\ s.type = "revoked" => s.to = Deployer /\ script.next > 6
      /\ script.next = 1 => s.role = fa /\ s.to = Expected[fa] /\ s.type = "granted"
      /\ script.next = 5 => s.role = ra /\ s.to = Expected[ra] /\ s.type = "granted"
  BY <1>1 DEF HandOver
<1> HIDE DEF s
<1>7. /\ script.next >= 1 => Expected[fa] \in member'[fa]
      /\ script.next >= 5 => Expected[ra] \in member'[ra]
  <2>1. CASE s.type = "granted"
    <3>1. \A r \in Roles : member[r] \subseteq member'[r] BY <2>1, <1>1, <1>3
    <3>2. s.role \in Roles => s.to \in member'[s.role] BY <2>1, <1>1, <1>3
    <3> QED BY <3>1, <3>2, <1>1, <1>5, <1>6, AdminsAreRoles
  <2>2. CASE s.type = "revoked"
    <3>1. \A r \in Roles : member[r] \ {Deployer} \subseteq member'[r]
      BY <2>2, <1>1, <1>3, <1>6
    <3>2. script.next > 6 BY <2>2, <1>6
    <3> QED BY <3>1, <3>2, <1>1, <1>5, AdminsAreRoles
  <2> QED BY <2>1, <2>2, <1>6
<1>8. member'[ra] # {} \/ member[ra] = {}
  <2>1. CASE script.next >= 5 BY <2>1, <1>7
  <2>2. CASE script.next < 5
    <3>1. s.type = "granted" BY <2>2, <1>1, <1>6
    <3> QED BY <3>1, <1>1, <1>3, AdminsAreRoles
  <2> QED BY <2>1, <2>2, <1>1
<1>9. script'.name = "handOver" => script'.next = script.next + 1 BY <1>1, <1>2 DEF Idle
<1> QED BY <1>1, <1>2, <1>5, <1>7, <1>8, <1>9 DEF Governed, Live

LEMMA GovernedScripts ==
  ASSUME Scripted, Governed, StartCore \/ ResumeCore \/ StartHandOver \/ BindFactory
                                \/ ScriptStops
  PROVE  Governed'
<1>1. /\ UNCHANGED <<ops, deployed, member>>
      /\ script'.name = "handOver" => StartHandOver
  BY DEF StartCore, ResumeCore, StartHandOver, BindFactory, ScriptStops, chain, Idle
<1>2. StartHandOver => script'.next = 1 BY DEF StartHandOver
<1>3. StartHandOver => bound /\ HandOverSimulates
  BY HandOverNeedsBind DEF StartHandOver
<1>4. StartHandOver => Expected["factoryAdmin"] # Deployer
                       /\ Expected["registryAdmin"] # Deployer
  BY <1>3, SuccessorsAreNew
<1> QED BY <1>1, <1>2, <1>4 DEF Governed, Live

LEMMA GovernedDeploy ==
  ASSUME Scripted, Governed, NEW c \in Contracts, Deploy(c)
  PROVE  Governed'
<1>1. /\ ops' = ops /\ DOMAIN deployed' = DOMAIN deployed \cup {c}
      /\ script.name = "core" /\ script = [name |-> script.name, next |-> script.next]
      /\ member \in [Roles -> SUBSET Accounts]
  BY DEF Deploy, Scripted, ScriptInv
<1>2. script'.name = "core" BY <1>1 DEF Deploy
<1>3. /\ \A r \in Roles : member[r] \subseteq member'[r]
      /\ c = "factory" => member'["factoryAdmin"] # {}
      /\ c = "registry" => member'["registryAdmin"] # {}
  BY <1>1, AdminsAreRoles DEF Deploy, Write
<1> QED BY <1>1, <1>2, <1>3, AdminsAreRoles DEF Governed, Live

\* The steps of administrators and of everybody else.
LEMMA GovernedOthers ==
  ASSUME Governed, \/ ops' = ops + 1
                   \/ UNCHANGED <<ops, deployed, member, script>>
  PROVE  Governed'
<1>1. CASE ops' = ops + 1
  BY <1>1 DEF Governed
<1>2. CASE UNCHANGED <<ops, deployed, member, script>>
  BY <1>2 DEF Governed, Live
<1> QED BY <1>1, <1>2

LEMMA GovernedStep ==
  ASSUME DeploymentAssumption, Scripted, Governed, [Next]_vars
  PROVE  Governed'
<1>1. CASE StartCore \/ ResumeCore \/ StartHandOver \/ BindFactory \/ ScriptStops
  BY <1>1, GovernedScripts
<1>2. CASE \E c \in Contracts : Deploy(c)
  BY <1>2, GovernedDeploy
<1>3. CASE HandOverStep
  BY <1>3, GovernedHandOver
<1>4. CASE \/ \E type \in {"granted", "revoked"}, r \in Roles, a \in Operable, s \in Accounts :
                ByHand(type, r, a, s)
           \/ \E r \in Roles, a \in Accounts : Renounce(r, a)
           \/ \E a \in Accounts : PauseCreation(a)
           \/ \E o \in Offers, a \in Accounts : CreateSource(o, a) \/ UpdateSource(o, a)
  <2>1. ops' = ops + 1
    BY <1>4 DEF ByHand, Renounce, PauseCreation, CreateSource, UpdateSource, WriteSource
  <2> QED BY <2>1, GovernedOthers
<1>5. CASE \/ \E v \in Vouchers, s \in Accounts : CreateAndFund(v, s)
           \/ SealBlock \/ Finalize \/ Read \/ RequestFails
           \/ \E b \in 1 .. Len(past), tag \in {"finalized", "pinned"} : StartCheck(b, tag)
           \/ UNCHANGED vars
  <2>1. UNCHANGED <<ops, deployed, member, script>>
    BY <1>5 DEF CreateAndFund, SealBlock, Finalize, Read, RequestFails, StartCheck, chain, vars
  <2> QED BY <2>1, GovernedOthers
<1> QED BY <1>1, <1>2, <1>3, <1>4, <1>5 DEF Next, ChainStep

\* Wherever deployCore or transferRoles stops, and as often as they are started
\* again, each contract has an administrator: the last two transactions revoke what
\* earlier ones of the same run gave to another account.
THEOREM ScriptsKeepAnAdministrator ==
  ASSUME DeploymentAssumption
  PROVE  Spec => []ScriptKeepsAnAdministrator
<1>1. ASSUME Init PROVE Scripted /\ Governed
  <2>1. deployed = <<>> /\ ops = 0 /\ script = Idle BY <1>1 DEF Init
  <2>2. DOMAIN deployed = 1 .. 0 BY <2>1, Len(<<>>) = 0
  <2>3. ~Live("factory") /\ ~Live("registry") BY <2>2 DEF Live
  <2> QED BY <1>1, <2>1, <2>3, ScriptedInit DEF Governed, Idle
<1>2. Scripted /\ Governed /\ [Next]_vars => (Scripted /\ Governed)'
  BY ScriptedStep, GovernedStep
<1>3. Governed => ScriptKeepsAnAdministrator
  BY DEF Governed, ScriptKeepsAnAdministrator
<1> QED BY <1>1, <1>2, <1>3, PTL DEF Spec

--------------------------------------------------------------------------------
(* Funding and the hand-over.                                                      *)

\* No final role is the deployer's: deployment-preflight-gate.mjs refuses such a plan
\* before the deployment, deployment-evidence-package.mjs such a manifest after it.
FinalRolesAreOthers == \A r \in Roles : Expected[r] # Deployer

Complete == \A r \in Roles : member[r] = {Expected[r]}

\* As long as nobody has changed anything by hand: nobody but the deployer and the
\* accounts of the manifest has a role; the deployer administers the registry until
\* the hand-over is complete; and a hand-over that is under way has done all its
\* transactions up to the next one.
HandOverInv ==
  /\ ops \in Nat
  /\ ops = 0 =>
       /\ \A r \in Roles :
            member[r] \subseteq IF r \in {"factoryAdmin", "registryAdmin"}
                                THEN {Expected[r], Deployer} ELSE {Expected[r]}
       /\ bound => Complete \/ Deployer \in member["registryAdmin"]
       /\ script.name = "handOver" =>
            /\ Deployer \in member["registryAdmin"]
            /\ \A i \in 1 .. 6 : i < script.next => HandOver[i].to \in member[HandOver[i].role]
            /\ script.next = 8 => Deployer \notin member["factoryAdmin"]
       /\ funded # {} => bound /\ Complete

\* The six grants are of the six roles, to the accounts of the manifest.
LEMMA GrantsOfHandOver ==
  /\ Len(HandOver) = 8
  /\ \A i \in 1 .. 6 : /\ HandOver[i].type = "granted" /\ HandOver[i].role \in Roles
                       /\ HandOver[i].to = Expected[HandOver[i].role]
  /\ \A r \in Roles : \E i \in 1 .. 6 : HandOver[i].role = r
  /\ HandOver[7].type = "revoked" /\ HandOver[7].role = "factoryAdmin"
  /\ HandOver[7].to = Deployer
  /\ HandOver[8].type = "revoked" /\ HandOver[8].role = "registryAdmin"
  /\ HandOver[8].to = Deployer
<1>1. \A i \in 1 .. 6 : i \in {1, 2, 3, 4, 5, 6} OBVIOUS
<1>2. /\ Len(HandOver) = 8
      /\ HandOver[1] = [type |-> "granted", role |-> "factoryAdmin", to |-> Expected["factoryAdmin"]]
      /\ HandOver[2] = [type |-> "granted", role |-> "fundingSigner", to |-> Expected["fundingSigner"]]
      /\ HandOver[3] = [type |-> "granted", role |-> "intentSigner", to |-> Expected["intentSigner"]]
      /\ HandOver[4] = [type |-> "granted", role |-> "settler", to |-> Expected["settler"]]
      /\ HandOver[5] = [type |-> "granted", role |-> "registryAdmin", to |-> Expected["registryAdmin"]]
      /\ HandOver[6] = [type |-> "granted", role |-> "sourceAdmin", to |-> Expected["sourceAdmin"]]
      /\ HandOver[7] = [type |-> "revoked", role |-> "factoryAdmin", to |-> Deployer]
      /\ HandOver[8] = [type |-> "revoked", role |-> "registryAdmin", to |-> Deployer]
  BY DEF HandOver
<1>3. \A r \in Roles : \E i \in 1 .. 6 : HandOver[i].role = r
  <2>1. 1 \in 1 .. 6 /\ 2 \in 1 .. 6 /\ 3 \in 1 .. 6 /\ 4 \in 1 .. 6 /\ 5 \in 1 .. 6 /\ 6 \in 1 .. 6
    OBVIOUS
  <2> QED BY <1>2, <2>1 DEF Roles, FactoryRoles, RegistryRoles
<1>4. \A i \in 1 .. 6 : /\ HandOver[i].type = "granted" /\ HandOver[i].role \in Roles
                        /\ HandOver[i].to = Expected[HandOver[i].role]
  BY <1>1, <1>2 DEF Roles, FactoryRoles, RegistryRoles
<1> QED BY <1>2, <1>3, <1>4

\* A hand-over starts only with the deployer as the registry's administrator.
LEMMA SimulatedByTheDeployer ==
  ASSUME HandOverSimulates
  PROVE  Deployer \in member["registryAdmin"]
<1>1. 5 \in DOMAIN HandOver BY DEF HandOver
<1>2. HandOver[5].role = "registryAdmin" BY DEF HandOver
<1>3. Deployer \in RolesAfter(4)[AdminOf("registryAdmin")]
  <2>1. Permitted(RolesAfter(5 - 1), bound, HandOver[5].type, HandOver[5].role,
                  HandOver[5].to, Deployer)
    BY <1>1 DEF HandOverSimulates
  <2>2. 5 - 1 = 4 OBVIOUS
  <2> QED BY <2>1, <2>2, <1>2 DEF Permitted
<1>4. AdminOf("registryAdmin") = "registryAdmin" BY DEF AdminOf, FactoryRoles
<1> QED BY <1>3, <1>4, RolesAfterFour

LEMMA HandOverStepOfInv ==
  ASSUME DeploymentAssumption, FinalRolesAreOthers, Scripted, HandOverInv, HandOverStep
  PROVE  HandOverInv'
<1> DEFINE n == script.next
           s == HandOver[n]
<1>1. /\ script = [name |-> "handOver", next |-> n] /\ n \in 1 .. 8
      /\ member \in [Roles -> SUBSET Accounts] /\ bound
  BY DEF HandOverStep, Scripted, ScriptInv
<1>2. /\ UNCHANGED <<ops, bound, funded>>
      /\ script' = IF n = 8 THEN Idle ELSE [script EXCEPT !.next = @ + 1]
  BY GrantsOfHandOver DEF HandOverStep, Change
<1>3. member' = [member EXCEPT ![s.role] =
                   IF s.type = "granted" THEN member[s.role] \cup {s.to}
                   ELSE member[s.role] \ {s.to}]
  BY DEF HandOverStep, Change, Write
<1>4. SUFFICES ASSUME ops = 0 PROVE HandOverInv'
  BY <1>2 DEF HandOverInv
<1>5. /\ \A r \in Roles :
            member[r] \subseteq IF r \in {"factoryAdmin", "registryAdmin"}
                                THEN {Expected[r], Deployer} ELSE {Expected[r]}
      /\ Deployer \in member["registryAdmin"]
      /\ \A i \in 1 .. 6 : i < n => HandOver[i].to \in member[HandOver[i].role]
      /\ n = 8 => Deployer \notin member["factoryAdmin"]
      /\ funded # {} => Complete
  BY <1>1, <1>4 DEF HandOverInv
<1>6. funded = {} /\ funded' = {}
  <2>1. ~Complete
    <3>1. Expected["registryAdmin"] # Deployer BY AdminsAreRoles DEF FinalRolesAreOthers
    <3> QED BY <1>5, <3>1, AdminsAreRoles DEF Complete
  <2> QED BY <1>2, <1>5, <2>1
<1>7. CASE n \in 1 .. 6
  <2>1. s.type = "granted" /\ s.role \in Roles /\ s.to = Expected[s.role]
    BY <1>7, GrantsOfHandOver
  <2>2. script' = [name |-> "handOver", next |-> n + 1] BY <1>1, <1>2, <1>7
  <2> HIDE DEF s
  <2>3. /\ \A r \in Roles : member[r] \subseteq member'[r]
        /\ \A r \in Roles : member'[r] \subseteq member[r] \cup {Expected[r]}
        /\ s.to \in member'[s.role]
    BY <1>1, <1>3, <2>1
  <2>4. \A i \in 1 .. 6 : i < n + 1 => HandOver[i].to \in member'[HandOver[i].role]
    <3> SUFFICES ASSUME NEW i \in 1 .. 6, i < n + 1
                 PROVE  HandOver[i].to \in member'[HandOver[i].role]
      OBVIOUS
    <3>1. CASE i = n BY <2>3, <3>1 DEF s
    <3>2. CASE i # n
      <4>1. i < n BY <1>7, <3>2
      <4>2. HandOver[i].to \in member[HandOver[i].role] BY <1>5, <4>1
      <4>3. HandOver[i].role \in Roles BY GrantsOfHandOver
      <4> QED BY <2>3, <4>2, <4>3
    <3> QED BY <3>1, <3>2
  <2>5. \A r \in Roles :
          member'[r] \subseteq IF r \in {"factoryAdmin", "registryAdmin"}
                               THEN {Expected[r], Deployer} ELSE {Expected[r]}
    BY <1>5, <2>3
  <2>6. Deployer \in member'["registryAdmin"] BY <1>5, <2>3, AdminsAreRoles
  <2>7. n + 1 # 8 BY <1>7
  <2>8. /\ ops' = 0 /\ ops' \in Nat /\ script'.name = "handOver" /\ script'.next = n + 1
    BY <1>2, <1>4, <2>2
  <2> HIDE DEF n
  <2> QED BY <1>6, <2>4, <2>5, <2>6, <2>7, <2>8 DEF HandOverInv
<1>8. CASE n = 7
  <2>1. member' = [member EXCEPT !["factoryAdmin"] = member["factoryAdmin"] \ {Deployer}]
    BY <1>3, <1>8, GrantsOfHandOver
  <2>2. script' = [name |-> "handOver", next |-> 8] BY <1>1, <1>2, <1>8
  <2>3. /\ \A r \in Roles : member'[r] \subseteq member[r] /\ member[r] \ {Deployer} \subseteq member'[r]
        /\ Deployer \notin member'["factoryAdmin"]
        /\ member'["registryAdmin"] = member["registryAdmin"]
    BY <1>1, <2>1, AdminsAreRoles
  <2>4. \A i \in 1 .. 6 : HandOver[i].to \in member'[HandOver[i].role]
    <3> SUFFICES ASSUME NEW i \in 1 .. 6 PROVE HandOver[i].to \in member'[HandOver[i].role]
      OBVIOUS
    <3>1. /\ HandOver[i].role \in Roles /\ HandOver[i].to = Expected[HandOver[i].role]
          /\ HandOver[i].to \in member[HandOver[i].role]
      BY <1>5, <1>8, GrantsOfHandOver
    <3>2. HandOver[i].to # Deployer BY <3>1 DEF FinalRolesAreOthers
    <3> QED BY <2>3, <3>1, <3>2
  <2>5. ops' = 0 /\ ops' \in Nat /\ script'.name = "handOver" /\ script'.next = 8
    BY <1>2, <1>4, <2>2
  <2>6. \A r \in Roles :
          member'[r] \subseteq IF r \in {"factoryAdmin", "registryAdmin"}
                               THEN {Expected[r], Deployer} ELSE {Expected[r]}
    BY <1>5, <2>3
  <2> QED BY <1>5, <1>6, <2>3, <2>4, <2>5, <2>6 DEF HandOverInv
<1>9. CASE n = 8
  <2>1. member' = [member EXCEPT !["registryAdmin"] = member["registryAdmin"] \ {Deployer}]
    BY <1>3, <1>9, GrantsOfHandOver
  <2>2. ASSUME NEW r \in Roles PROVE member'[r] = {Expected[r]}
    <3>1. PICK i \in 1 .. 6 : HandOver[i].role = r BY GrantsOfHandOver
    <3>2. Expected[r] \in member[r] /\ Expected[r] # Deployer
      BY <1>5, <1>9, <3>1, GrantsOfHandOver DEF FinalRolesAreOthers
    <3>3. CASE r = "registryAdmin" BY <1>1, <1>5, <2>1, <3>2, <3>3
    <3>4. CASE r # "registryAdmin"
      <4>1. member'[r] = member[r] BY <1>1, <2>1, <3>4
      <4>2. r = "factoryAdmin" => Deployer \notin member[r] BY <1>5, <1>9
      <4> QED BY <1>5, <3>2, <3>4, <4>1, <4>2
    <3> QED BY <3>3, <3>4
  <2>3. Complete' BY <2>2 DEF Complete
  <2>4. script'.name = "none" /\ ops' = 0 /\ ops' \in Nat BY <1>2, <1>4, <1>9 DEF Idle
  <2>5. \A r \in Roles :
          member'[r] \subseteq IF r \in {"factoryAdmin", "registryAdmin"}
                               THEN {Expected[r], Deployer} ELSE {Expected[r]}
    BY <2>2
  <2> QED BY <1>6, <2>3, <2>4, <2>5 DEF HandOverInv
<1> QED BY <1>1, <1>7, <1>8, <1>9

\* The scripts start, stop, deploy and bind.
LEMMA HandOverInvScripts ==
  ASSUME DeploymentAssumption, Scripted, HandOverInv,
         \/ StartCore \/ ResumeCore \/ StartHandOver \/ BindFactory \/ ScriptStops
  PROVE  HandOverInv'
<1>1. /\ UNCHANGED <<ops, member, funded>>
      /\ script'.name = "handOver" => StartHandOver
      /\ bound' # bound => BindFactory
  BY DEF StartCore, ResumeCore, StartHandOver, BindFactory, ScriptStops, chain, Idle
<1>2. StartHandOver => script'.next = 1 /\ Deployer \in member["registryAdmin"]
  BY SimulatedByTheDeployer DEF StartHandOver
<1>3. BindFactory => bound' /\ Deployer \in member["registryAdmin"] BY DEF BindFactory
<1>4. \A i \in 1 .. 6 : ~(i < 1) OBVIOUS
<1>5. Complete' <=> Complete BY <1>1 DEF Complete
<1>6. bound => bound' BY <1>1, <1>3
<1> QED BY <1>1, <1>2, <1>3, <1>4, <1>5, <1>6 DEF HandOverInv

LEMMA HandOverInvDeploy ==
  ASSUME DeploymentAssumption, Scripted, HandOverInv, NEW c \in Contracts, Deploy(c)
  PROVE  HandOverInv'
<1>1. /\ UNCHANGED <<ops, funded, bound>> /\ ~bound
      /\ script.name = "core" /\ script = [name |-> script.name, next |-> script.next]
      /\ member \in [Roles -> SUBSET Accounts]
  BY DEF Deploy, Scripted, ScriptInv
<1>2. script'.name = "core" BY <1>1 DEF Deploy
<1>3. /\ \A r \in Roles \ {"factoryAdmin", "registryAdmin"} : member'[r] = member[r]
      /\ \A r \in Roles : member'[r] \subseteq member[r] \cup {Deployer}
  BY <1>1, AdminsAreRoles DEF Deploy, Write, Contracts
<1> QED BY <1>1, <1>2, <1>3 DEF HandOverInv

LEMMA HandOverInvFunds ==
  ASSUME HandOverInv, NEW v, NEW signer, CreateAndFund(v, signer)
  PROVE  HandOverInv'
<1>1. UNCHANGED <<ops, member, bound, script>> /\ bound /\ HeldBy(Deployer) = {}
  BY DEF CreateAndFund, FundingGateOpen, chain
<1>2. Deployer \notin member["registryAdmin"] BY <1>1, AdminsAreRoles DEF HeldBy
<1>3. ops = 0 => Complete BY <1>1, <1>2 DEF HandOverInv
<1> QED BY <1>1, <1>3 DEF HandOverInv, Complete

LEMMA HandOverInvStep ==
  ASSUME DeploymentAssumption, FinalRolesAreOthers, Scripted, HandOverInv, [Next]_vars
  PROVE  HandOverInv'
<1>1. CASE \/ StartCore \/ ResumeCore \/ StartHandOver \/ BindFactory \/ ScriptStops
  BY <1>1, HandOverInvScripts
<1>2. CASE \E c \in Contracts : Deploy(c)
  BY <1>2, HandOverInvDeploy
<1>3. CASE HandOverStep
  BY <1>3, HandOverStepOfInv
<1>4. CASE \/ \E type \in {"granted", "revoked"}, r \in Roles, a \in Operable, s \in Accounts :
                ByHand(type, r, a, s)
           \/ \E r \in Roles, a \in Accounts : Renounce(r, a)
           \/ \E a \in Accounts : PauseCreation(a)
           \/ \E o \in Offers, a \in Accounts : CreateSource(o, a) \/ UpdateSource(o, a)
  <2>1. ops' = ops + 1
    BY <1>4 DEF ByHand, Renounce, PauseCreation, CreateSource, UpdateSource, WriteSource
  <2> QED BY <2>1 DEF HandOverInv
<1>5. CASE \E v \in Vouchers, s \in Accounts : CreateAndFund(v, s)
  BY <1>5, HandOverInvFunds
<1>6. CASE \/ SealBlock \/ Finalize \/ Read \/ RequestFails
           \/ \E b \in 1 .. Len(past), tag \in {"finalized", "pinned"} : StartCheck(b, tag)
           \/ UNCHANGED vars
  <2>1. UNCHANGED <<ops, bound, member, script, funded>>
    BY <1>6 DEF SealBlock, Finalize, Read, RequestFails, StartCheck, chain, vars
  <2> QED BY <2>1 DEF HandOverInv, Complete
<1> QED BY <1>1, <1>2, <1>3, <1>4, <1>5, <1>6 DEF Next, ChainStep

\* Money waits for the whole hand-over: transferRoles grants everything before it
\* revokes, and revokes the registry's administrator last, so the gate of
\* createAndFund, which asks only for the deployer, opens when all is done, after any
\* number of interrupted and repeated runs.
THEOREM MoneyWaitsForTheHandOver ==
  ASSUME DeploymentAssumption, FinalRolesAreOthers
  PROVE  Spec => []FundedAfterHandOver
<1>1. Init => Scripted /\ HandOverInv
  <2>1. Init => HandOverInv BY AdminsAreRoles DEF Init, HandOverInv, Idle
  <2> QED BY <2>1, ScriptedInit
<1>2. Scripted /\ HandOverInv /\ [Next]_vars => (Scripted /\ HandOverInv)'
  BY ScriptedStep, HandOverInvStep
<1>3. HandOverInv => FundedAfterHandOver
  BY DEF HandOverInv, FundedAfterHandOver, Complete
<1> QED BY <1>1, <1>2, <1>3, PTL DEF Spec

--------------------------------------------------------------------------------
(* Replaying the log.  A fold over the events, in their order, is what the last    *)
(* event of each account says, by the smallest counterexample: of the sets of      *)
(* events that falsify it one has no smaller one.                                  *)

LEMMA Smallest ==
  ASSUME NEW S, IsFiniteSet(S), NEW C \in SUBSET (SUBSET S), C # {}
  PROVE  \E m \in C : \A u \in C : u \subseteq m => u = m
<1>1. IsWellFoundedOn(StrictSubsetOrdering(S), SUBSET S)
  BY FS_StrictSubsetOrderingWellFounded, FS_FiniteSubsetsOfFinite
<1>2. PICK m \in C : \A u \in C : <<u, m>> \notin StrictSubsetOrdering(S)
  BY <1>1, WFMin
<1>3. ASSUME NEW u \in C, u \subseteq m PROVE u = m
  BY <1>2, <1>3 DEF StrictSubsetOrdering
<1> QED BY <1>3

\* (A name of its own, for the provers.)
Numbers(s) == s \subseteq Nat

\* Max, which the fold takes first, is the largest.
LEMMA MaxIsLargest ==
  ASSUME NEW s, IsFiniteSet(s), Numbers(s), s # {}
  PROVE  Max(s) \in s /\ \A y \in s : y <= Max(s)
<1> DEFINE From(x) == {y \in s : y >= x}
           C == {From(x) : x \in s}
<1>1. /\ C \in SUBSET (SUBSET s) /\ C # {}
      /\ \A x \in s : From(x) \in C
      /\ \A u \in C : \E x \in s : u = From(x)
  OBVIOUS
<1> HIDE DEF C
<1>2. PICK m \in C : \A u \in C : u \subseteq m => u = m BY <1>1, Smallest
<1>3. PICK x \in s : m = From(x) BY <1>1
<1>4. ASSUME NEW y \in s PROVE x >= y
  <2>1. x \in Nat /\ y \in Nat BY DEF Numbers
  <2> SUFFICES ASSUME y > x PROVE FALSE BY <2>1
  <2>2. From(y) \in C BY <1>1
  <2>3. From(y) \subseteq From(x)
    <3>1. \A z \in s : z >= y => z >= x BY <2>1
    <3> QED BY <3>1
  <2>4. x \in From(x) /\ x \notin From(y) BY <2>1
  <2> QED BY <1>2, <1>3, <2>2, <2>3, <2>4
<1>5. \E z \in s : \A y \in s : z >= y BY <1>4
<1>6. Max(s) \in s /\ \A y \in s : Max(s) >= y BY <1>5 DEF Max
<1> QED BY <1>6

Says(l, i, r, a) == l[i].role = r /\ l[i].account = a

\* Whose last event among those at the positions of s is a grant of the role r.
Lasting(l, s, r) ==
  {a \in Accounts : \E i \in s : /\ Says(l, i, r, a) /\ l[i].type = "granted"
                                 /\ \A j \in s : j > i /\ Says(l, j, r, a)
                                                   => l[j].type = "granted"}

\* What an event does to the members.
After(l, ms, i, r) ==
  IF l[i].role # r THEN ms
  ELSE IF l[i].type = "granted" THEN ms \cup {l[i].account}
  ELSE ms \ {l[i].account}

Folds(l, h, s, r) ==
  h = [u \in SUBSET s |-> IF u = {} THEN {} ELSE After(l, h[u \ {Max(u)}], Max(u), r)]

\* The latest event of a set decides about its account.
LEMMA LastingTakes ==
  ASSUME NEW l \in Seq(Events), NEW u \in SUBSET DOMAIN l, NEW r, NEW k \in u,
         \A y \in u : y <= k
  PROVE  Lasting(l, u, r) = After(l, Lasting(l, u \ {k}, r), k, r)
<1>1. \A i \in DOMAIN l : i \in Nat /\ l[i].account \in Accounts
  <2>1. \A i \in DOMAIN l : i \in Nat /\ l[i] \in Events OBVIOUS
  <2> QED BY <2>1 DEF Events
<1>2. \A i \in u \ {k} : k > i BY <1>1
<1> DEFINE e == l[k]
<1>3. CASE e.role # r
  <2>1. \A a : ~Says(l, k, r, a) BY <1>3 DEF Says
  <2>2. \A a \in Accounts : a \in Lasting(l, u, r) <=> a \in Lasting(l, u \ {k}, r)
    BY <2>1 DEF Lasting
  <2>3. Lasting(l, u, r) = Lasting(l, u \ {k}, r) BY <2>2 DEF Lasting
  <2> QED BY <1>3, <2>3 DEF After
<1>4. CASE e.role = r
  <2>1. \A a : Says(l, k, r, a) <=> a = e.account BY <1>4 DEF Says
  <2>2. ASSUME NEW a \in Accounts, a # e.account
        PROVE  a \in Lasting(l, u, r) <=> a \in Lasting(l, u \ {k}, r)
    BY <2>1, <2>2 DEF Lasting
  <2>3. e.account \in Lasting(l, u, r) <=> e.type = "granted"
    <3>1. ASSUME e.type = "granted" PROVE e.account \in Lasting(l, u, r)
      <4>1. \A j \in u : ~(j > k) BY <1>1
      <4> QED BY <1>1, <2>1, <3>1, <4>1 DEF Lasting
    <3>2. ASSUME e.account \in Lasting(l, u, r) PROVE e.type = "granted"
      <4>1. PICK i \in u : /\ Says(l, i, r, e.account) /\ l[i].type = "granted"
                           /\ \A j \in u : j > i /\ Says(l, j, r, e.account)
                                             => l[j].type = "granted"
        BY <3>2 DEF Lasting
      <4> QED BY <1>2, <2>1, <4>1
    <3> QED BY <3>1, <3>2
  <2>4. Lasting(l, u, r) \subseteq Accounts /\ Lasting(l, u \ {k}, r) \subseteq Accounts
        /\ e.account \in Accounts
    BY <1>1 DEF Lasting
  <2>5. CASE e.type = "granted"
    <3>1. Lasting(l, u, r) = Lasting(l, u \ {k}, r) \cup {e.account}
      BY <2>2, <2>3, <2>4, <2>5
    <3> QED BY <1>4, <2>5, <3>1 DEF After
  <2>6. CASE e.type # "granted"
    <3>1. Lasting(l, u, r) = Lasting(l, u \ {k}, r) \ {e.account}
      BY <2>2, <2>3, <2>4, <2>6
    <3> QED BY <1>4, <2>6, <3>1 DEF After
  <2> QED BY <2>5, <2>6
<1> QED BY <1>3, <1>4

LEMMA ReplayIsLasting ==
  ASSUME log \in Seq(Events), NEW s \in SUBSET DOMAIN log, NEW r
  PROVE  Replayed(s, r) = Lasting(log, s, r)
<1>1. /\ IsFiniteSet(s)
      /\ \A u \in SUBSET s : /\ IsFiniteSet(u) /\ Numbers(u)
                             /\ u \in SUBSET DOMAIN log
  <2>1. DOMAIN log = 1 .. Len(log) /\ Len(log) \in Nat OBVIOUS
  <2>2. IsFiniteSet(DOMAIN log) BY <2>1, FS_Interval
  <2> QED BY <2>1, <2>2, FS_Subset DEF Numbers
<1>2. ASSUME NEW u \in SUBSET s, u # {}
      PROVE  /\ Max(u) \in u
             /\ Lasting(log, u, r) = After(log, Lasting(log, u \ {Max(u)}, r), Max(u), r)
  <2>1. Max(u) \in u /\ \A y \in u : y <= Max(u) BY <1>1, <1>2, MaxIsLargest
  <2> QED BY <1>1, <2>1, LastingTakes
<1>3. Lasting(log, {}, r) = {} BY DEF Lasting
<1> DEFINE g == [u \in SUBSET s |-> Lasting(log, u, r)]
<1>4. \A u \in SUBSET s : g[u] = Lasting(log, u, r) OBVIOUS
<1>5. Folds(log, g, s, r)
  <2> DEFINE g2 == [u \in SUBSET s |-> IF u = {} THEN {}
                                       ELSE After(log, g[u \ {Max(u)}], Max(u), r)]
  <2>1. \A u \in SUBSET s : u # {} => g[u \ {Max(u)}] = Lasting(log, u \ {Max(u)}, r)
    BY <1>4
  <2>2. \A u \in SUBSET s : Lasting(log, u, r) = IF u = {} THEN {}
                                       ELSE After(log, g[u \ {Max(u)}], Max(u), r)
    <3> HIDE DEF g
    <3> QED BY <1>2, <1>3, <2>1
  <2>3. g = g2 BY <2>2
  <2> QED BY <2>3 DEF Folds
<1> HIDE DEF g
<1>6. PICK h : h = CHOOSE k : Folds(log, k, s, r) OBVIOUS
<1>7. Folds(log, h, s, r) BY <1>5, <1>6
<1>8. \A u \in SUBSET s : h[u] = IF u = {} THEN {} ELSE After(log, h[u \ {Max(u)}], Max(u), r)
  <2> DEFINE h2 == [u \in SUBSET s |-> IF u = {} THEN {}
                                       ELSE After(log, h[u \ {Max(u)}], Max(u), r)]
  <2>1. \A u \in SUBSET s :
          h2[u] = IF u = {} THEN {} ELSE After(log, h[u \ {Max(u)}], Max(u), r)
    OBVIOUS
  <2>2. h = h2 BY <1>7 DEF Folds
  <2> HIDE DEF h2
  <2> QED BY <2>1, <2>2
<1> DEFINE C == {u \in SUBSET s : h[u] # Lasting(log, u, r)}
<1>9. ASSUME C # {} PROVE FALSE
  <2>1. /\ C \in SUBSET (SUBSET s)
        /\ \A u \in SUBSET s : u \in C <=> h[u] # Lasting(log, u, r)
    OBVIOUS
  <2> HIDE DEF C
  <2>2. PICK m \in C : \A u \in C : u \subseteq m => u = m
    BY <1>1, <1>9, <2>1, Smallest
  <2>3. m \in SUBSET s /\ h[m] # Lasting(log, m, r) BY <2>1
  <2>4. m # {} BY <1>3, <1>8, <2>3
  <2>5. m \ {Max(m)} \in SUBSET s /\ m \ {Max(m)} \notin C BY <1>2, <2>2, <2>3, <2>4
  <2>6. h[m \ {Max(m)}] = Lasting(log, m \ {Max(m)}, r) BY <2>1, <2>5
  <2> QED BY <1>2, <1>8, <2>3, <2>4, <2>6
<1>10. h[s] = Lasting(log, s, r) BY <1>9
<1>11. Replayed(s, r) = (CHOOSE k : Folds(log, k, s, r))[s]
  BY DEF Replayed, MapThenFoldSet, Folds, After
<1> QED BY <1>6, <1>10, <1>11

\* Only the events of the role count.
LEMMA LastingOfRole ==
  ASSUME NEW l, NEW s, NEW t, NEW r, \A i : l[i].role = r => (i \in s <=> i \in t)
  PROVE  Lasting(l, s, r) = Lasting(l, t, r)
BY DEF Lasting, Says

--------------------------------------------------------------------------------
(* What the verifier loads, and what it read before it passed.                     *)

\* The chunks of eth_getLogs leave no block out between the first and the last.
LEMMA ChunksCover ==
  ASSUME DeploymentAssumption, NEW from \in Nat, NEW to \in Nat, NEW b \in Nat
  PROVE  (\E c \in ChunkStarts(from, to) : b \in c .. ChunkEnd(c, to)) <=> b \in from .. to
<1> DEFINE k == LogSpan + 1
<1>1. k \in Nat /\ k > 0 /\ LogSpan \in Nat BY DEF DeploymentAssumption
<1>2. ASSUME b \in from .. to
      PROVE  \E c \in ChunkStarts(from, to) : b \in c .. ChunkEnd(c, to)
  <2>1. PICK x \in Nat : x = b - from BY <1>2
  <2>2. (x - (x % k)) % k = 0 /\ x % k \in 0 .. k - 1 /\ x - (x % k) \in Nat
    <3> HIDE DEF k
    <3>1. x % k \in 0 .. k - 1 BY <1>1
    <3>2. (x - (x % k)) % k = 0 BY <1>1
    <3>3. x - (x % k) >= 0 BY <1>1
    <3> QED BY <1>1, <3>1, <3>2, <3>3
  <2>3. PICK m \in Nat : m = x % k /\ m <= LogSpan
    <3>1. \A z \in 0 .. k - 1 : z \in Nat /\ z <= LogSpan BY <1>1
    <3> QED BY <2>2, <3>1
  <2>4. PICK c \in Nat : c = from + (x - m) BY <2>2, <2>3
  <2>5. c - from = x - m /\ c = b - m /\ c >= from /\ x - m \in Nat
    <3>1. x - m \in Nat BY <2>2, <2>3
    <3>2. from \in Nat /\ b \in Nat /\ x \in Nat /\ m \in Nat BY <1>2
    <3> HIDE DEF k
    <3> QED BY ONLY <2>1, <2>4, <3>1, <3>2
  <2>6. c \in ChunkStarts(from, to)
    <3>1. (c - from) % k = 0 BY <2>2, <2>3, <2>5
    <3>2. c \in from .. to BY <1>2, <2>3, <2>5
    <3> QED BY <3>1, <3>2 DEF ChunkStarts
  <2>7. b \in c .. ChunkEnd(c, to) BY <1>1, <1>2, <2>3, <2>5 DEF ChunkEnd
  <2> QED BY <2>6, <2>7
<1>3. ASSUME NEW c \in ChunkStarts(from, to), b \in c .. ChunkEnd(c, to)
      PROVE  b \in from .. to
  BY <1>1, <1>3 DEF ChunkStarts, ChunkEnd
<1> QED BY <1>2, <1>3

LEMMA RolesHaveScopes ==
  /\ \A r \in Roles : Scope(r) \in {"factory", "registry"} /\ Scope(r) \in Contracts
  /\ \A r \in Roles : AdminOf(r) \in Roles /\ Scope(AdminOf(r)) = Scope(r)
BY DEF Roles, FactoryRoles, RegistryRoles, Scope, AdminOf, Contracts

\* A read: its kind, and what it is about.
ReadOf == {"code", "wiring", "initializer", "count", "member", "deployer", "conflict",
           "replay", "payout", "buyer"}
            \X (Roles \cup {"all", "factory", "registry"})

LEMMA Join ==
  ASSUME NEW S, NEW s \in Seq(S), NEW t \in Seq(S)
  PROVE  /\ s \o t \in Seq(S) /\ Len(s \o t) = Len(s) + Len(t)
         /\ \A i \in 1 .. Len(s) : (s \o t)[i] = s[i]
         /\ \A i \in 1 .. Len(t) : (s \o t)[Len(s) + i] = t[i]
OBVIOUS

LEMMA Triple ==
  ASSUME NEW S, NEW a \in S, NEW b \in S, NEW c \in S
  PROVE  /\ <<a, b, c>> \in Seq(S) /\ Len(<<a, b, c>>) = 3
         /\ <<a, b, c>>[1] = a /\ <<a, b, c>>[2] = b
OBVIOUS

LEMMA EachReads ==
  ASSUME NEW rs \in Seq(Roles), NEW kind, \A r \in Roles : <<kind, r>> \in ReadOf
  PROVE  Each(kind, rs) \in Seq(ReadOf)
<1>1. PICK n \in Nat : n = Len(rs) OBVIOUS
<1>2. DOMAIN rs = 1 .. n /\ \A i \in 1 .. n : rs[i] \in Roles BY <1>1
<1>3. \A i \in 1 .. n : <<kind, rs[i]>> \in ReadOf BY <1>2
<1>4. [i \in 1 .. n |-> <<kind, rs[i]>>] \in Seq(ReadOf) BY <1>3
<1> QED BY <1>2, <1>4 DEF Each

LEMMA RoleChecksAreRoles ==
  /\ RoleChecks \in Seq(Roles) /\ Len(RoleChecks) = 6 /\ DOMAIN RoleChecks = 1 .. 6
  /\ \A i \in 1 .. 6 : RoleChecks[i] \in Roles
BY DEF RoleChecks, Roles, FactoryRoles, RegistryRoles

LEMMA ConflictChecksAreRoles == ConflictChecks \in Seq(Roles)
<1> DEFINE a == SubSeq(RoleChecks, 1, 3 - 1)
           b == SubSeq(RoleChecks, 3 + 1, Len(RoleChecks))
<1>1. \A i \in 1 .. 6 : RoleChecks[i] \in Roles BY RoleChecksAreRoles
<1>2. a \in Seq(Roles)
  <2>1. 1 \in Int /\ 3 - 1 \in Int /\ \A i \in 1 .. 3 - 1 : RoleChecks[i] \in Roles
    BY <1>1
  <2> QED BY <2>1, SubSeqProperties
<1>3. b \in Seq(Roles)
  <2>1. 3 + 1 \in Int /\ Len(RoleChecks) \in Int
        /\ \A i \in 3 + 1 .. Len(RoleChecks) : RoleChecks[i] \in Roles
    BY <1>1, RoleChecksAreRoles
  <2> QED BY <2>1, SubSeqProperties
<1>4. ConflictChecks = a \o b BY DEF ConflictChecks, RemoveAt
<1> HIDE DEF a, b
<1> QED BY <1>2, <1>3, <1>4, Join

LEMMA KindsAreReads ==
  /\ \A r \in Roles : /\ <<"count", r>> \in ReadOf /\ <<"member", r>> \in ReadOf
                      /\ <<"deployer", r>> \in ReadOf /\ <<"conflict", r>> \in ReadOf
                      /\ <<"buyer", r>> \in ReadOf
  /\ <<"code", "all">> \in ReadOf /\ <<"wiring", "all">> \in ReadOf
  /\ <<"initializer", "all">> \in ReadOf /\ <<"replay", "factory">> \in ReadOf
  /\ <<"replay", "registry">> \in ReadOf /\ <<"payout", "all">> \in ReadOf
BY DEF ReadOf

Joined(f, h) == h = [i \in 1 .. 6 |-> IF i = 1 THEN f[i] ELSE h[i - 1] \o f[i]]

LEMMA JoinedExists == ASSUME NEW f PROVE \E h : Joined(f, h)
<1>1. PICK j2 : j2 = f[1] \o f[2] OBVIOUS
<1>2. PICK j3 : j3 = j2 \o f[3] OBVIOUS
<1>3. PICK j4 : j4 = j3 \o f[4] OBVIOUS
<1>4. PICK j5 : j5 = j4 \o f[5] OBVIOUS
<1>5. PICK j6 : j6 = j5 \o f[6] OBVIOUS
<1> DEFINE g == [i \in 1 .. 6 |-> CASE i = 1 -> f[1] [] i = 2 -> j2 [] i = 3 -> j3
                                    [] i = 4 -> j4 [] i = 5 -> j5 [] i = 6 -> j6]
<1>6. /\ g[1] = f[1] /\ g[2] = j2 /\ g[3] = j3 /\ g[4] = j4 /\ g[5] = j5 /\ g[6] = j6
      /\ DOMAIN g = 1 .. 6 /\ g = [i \in 1 .. 6 |-> g[i]]
  OBVIOUS
<1> HIDE DEF g
<1>7. \A i \in 1 .. 6 : i = 1 \/ i = 2 \/ i = 3 \/ i = 4 \/ i = 5 \/ i = 6 OBVIOUS
<1>8. \A i \in 1 .. 6 : g[i] = IF i = 1 THEN f[i] ELSE g[i - 1] \o f[i]
  <2> TAKE i \in 1 .. 6
  <2>1. CASE i = 1 BY <1>6, <2>1
  <2>2. CASE i = 2
    <3>1. i - 1 = 1 /\ i # 1 BY <2>2
    <3> QED BY <1>1, <1>6, <2>2, <3>1
  <2>3. CASE i = 3 BY <1>2, <1>6, <2>3
  <2>4. CASE i = 4 BY <1>3, <1>6, <2>4
  <2>5. CASE i = 5 BY <1>4, <1>6, <2>5
  <2>6. CASE i = 6 BY <1>5, <1>6, <2>6
  <2> QED BY <1>7, <2>1, <2>2, <2>3, <2>4, <2>5, <2>6
<1>9. Joined(f, g) BY <1>6, <1>8 DEF Joined
<1> QED BY <1>9

LEMMA ThreeReadsAreReads ==
  ASSUME NEW f, Len(f) = 6, \A i \in 1 .. 6 : f[i] \in Seq(ReadOf)
  PROVE  FlattenSeq(f) \in Seq(ReadOf)
<1>1. PICK h : h = CHOOSE k : Joined(f, k) OBVIOUS
<1>2. Joined(f, h) BY <1>1, JoinedExists
<1>3. \A i \in 1 .. 6 : h[i] = IF i = 1 THEN f[i] ELSE h[i - 1] \o f[i]
  <2> DEFINE g == [i \in 1 .. 6 |-> IF i = 1 THEN f[i] ELSE h[i - 1] \o f[i]]
  <2>1. \A i \in 1 .. 6 : g[i] = IF i = 1 THEN f[i] ELSE h[i - 1] \o f[i] OBVIOUS
  <2>2. h = g BY <1>2 DEF Joined
  <2> HIDE DEF g
  <2> QED BY <2>1, <2>2
<1>4. /\ h[1] = f[1] /\ h[2] = h[1] \o f[2] /\ h[3] = h[2] \o f[3]
      /\ h[4] = h[3] \o f[4] /\ h[5] = h[4] \o f[5] /\ h[6] = h[5] \o f[6]
  <2>1. ASSUME NEW i \in 1 .. 6, NEW k \in 1 .. 6, i = k + 1 PROVE h[i] = h[k] \o f[i]
    <3>1. i # 1 /\ i - 1 = k BY <2>1
    <3> QED BY <1>3, <3>1
  <2>2. h[1] = f[1] BY <1>3
  <2>3. /\ 2 = 1 + 1 /\ 3 = 2 + 1 /\ 4 = 3 + 1 /\ 5 = 4 + 1 /\ 6 = 5 + 1
        /\ {1, 2, 3, 4, 5, 6} \subseteq 1 .. 6
    OBVIOUS
  <2>4. h[2] = h[1] \o f[2] BY <2>1, <2>3
  <2>5. h[3] = h[2] \o f[3] BY <2>1, <2>3
  <2>6. h[4] = h[3] \o f[4] BY <2>1, <2>3
  <2>7. h[5] = h[4] \o f[5] BY <2>1, <2>3
  <2>8. h[6] = h[5] \o f[6] BY <2>1, <2>3
  <2> QED BY <2>2, <2>4, <2>5, <2>6, <2>7, <2>8
<1>5. h[1] \in Seq(ReadOf) BY <1>4
<1>6. h[2] \in Seq(ReadOf) BY <1>4, <1>5, Join
<1>7. h[3] \in Seq(ReadOf) BY <1>4, <1>6, Join
<1>8. h[4] \in Seq(ReadOf) BY <1>4, <1>7, Join
<1>9. h[5] \in Seq(ReadOf) BY <1>4, <1>8, Join
<1>10. h[6] \in Seq(ReadOf) BY <1>4, <1>9, Join
<1>11. FlattenSeq(f) = (CHOOSE k : Joined(f, k))[6] BY DEF FlattenSeq, Joined
<1> QED BY <1>1, <1>10, <1>11

LEMMA ReadsHaveReplays ==
  /\ Len(Reads) \in Nat
  /\ \A c \in {"factory", "registry"} : \E i \in 1 .. Len(Reads) : Reads[i] = <<"replay", c>>
<1> DEFINE A == <<<<"code", "all">>, <<"wiring", "all">>, <<"initializer", "all">>>>
           F == [i \in DOMAIN RoleChecks |-> ThreeReads(RoleChecks[i])]
           B == FlattenSeq(F)
           C == Each("conflict", ConflictChecks)
           D == <<<<"replay", "factory">>, <<"replay", "registry">>, <<"payout", "all">>>>
           E == Each("buyer", RoleChecks)
<1>1. A \in Seq(ReadOf) BY KindsAreReads, Triple
<1>2. B \in Seq(ReadOf)
  <2>1. DOMAIN RoleChecks = 1 .. 6 /\ \A i \in 1 .. 6 : RoleChecks[i] \in Roles
    BY RoleChecksAreRoles
  <2>2. ASSUME NEW r \in Roles PROVE ThreeReads(r) \in Seq(ReadOf)
    BY KindsAreReads, Triple DEF ThreeReads
  <2>3. \A i \in 1 .. 6 : F[i] \in Seq(ReadOf) BY <2>1, <2>2
  <2>4. Len(F) = 6 BY <2>1
  <2> HIDE DEF F
  <2> QED BY <2>3, <2>4, ThreeReadsAreReads
<1>3. C \in Seq(ReadOf) BY ConflictChecksAreRoles, KindsAreReads, EachReads
<1>4. /\ D \in Seq(ReadOf) /\ Len(D) = 3
      /\ D[1] = <<"replay", "factory">> /\ D[2] = <<"replay", "registry">>
  BY KindsAreReads, Triple
<1>5. E \in Seq(ReadOf) BY RoleChecksAreRoles, KindsAreReads, EachReads
<1>6. Reads = A \o B \o C \o D \o E BY DEF Reads
<1> HIDE DEF A, B, C, D, E
<1>7. A \o B \in Seq(ReadOf) BY <1>1, <1>2, Join
<1>8. PICK P \in Seq(ReadOf) : P = A \o B \o C BY <1>3, <1>7, Join
<1>9. PICK Q \in Seq(ReadOf) : Q = P \o D BY <1>4, <1>8, Join
<1>10. /\ Len(Q) = Len(P) + 3 /\ Len(P) \in Nat
       /\ \A i \in 1 .. 3 : Q[Len(P) + i] = D[i]
  <2>1. /\ Len(P \o D) = Len(P) + Len(D)
        /\ \A i \in 1 .. Len(D) : (P \o D)[Len(P) + i] = D[i]
    <3>1. P \in Seq(ReadOf) /\ D \in Seq(ReadOf) BY <1>4
    <3> QED BY <3>1, Join
  <2> QED BY <1>4, <1>8, <1>9, <2>1
<1>11. Reads = Q \o E BY <1>6, <1>8, <1>9
<1>12. /\ Len(Reads) = Len(Q) + Len(E) /\ Len(E) \in Nat
       /\ \A i \in 1 .. Len(Q) : Reads[i] = Q[i]
  BY <1>5, <1>9, <1>11, Join
<1>13. /\ Len(P) + 1 \in 1 .. Len(Q) /\ Len(P) + 2 \in 1 .. Len(Q)
       /\ 1 .. Len(Q) \subseteq 1 .. Len(Reads) /\ Len(Reads) \in Nat
  BY <1>10, <1>12
<1>14. /\ Reads[Len(P) + 1] = <<"replay", "factory">>
       /\ Reads[Len(P) + 2] = <<"replay", "registry">>
  BY <1>4, <1>10, <1>12, <1>13
<1> QED BY <1>13, <1>14

--------------------------------------------------------------------------------
(* The log and the blocks.                                                         *)

UpTo(b) == {i \in DOMAIN log : log[i].block <= b}

\* The contracts are deployed one after the other, each once.
InOrder ==
  /\ script = [name |-> script.name, next |-> script.next]
  /\ DOMAIN deployed \in {{}, {"registry"}, {"registry", "implementation"}, Contracts}
  /\ script.name = "core" =>
       \/ script.next = 1 /\ DOMAIN deployed = {}
       \/ script.next = 2 /\ DOMAIN deployed = {"registry"}
       \/ script.next = 3 /\ DOMAIN deployed = {"registry", "implementation"}
       \/ script.next = 4 /\ DOMAIN deployed = Contracts
  /\ script.name = "handOver" => script.next \in 1 .. 8
  /\ \A c \in DOMAIN deployed : deployed[c] \in 1 .. Block

\* No event is older than the contract that wrote it, or of a block to come.
Dated ==
  \A i \in DOMAIN log :
    /\ Live(Scope(log[i].role))
    /\ deployed[Scope(log[i].role)] <= log[i].block /\ log[i].block <= Block

\* The log says who has which role now, and who had it at the end of each block.
LogTells ==
  /\ \A r \in Roles : member[r] = Lasting(log, DOMAIN log, r)
  /\ \A b \in 1 .. Len(past) : \A r \in Roles : past[b].member[r] = Lasting(log, UpTo(b), r)

Recorded ==
  /\ log \in Seq(Events) /\ Len(past) \in Nat
  /\ past \in Seq([member: [Roles -> SUBSET Accounts], bound: BOOLEAN, live: SUBSET Contracts])
  /\ member \in [Roles -> SUBSET Accounts] /\ bound \in BOOLEAN
  /\ InOrder /\ Dated /\ LogTells

LEMMA RecordedInit ==
  ASSUME Init
  PROVE  Recorded
<1>1. /\ log = <<>> /\ past = <<>> /\ deployed = <<>> /\ script = Idle
      /\ member = [r \in Roles |-> {}] /\ bound = FALSE
  BY DEF Init
<1>2. DOMAIN <<>> = {} /\ Len(<<>>) = 0 /\ 1 .. 0 = {}
  <2>1. DOMAIN <<>> = 1 .. 0 BY Len(<<>>) = 0
  <2> QED BY <2>1
<1>3. log \in Seq(Events)
      /\ past \in Seq([member: [Roles -> SUBSET Accounts], bound: BOOLEAN,
                       live: SUBSET Contracts])
  BY <1>1
<1>4. InOrder BY <1>1, <1>2 DEF InOrder, Idle
<1>5. Dated BY <1>1, <1>2 DEF Dated
<1>6. LogTells
  <2>1. \A r : Lasting(log, DOMAIN log, r) = {} BY <1>1, <1>2 DEF Lasting
  <2> QED BY <1>1, <1>2, <2>1 DEF LogTells
<1> QED BY <1>1, <1>2, <1>3, <1>4, <1>5, <1>6 DEF Recorded

\* Writing an event: the members and the log change alike, and no sealed block does.
LEMMA WriteTells ==
  ASSUME DeploymentAssumption, Recorded,
         NEW type \in {"granted", "revoked"}, NEW r \in Roles, NEW a \in Accounts,
         NEW sender \in Accounts, Write(type, r, a, sender), UNCHANGED past
  PROVE  /\ log' \in Seq(Events) /\ member' \in [Roles -> SUBSET Accounts] /\ LogTells'
         /\ \/ log' = log
            \/ log' = Append(log, Event(type, r, a, sender))
<1> DEFINE new == IF type = "granted" THEN member[r] \cup {a} ELSE member[r] \ {a}
           e == Event(type, r, a, sender)
           n == Len(log) + 1
<1>1. /\ member' = [member EXCEPT ![r] = new]
      /\ log' = IF new = member[r] THEN log ELSE Append(log, e)
  BY DEF Write
<1>2. /\ log \in Seq(Events) /\ Len(past) \in Nat /\ member \in [Roles -> SUBSET Accounts]
      /\ LogTells
  BY DEF Recorded
<1>3. new \in SUBSET Accounts BY <1>2
<1>4. member' \in [Roles -> SUBSET Accounts] BY <1>1, <1>2, <1>3
<1>5. CASE new = member[r]
  <2>1. log' = log /\ member' = member BY <1>1, <1>2, <1>5
  <2>2. LogTells' BY <1>2, <2>1 DEF LogTells, Lasting, Says, UpTo
  <2> QED BY <1>2, <1>4, <2>1, <2>2
<1>6. CASE new # member[r]
  <2>1. log' = Append(log, e) BY <1>1, <1>6
  <2>2. e \in Events BY <1>2 DEF Event, Events, Block
  <2>3. /\ e.block = Len(past) + 1 /\ e.type = type /\ e.role = r /\ e.account = a
    BY DEF Event, Block
  <2> HIDE DEF e
  <2>4. /\ log' \in Seq(Events) /\ n \in Nat
        /\ DOMAIN log = 1 .. Len(log) /\ Len(log) \in Nat
        /\ DOMAIN log' = DOMAIN log \cup {n} /\ n \notin DOMAIN log
        /\ log'[n] = e /\ \A i \in DOMAIN log : log'[i] = log[i] /\ n > i /\ ~(i > n)
    BY <1>2, <2>1, <2>2
  <2> HIDE DEF n
  <2>5. \A i \in DOMAIN log : \A x, y : Says(log', i, x, y) <=> Says(log, i, x, y)
    BY <2>4 DEF Says
  <2>6. ASSUME NEW s \in SUBSET DOMAIN log, NEW x PROVE Lasting(log', s, x) = Lasting(log, s, x)
    <3>1. \A i \in s : log'[i].type = log[i].type BY <2>4
    <3> QED BY <2>5, <3>1 DEF Lasting
  <2>7. ASSUME NEW b \in 1 .. Len(past), NEW x \in Roles
        PROVE  past'[b].member[x] = Lasting(log', UpTo(b)', x)
    <3>1. UpTo(b)' = UpTo(b)
      <4>1. ~(e.block <= b) BY <1>2, <2>3
      <4> QED BY <2>4, <4>1 DEF UpTo
    <3>2. UpTo(b) \in SUBSET DOMAIN log BY DEF UpTo
    <3>3. Lasting(log', UpTo(b)', x) = Lasting(log, UpTo(b), x) BY <2>6, <3>1, <3>2
    <3> QED BY <1>2, <3>3 DEF LogTells
  <2>8. ASSUME NEW x \in Roles PROVE member'[x] = Lasting(log', DOMAIN log', x)
    <3>1. Lasting(log', DOMAIN log', x)
          = After(log', Lasting(log', DOMAIN log' \ {n}, x), n, x)
      <4>1. PICK l \in Seq(Events) : l = log' BY <2>4
      <4>2. n \in DOMAIN l /\ \A y \in DOMAIN l : y <= n BY <2>4, <4>1
      <4>3. Lasting(l, DOMAIN l, x) = After(l, Lasting(l, DOMAIN l \ {n}, x), n, x)
        BY <4>2, LastingTakes
      <4> QED BY <4>1, <4>3
    <3>2. DOMAIN log' \ {n} = DOMAIN log BY <2>4
    <3>3. Lasting(log', DOMAIN log' \ {n}, x) = member[x] BY <1>2, <2>6, <3>2 DEF LogTells
    <3>4. member'[x] = After(log', member[x], n, x)
      BY <1>1, <1>2, <2>3, <2>4 DEF After
    <3> QED BY <3>1, <3>3, <3>4
  <2>9. LogTells' BY <2>7, <2>8 DEF LogTells
  <2> QED BY <1>4, <2>1, <2>4, <2>9 DEF e
<1> QED BY <1>5, <1>6

\* Who has a role got it from an event, and the contract of the event is deployed.
LEMMA MemberIsLive ==
  ASSUME Recorded, NEW r \in Roles, member[r] # {}
  PROVE  Live(Scope(r))
<1>1. Lasting(log, DOMAIN log, r) # {} BY DEF Recorded, LogTells
<1>2. PICK i \in DOMAIN log : log[i].role = r BY <1>1 DEF Lasting, Says
<1> QED BY <1>2 DEF Recorded, Dated

LEMMA DatedWrite ==
  ASSUME Recorded, NEW type, NEW r \in Roles, NEW a, NEW sender, UNCHANGED past,
         \/ log' = log
         \/ log' = Append(log, Event(type, r, a, sender)),
         \A c \in DOMAIN deployed : c \in DOMAIN deployed' /\ deployed'[c] = deployed[c],
         Scope(r) \in DOMAIN deployed', deployed'[Scope(r)] <= Block, Block \in Nat
  PROVE  Dated'
<1> DEFINE e == Event(type, r, a, sender)
<1>1. Dated /\ log \in Seq(Events) /\ Block' = Block BY DEF Recorded, Block
<1>2. e.block = Block /\ e.role = r BY DEF Event
<1> HIDE DEF e
<1>3. \A i \in DOMAIN log' : (i \in DOMAIN log /\ log'[i] = log[i]) \/ log'[i] = e
  <2>1. CASE log' = log BY <2>1
  <2>2. CASE log' = Append(log, e)
    <3>1. /\ DOMAIN log = 1 .. Len(log) /\ Len(log) \in Nat
          /\ DOMAIN log' = 1 .. Len(log) + 1 /\ log'[Len(log) + 1] = e
          /\ \A i \in 1 .. Len(log) : log'[i] = log[i]
      BY <1>1, <2>2
    <3> QED BY <3>1
  <2> QED BY <2>1, <2>2 DEF e
<1>4. ASSUME NEW i \in DOMAIN log, log'[i] = log[i]
      PROVE  /\ Scope(log'[i].role) \in DOMAIN deployed'
             /\ deployed'[Scope(log'[i].role)] <= log'[i].block /\ log'[i].block <= Block
  BY <1>1, <1>4 DEF Dated, Live
<1>5. ASSUME NEW i \in DOMAIN log', log'[i] = e
      PROVE  /\ Scope(log'[i].role) \in DOMAIN deployed'
             /\ deployed'[Scope(log'[i].role)] <= log'[i].block /\ log'[i].block <= Block
  BY <1>2, <1>5
<1> QED BY <1>1, <1>3, <1>4, <1>5 DEF Dated, Live

\* A role is granted or revoked once its contract is deployed.
LEMMA RecordedWrite ==
  ASSUME DeploymentAssumption, Recorded,
         NEW type \in {"granted", "revoked"}, NEW r \in Roles, NEW a \in Accounts,
         NEW sender \in Accounts, Write(type, r, a, sender), Live(Scope(r)),
         UNCHANGED <<past, deployed, bound>>, InOrder'
  PROVE  Recorded'
<1>1. /\ log' \in Seq(Events) /\ member' \in [Roles -> SUBSET Accounts] /\ LogTells'
      /\ \/ log' = log
         \/ log' = Append(log, Event(type, r, a, sender))
  BY WriteTells
<1>2. /\ Len(past) \in Nat /\ Block \in Nat /\ Scope(r) \in DOMAIN deployed
      /\ deployed[Scope(r)] <= Block
  BY DEF Recorded, InOrder, Live, Block
<1>3. Dated' BY <1>1, <1>2, DatedWrite
<1> QED BY <1>1, <1>3 DEF Recorded

\* The steps that only move the scripts, or none of these.
LEMMA RecordedStays ==
  ASSUME Recorded, UNCHANGED <<log, past, deployed, member>>, bound' \in BOOLEAN, InOrder'
  PROVE  Recorded'
<1>1. Dated' BY DEF Recorded, Dated, Live, Block
<1>2. LogTells' BY DEF Recorded, LogTells, UpTo
<1> QED BY <1>1, <1>2 DEF Recorded

LEMMA OrderStays ==
  ASSUME Recorded, UNCHANGED <<deployed, script>>, Block <= Block', Block' \in Nat
  PROVE  InOrder'
<1>1. \A c \in DOMAIN deployed : deployed[c] \in 1 .. Block BY DEF Recorded, InOrder
<1>2. Block \in Nat BY DEF Recorded, Block
<1>3. \A c \in DOMAIN deployed' : deployed'[c] \in 1 .. Block' BY <1>1, <1>2
<1> QED BY <1>3 DEF Recorded, InOrder

LEMMA ScriptsRecord ==
  ASSUME Recorded, \/ StartCore \/ ResumeCore \/ StartHandOver \/ BindFactory \/ ScriptStops
  PROVE  Recorded'
<1>1. /\ UNCHANGED <<log, past, deployed, member>> /\ bound' \in BOOLEAN
      /\ Block' = Block
  BY DEF Recorded, StartCore, ResumeCore, StartHandOver, BindFactory, ScriptStops, chain, Block
<1>2. InOrder BY DEF Recorded
<1>3. InOrder'
  <2>1. CASE StartCore
    <3>1. script' = [name |-> "core", next |-> 1] /\ DOMAIN deployed = {}
      BY <2>1 DEF StartCore
    <3> QED BY <1>1, <1>2, <3>1 DEF InOrder
  <2>2. CASE ResumeCore
    <3>1. PICK n : /\ script' = [name |-> "core", next |-> n]
                   /\ n = IF Live("factory") THEN 4 ELSE Cardinality(DOMAIN deployed) + 1
      BY <2>2 DEF ResumeCore
    <3>2. DOMAIN deployed \in {{"registry"}, {"registry", "implementation"}, Contracts}
      BY <1>2, <2>2 DEF ResumeCore, InOrder
    <3>3. CASE DOMAIN deployed = {"registry"}
      <4>1. n = 2
        <5>1. Cardinality({"registry"}) = 1 BY FS_Singleton
        <5> QED BY <3>1, <3>3, <5>1 DEF Live
      <4> QED BY <1>1, <1>2, <3>1, <3>3, <4>1 DEF InOrder
    <3>4. CASE DOMAIN deployed = {"registry", "implementation"}
      <4>1. n = 3
        <5>1. Cardinality({"registry"}) = 1 /\ IsFiniteSet({"registry"}) BY FS_Singleton
        <5>2. /\ "implementation" \notin {"registry"}
              /\ {"registry"} \cup {"implementation"} = {"registry", "implementation"}
          OBVIOUS
        <5>3. Cardinality({"registry"} \cup {"implementation"})
              = Cardinality({"registry"}) + 1
          BY <5>1, <5>2, FS_AddElement
        <5>4. Cardinality(DOMAIN deployed) = 2 BY <3>4, <5>1, <5>2, <5>3
        <5> QED BY <3>1, <3>4, <5>4 DEF Live
      <4> QED BY <1>1, <1>2, <3>1, <3>4, <4>1 DEF InOrder
    <3>5. CASE DOMAIN deployed = Contracts
      <4>1. n = 4 BY <3>1, <3>5 DEF Live, Contracts
      <4> QED BY <1>1, <1>2, <3>1, <3>5, <4>1 DEF InOrder
    <3> QED BY <3>2, <3>3, <3>4, <3>5
  <2>3. CASE StartHandOver
    <3>1. script' = [name |-> "handOver", next |-> 1] BY <2>3 DEF StartHandOver
    <3> QED BY <1>1, <1>2, <3>1 DEF InOrder
  <2>4. CASE BindFactory \/ ScriptStops
    <3>1. script' = [name |-> "none", next |-> 1]
      BY <2>4 DEF BindFactory, ScriptStops, Idle
    <3> QED BY <1>1, <1>2, <3>1 DEF InOrder
  <2> QED BY <2>1, <2>2, <2>3, <2>4
<1> QED BY <1>1, <1>3, RecordedStays

LEMMA DeployRecords ==
  ASSUME DeploymentAssumption, Recorded, NEW c \in Contracts, Deploy(c)
  PROVE  Recorded'
<1>1. /\ script.name = "core" /\ CoreSteps[script.next] = c /\ InOrder
      /\ script = [name |-> script.name, next |-> script.next]
      /\ UNCHANGED <<past, bound>> /\ Block' = Block /\ Block \in Nat /\ Block >= 1
  BY DEF Deploy, Recorded, InOrder, Block
<1>2. deployed' = [x \in DOMAIN deployed \cup {c} |-> IF x = c THEN Block ELSE deployed[x]]
  BY DEF Deploy
<1>3. script' = [name |-> "core", next |-> script.next + 1]
  BY <1>1 DEF Deploy
<1>4. /\ c \notin DOMAIN deployed
      /\ \/ script.next = 1 /\ c = "registry" /\ DOMAIN deployed = {}
         \/ script.next = 2 /\ c = "implementation" /\ DOMAIN deployed = {"registry"}
         \/ script.next = 3 /\ c = "factory" /\ DOMAIN deployed = {"registry", "implementation"}
  BY <1>1 DEF InOrder, CoreSteps, Contracts
<1>5. /\ DOMAIN deployed' = DOMAIN deployed \cup {c}
      /\ \A x \in DOMAIN deployed : x \in DOMAIN deployed' /\ deployed'[x] = deployed[x]
      /\ deployed'[c] = Block
  BY <1>2, <1>4
<1>6. InOrder'
  <2>1. \A x \in DOMAIN deployed' : deployed'[x] \in 1 .. Block' BY <1>1, <1>5 DEF InOrder
  <2>2. \/ script'.next = 2 /\ DOMAIN deployed' = {"registry"}
        \/ script'.next = 3 /\ DOMAIN deployed' = {"registry", "implementation"}
        \/ script'.next = 4 /\ DOMAIN deployed' = Contracts
    BY <1>3, <1>4, <1>5 DEF Contracts
  <2> QED BY <1>3, <2>1, <2>2 DEF InOrder
<1>7. CASE c = "implementation"
  <2>1. UNCHANGED <<member, log>> BY <1>7 DEF Deploy
  <2>2. Dated' BY <1>1, <1>5, <2>1 DEF Recorded, Dated, Live
  <2>3. LogTells' BY <1>1, <2>1 DEF Recorded, LogTells, UpTo
  <2> QED BY <1>1, <1>6, <2>1, <2>2, <2>3 DEF Recorded
<1>8. CASE c # "implementation"
  <2>1. PICK r \in Roles : Write("granted", r, Deployer, Deployer) /\ Scope(r) = c
    <3>1. /\ "registryAdmin" \in Roles /\ Scope("registryAdmin") = "registry"
          /\ "factoryAdmin" \in Roles /\ Scope("factoryAdmin") = "factory"
      BY DEF Roles, FactoryRoles, RegistryRoles, Scope
    <3>2. CASE c = "registry" BY <3>1, <3>2 DEF Deploy
    <3>3. CASE c = "factory" BY <3>1, <3>3 DEF Deploy
    <3> QED BY <1>8, <3>2, <3>3 DEF Contracts
  <2>2. Deployer \in Accounts BY DEF DeploymentAssumption
  <2>3. /\ log' \in Seq(Events) /\ member' \in [Roles -> SUBSET Accounts] /\ LogTells'
        /\ \/ log' = log
           \/ log' = Append(log, Event("granted", r, Deployer, Deployer))
    BY <1>1, <2>1, <2>2, WriteTells
  <2>4. /\ UNCHANGED past /\ Block \in Nat
        /\ Scope(r) \in DOMAIN deployed' /\ deployed'[Scope(r)] <= Block
    BY <1>1, <1>5, <2>1
  <2>5. Dated' BY <1>5, <2>3, <2>4, DatedWrite
  <2> QED BY <1>1, <1>6, <2>3, <2>5 DEF Recorded
<1> QED BY <1>7, <1>8

LEMMA HandOverRecords ==
  ASSUME DeploymentAssumption, Recorded, HandOverStep
  PROVE  Recorded'
<1> DEFINE s == HandOver[script.next]
<1>1. /\ script = [name |-> "handOver", next |-> script.next] /\ script.next \in 1 .. 8
      /\ InOrder
  BY DEF HandOverStep, Recorded, InOrder
<1>2. /\ s.type \in {"granted", "revoked"} /\ s.role \in Roles /\ s.to \in Accounts
      /\ Len(HandOver) = 8
  BY <1>1, HandOverIsOfRoles
<1>3. /\ Deployer \in member[AdminOf(s.role)] /\ Write(s.type, s.role, s.to, Deployer)
      /\ UNCHANGED <<past, deployed, bound>>
  BY DEF HandOverStep, Change, Permitted
<1>4. script' = IF script.next = 8 THEN Idle ELSE [script EXCEPT !.next = @ + 1]
  BY <1>2 DEF HandOverStep
<1> HIDE DEF s
<1>5. Live(Scope(s.role))
  <2>1. AdminOf(s.role) \in Roles /\ Scope(AdminOf(s.role)) = Scope(s.role)
    BY <1>2, RolesHaveScopes
  <2> QED BY <1>3, <2>1, MemberIsLive
<1>6. InOrder'
  <2>1. CASE script.next = 8 BY <1>1, <1>3, <1>4, <2>1 DEF InOrder, Idle, Block
  <2>2. CASE script.next # 8
    <3>1. script' = [name |-> "handOver", next |-> script.next + 1]
          /\ script.next + 1 \in 1 .. 8
      BY <1>1, <1>4, <2>2
    <3> QED BY <1>1, <1>3, <3>1 DEF InOrder, Block
  <2> QED BY <2>1, <2>2
<1>7. Deployer \in Accounts BY DEF DeploymentAssumption
<1> QED BY <1>2, <1>3, <1>5, <1>6, <1>7, RecordedWrite

LEMMA ByHandRecords ==
  ASSUME DeploymentAssumption, Recorded, NEW type \in {"granted", "revoked"},
         NEW r \in Roles, NEW a \in Operable, NEW sender \in Accounts,
         ByHand(type, r, a, sender)
  PROVE  Recorded'
<1>1. /\ Live(Scope(r)) /\ Write(type, r, a, sender) /\ a \in Accounts
      /\ UNCHANGED <<past, deployed, bound, script>>
  BY DEF ByHand, Change, Scope, DeploymentAssumption
<1>2. InOrder' BY <1>1 DEF Recorded, InOrder, Block
<1> QED BY <1>1, <1>2, RecordedWrite

LEMMA RenounceRecords ==
  ASSUME DeploymentAssumption, Recorded, NEW r \in Roles, NEW a \in Accounts, Renounce(r, a)
  PROVE  Recorded'
<1>1. /\ a \in member[r] /\ Write("revoked", r, a, a)
      /\ UNCHANGED <<past, deployed, bound, script>>
  BY DEF Renounce
<1>2. Live(Scope(r)) BY <1>1, MemberIsLive
<1>3. InOrder' BY <1>1 DEF Recorded, InOrder, Block
<1> QED BY <1>1, <1>2, <1>3, RecordedWrite

\* A block that is sealed holds the whole log, and no earlier block changes.
LEMMA SealRecords ==
  ASSUME Recorded, SealBlock
  PROVE  Recorded'
<1> DEFINE n == Len(past) + 1
           Blocks == [member: [Roles -> SUBSET Accounts], bound: BOOLEAN, live: SUBSET Contracts]
<1>1. /\ past' = Append(past, Snapshot) /\ UNCHANGED <<deployed, bound, member, log, script>>
      /\ Len(past) \in Nat /\ past \in Seq(Blocks)
      /\ Dated /\ LogTells /\ log \in Seq(Events)
  BY DEF SealBlock, Recorded
<1>2. Snapshot \in Blocks BY DEF Snapshot, Recorded, InOrder, Contracts
<1>3. Snapshot.member = member BY DEF Snapshot
<1> HIDE DEF Blocks
<1>4. /\ past' \in Seq(Blocks) /\ Len(past') = n /\ n \in Nat /\ past'[n] = Snapshot
      /\ \A b \in 1 .. Len(past) : past'[b] = past[b]
      /\ Block = n /\ Block' = n + 1
  BY <1>1, <1>2 DEF Block
<1>5. InOrder' BY <1>1, <1>4, OrderStays
<1>6. \A i \in DOMAIN log : log[i].block \in Nat
  <2>1. \A i \in DOMAIN log : log[i] \in Events BY <1>1
  <2> QED BY <2>1 DEF Events
<1>7. Dated' BY <1>1, <1>4, <1>6 DEF Dated, Live
<1>8. LogTells'
  <2>1. \A r \in Roles : member'[r] = Lasting(log', DOMAIN log', r) BY <1>1 DEF LogTells
  <2>2. \A b : UpTo(b)' = UpTo(b) BY <1>1 DEF UpTo
  <2>3. UpTo(n) = DOMAIN log BY <1>1, <1>4 DEF Dated, UpTo
  <2>4. ASSUME NEW b \in 1 .. n, NEW r \in Roles
        PROVE  past'[b].member[r] = Lasting(log', UpTo(b)', r)
    <3>1. CASE b = n BY <1>1, <1>3, <1>4, <2>2, <2>3, <3>1 DEF LogTells
    <3>2. CASE b # n
      <4>1. b \in 1 .. Len(past) BY <1>4, <3>2
      <4> QED BY <1>1, <1>4, <2>2, <4>1 DEF LogTells
    <3> QED BY <3>1, <3>2
  <2> QED BY <1>4, <2>1, <2>4 DEF LogTells
<1> QED BY <1>1, <1>4, <1>5, <1>7, <1>8 DEF Recorded, Blocks

LEMMA RecordedStep ==
  ASSUME DeploymentAssumption, Recorded, [Next]_vars
  PROVE  Recorded'
<1>1. CASE \/ StartCore \/ ResumeCore \/ StartHandOver \/ BindFactory \/ ScriptStops
  BY <1>1, ScriptsRecord
<1>2. CASE \E c \in Contracts : Deploy(c)
  BY <1>2, DeployRecords
<1>3. CASE HandOverStep
  BY <1>3, HandOverRecords
<1>4. CASE \E type \in {"granted", "revoked"}, r \in Roles, a \in Operable, s \in Accounts :
             ByHand(type, r, a, s)
  BY <1>4, ByHandRecords
<1>5. CASE \E r \in Roles, a \in Accounts : Renounce(r, a)
  BY <1>5, RenounceRecords
<1>6. CASE SealBlock
  BY <1>6, SealRecords
<1>7. CASE UNCHANGED <<log, past, deployed, member, bound, script>>
  <2>1. bound' \in BOOLEAN BY <1>7 DEF Recorded
  <2>2. InOrder' BY <1>7 DEF Recorded, InOrder, Block
  <2> QED BY <1>7, <2>1, <2>2, RecordedStays
<1>8. CASE \/ \E a \in Accounts : PauseCreation(a)
           \/ \E o \in Offers, a \in Accounts : CreateSource(o, a) \/ UpdateSource(o, a)
           \/ \E v \in Vouchers, s \in Accounts : CreateAndFund(v, s)
           \/ Finalize \/ Read \/ RequestFails
           \/ \E b \in 1 .. Len(past), tag \in {"finalized", "pinned"} : StartCheck(b, tag)
           \/ UNCHANGED vars
  BY <1>7, <1>8 DEF PauseCreation, CreateSource, UpdateSource, WriteSource, CreateAndFund,
                    Finalize, Read, RequestFails, StartCheck, chain, vars
<1> QED BY <1>1, <1>2, <1>3, <1>4, <1>5, <1>6, <1>8 DEF Next, ChainStep

--------------------------------------------------------------------------------
(* The verifier.                                                                   *)

\* The reads that passed: those before the next one, or all of them.
PassedReads ==
  {i \in 1 .. Len(Reads) : check.verdict = "passed" \/ i < check.next}

\* While the verifier reads the chain stands still, so what a replay showed at the
\* manifest's block it still shows when the last read has passed.
Shown ==
  /\ check = [verdict |-> check.verdict, block |-> check.block, tag |-> check.tag,
              next |-> check.next]
  /\ check.verdict = "reading" => check.next \in Nat
  /\ check.verdict \in {"reading", "passed"} =>
       /\ check.block \in 1 .. Len(past)
       /\ \A c \in Contracts : c \in DOMAIN deployed
       /\ \A c \in {"factory", "registry"} : \A i \in PassedReads :
            Reads[i] = <<"replay", c>> => ReplayAgrees(c, check.block)

LEMMA ShownInit ==
  ASSUME Init
  PROVE  Shown
BY DEF Init, Shown, NotStarted

LEMMA ShownStarts ==
  ASSUME Recorded, Shown, NEW b \in 1 .. Len(past), NEW tag, StartCheck(b, tag)
  PROVE  Shown'
<1>1. /\ check' = [verdict |-> "reading", block |-> b, tag |-> tag, next |-> 1]
      /\ UNCHANGED <<past, deployed>> /\ \A c \in Contracts : c \in DOMAIN deployed
  BY DEF StartCheck, Live
<1>2. PassedReads' = {} BY <1>1 DEF PassedReads
<1> QED BY <1>1, <1>2 DEF Shown

\* The log and the deployment blocks are as they were, so the replay is too.
LEMMA AgreesStays ==
  ASSUME UNCHANGED <<log, deployed>>, NEW c, NEW b, ReplayAgrees(c, b)
  PROVE  ReplayAgrees(c, b)'
<1>1. \A r, s : Replayed(s, r)' = Replayed(s, r) BY DEF Replayed, MapThenFoldSet
<1>2. Loaded(c, b)' = Loaded(c, b) BY DEF Loaded
<1>3. \A s, t, r, a : HasEvent(s, t, r, a)' <=> HasEvent(s, t, r, a) BY DEF HasEvent
<1> QED BY <1>1, <1>2, <1>3 DEF ReplayAgrees

LEMMA ShownReads ==
  ASSUME Recorded, Shown, Read
  PROVE  Shown'
<1>1. /\ check.verdict = "reading" /\ UNCHANGED <<past, deployed, log>>
      /\ check = [verdict |-> "reading", block |-> check.block, tag |-> check.tag,
                  next |-> check.next]
      /\ check.next \in Nat
      /\ check.block \in 1 .. Len(past)
      /\ \A c \in Contracts : c \in DOMAIN deployed
      /\ \A c \in {"factory", "registry"} : \A i \in PassedReads :
           Reads[i] = <<"replay", c>> => ReplayAgrees(c, check.block)
  BY DEF Read, chain, Shown
<1>2. PICK at : check' = IF ~Passes(Reads[check.next], at, check.block)
                         THEN Failed
                         ELSE IF check.next = Len(Reads)
                         THEN [check EXCEPT !.verdict = "passed"]
                         ELSE [check EXCEPT !.next = @ + 1]
  BY DEF Read
<1>3. CASE ~Passes(Reads[check.next], at, check.block)
  BY <1>2, <1>3 DEF Failed, NotStarted, Shown
<1>4. CASE Passes(Reads[check.next], at, check.block)
  <2>1. ASSUME NEW c \in {"factory", "registry"}, Reads[check.next] = <<"replay", c>>
        PROVE  ReplayAgrees(c, check.block)
    BY <1>4, <2>1 DEF Passes
  <2>2. /\ check' = [verdict |-> check'.verdict, block |-> check.block, tag |-> check.tag,
                     next |-> check'.next]
        /\ \/ check'.verdict = "passed" /\ check.next = Len(Reads)
           \/ check'.verdict = "reading" /\ check'.next = check.next + 1
    BY <1>1, <1>2, <1>4
  <2>3. check'.block = check.block BY <2>2
  <2>4. ASSUME NEW i \in PassedReads' PROVE i \in PassedReads \/ i = check.next
    BY <1>1, <2>2, <2>4, ReadsHaveReplays DEF PassedReads
  <2>5. ASSUME NEW c \in {"factory", "registry"}, NEW i \in PassedReads',
               Reads[i] = <<"replay", c>>
        PROVE  ReplayAgrees(c, check.block)'
    <3>1. ReplayAgrees(c, check.block) BY <1>1, <2>1, <2>4, <2>5
    <3>2. PICK b : b = check.block OBVIOUS
    <3>3. ReplayAgrees(c, b) BY <3>1, <3>2
    <3>4. ReplayAgrees(c, b)' BY <1>1, <3>3, AgreesStays
    <3>5. check'.block = b BY <2>3, <3>2
    <3> QED BY <3>4, <3>5
  <2> QED BY <1>1, <2>2, <2>3, <2>5 DEF Shown
<1> QED BY <1>3, <1>4

\* A read that fails says no more, and no other step is taken while the verifier reads.
LEMMA ShownStep ==
  ASSUME Recorded, Shown, [Next]_vars
  PROVE  Shown'
<1>1. CASE check = NotStarted /\ ChainStep
  <2>1. check' = check
    BY <1>1 DEF ChainStep, StartCore, ResumeCore, StartHandOver, Deploy, BindFactory,
                HandOverStep, ScriptStops, ByHand, Renounce, PauseCreation, CreateSource,
                UpdateSource, WriteSource, CreateAndFund, SealBlock
  <2> QED BY <1>1, <2>1 DEF NotStarted, Shown
<1>2. CASE RequestFails
  BY <1>2 DEF RequestFails, Failed, NotStarted, Shown
<1>3. CASE UNCHANGED <<log, past, deployed, check>>
  <2>1. ASSUME NEW c, ReplayAgrees(c, check.block) PROVE ReplayAgrees(c, check.block)'
    BY <1>3, <2>1, AgreesStays
  <2>2. PassedReads' = PassedReads BY <1>3 DEF PassedReads
  <2> QED BY <1>3, <2>1, <2>2 DEF Shown
<1>4. CASE Read BY <1>4, ShownReads
<1>5. CASE \E b \in 1 .. Len(past), tag \in {"finalized", "pinned"} : StartCheck(b, tag)
  BY <1>5, ShownStarts
<1>6. CASE Finalize \/ UNCHANGED vars BY <1>3, <1>6 DEF Finalize, vars
<1> QED BY <1>1, <1>2, <1>4, <1>5, <1>6 DEF Next

LEMMA ShownIsTrue ==
  ASSUME DeploymentAssumption, FinalRolesAreOthers, Recorded, Shown
  PROVE  PassedIsTrueAtTheBlock
<1> SUFFICES ASSUME check.verdict = "passed", NEW r \in Roles
             PROVE  past[check.block].member[r] = {Expected[r]}
  BY DEF PassedIsTrueAtTheBlock, FinalRolesAreOthers
<1>1. PICK b \in 1 .. Len(past) : b = check.block BY DEF Shown
<1>2. PICK c \in {"factory", "registry"} : c = Scope(r) BY RolesHaveScopes
<1>3. ReplayAgrees(c, b)
  <2>1. PICK i \in 1 .. Len(Reads) : Reads[i] = <<"replay", c>> BY ReadsHaveReplays
  <2>2. i \in PassedReads BY DEF PassedReads
  <2> QED BY <1>1, <2>1, <2>2 DEF Shown
<1>4. Replayed(Loaded(c, b), r) = {Expected[r]} BY <1>2, <1>3 DEF ReplayAgrees
<1>5. Replayed(Loaded(c, b), r) = Lasting(log, Loaded(c, b), r)
  <2>1. Loaded(c, b) \in SUBSET DOMAIN log BY DEF Loaded
  <2> QED BY <2>1, ReplayIsLasting DEF Recorded
<1>6. ASSUME NEW i, log[i].role = r PROVE i \in Loaded(c, b) <=> i \in UpTo(b)
  <2> SUFFICES ASSUME i \in DOMAIN log PROVE i \in Loaded(c, b) <=> i \in UpTo(b)
    BY DEF Loaded, UpTo
  <2>1. /\ c \in DOMAIN deployed /\ deployed[c] \in Nat /\ deployed[c] <= log[i].block
        /\ log[i].block \in Nat /\ b \in Nat
    <3>1. log[i] \in Events BY DEF Recorded
    <3> QED BY <1>2, <1>6, <3>1 DEF Recorded, Dated, InOrder, Live, Events
  <2>2. i \in Loaded(c, b) <=> log[i].block \in deployed[c] .. b
    <3>1. (\E x \in ChunkStarts(deployed[c], b) : log[i].block \in x .. ChunkEnd(x, b))
          <=> log[i].block \in deployed[c] .. b
      BY <2>1, ChunksCover
    <3> QED BY <1>2, <1>6, <3>1 DEF Loaded
  <2> QED BY <2>1, <2>2 DEF UpTo
<1>7. Lasting(log, Loaded(c, b), r) = Lasting(log, UpTo(b), r) BY <1>6, LastingOfRole
<1> QED BY <1>1, <1>4, <1>5, <1>7 DEF Recorded, LogTells

\* The verifier reads each role at whatever block is final by then, so no two of its
\* reads need have seen the same chain; what it replays is the log up to one block.
\* A verification that passed is therefore true at that block, for any manifest that
\* the gates before it let through (verifyArcDeploymentTopologyAndRoles).
THEOREM VerdictIsTrue ==
  ASSUME DeploymentAssumption, FinalRolesAreOthers
  PROVE  Spec => []PassedIsTrueAtTheBlock
<1>1. Init => Recorded /\ Shown BY RecordedInit, ShownInit
<1>2. Recorded /\ Shown /\ [Next]_vars => (Recorded /\ Shown)'
  BY RecordedStep, ShownStep
<1>3. Recorded /\ Shown => PassedIsTrueAtTheBlock BY ShownIsTrue
<1> QED BY <1>1, <1>2, <1>3, PTL DEF Spec

--------------------------------------------------------------------------------
(* What a verification found separated stays separated.                            *)

\* The manifest names six different accounts: deployment-preflight-gate.mjs refuses
\* roles that overlap.
FinalRolesAreApart == \A r, s \in Roles : r # s => Expected[r] # Expected[s]

\* From a block in which nobody had two roles and the registry knew the factory.
StaysApart ==
  \A b \in 1 .. Len(past) :
    past[b].member["sourceAdmin"] # {} /\ Apart(past[b].member) =>
      /\ bound /\ Apart(member)
      /\ \A c \in b .. Len(past) : Apart(past[c].member)

\* Once the factory is bound, a contract grants a role to nobody who has another.
LEMMA GrantIsExclusive ==
  ASSUME NEW r \in Roles, NEW a, MayGrant(member, TRUE, r, a)
  PROVE  \A s \in Roles \ {r} : a \notin member[s]
BY DEF MayGrant, FactoryAllows, RegistryAllows, Roles

LEMMA ChangeStaysApart ==
  ASSUME Scripted, bound, Apart(member), NEW r \in Roles, NEW a,
         NEW type \in {"granted", "revoked"}, NEW sender, Change(type, r, a, sender)
  PROVE  bound' /\ Apart(member')
<1>1. CASE type = "granted"
  <2>1. \A s \in Roles \ {r} : a \notin member[s]
    BY <1>1, GrantIsExclusive DEF Change, Permitted, Scripted
  <2>2. member' = [member EXCEPT ![r] = member[r] \cup {a}] /\ bound'
    BY <1>1 DEF Change, Write
  <2> QED BY <2>1, <2>2 DEF Apart, Scripted
<1>2. CASE type = "revoked"
  <2>1. member' = [member EXCEPT ![r] = member[r] \ {a}] /\ bound'
    BY <1>2 DEF Change, Write
  <2> QED BY <2>1 DEF Apart, Scripted
<1> QED BY <1>1, <1>2

\* After the binding every step keeps the accounts with one role apart.
LEMMA ApartStep ==
  ASSUME DeploymentAssumption, Scripted, bound, Apart(member), [Next]_vars
  PROVE  bound' /\ Apart(member')
<1>1. CASE HandOverStep
  <2>1. script.next \in 1 .. 8 BY <1>1 DEF HandOverStep, Scripted, ScriptInv
  <2>2. PICK type, r, a : /\ type \in {"granted", "revoked"} /\ r \in Roles
                          /\ Change(type, r, a, Deployer)
    BY <1>1, <2>1, HandOverIsOfRoles DEF HandOverStep
  <2> QED BY <2>2, ChangeStaysApart
<1>2. ASSUME NEW type \in {"granted", "revoked"}, NEW r \in Roles, NEW a, NEW s,
             ByHand(type, r, a, s)
      PROVE  bound' /\ Apart(member')
  BY <1>2, ChangeStaysApart DEF ByHand
<1>3. ASSUME NEW r \in Roles, NEW a, Renounce(r, a)
      PROVE  bound' /\ Apart(member')
  BY <1>3 DEF Renounce, Write, Apart, Scripted
<1>4. ASSUME NEW c \in Contracts, Deploy(c) PROVE FALSE
  BY <1>4 DEF Deploy, Scripted, ScriptInv
<1>5. CASE UNCHANGED <<member, bound>> BY <1>5
<1>6. CASE \/ StartCore \/ ResumeCore \/ StartHandOver \/ ScriptStops \/ BindFactory
           \/ \E a \in Accounts : PauseCreation(a)
           \/ \E o \in Offers, a \in Accounts : CreateSource(o, a) \/ UpdateSource(o, a)
           \/ \E v \in Vouchers, s \in Accounts : CreateAndFund(v, s)
           \/ SealBlock \/ Finalize \/ Read \/ RequestFails
           \/ \E b \in 1 .. Len(past), tag \in {"finalized", "pinned"} : StartCheck(b, tag)
           \/ UNCHANGED vars
  BY <1>5, <1>6 DEF StartCore, ResumeCore, StartHandOver, ScriptStops, BindFactory,
                    PauseCreation, CreateSource, UpdateSource, WriteSource, CreateAndFund,
                    SealBlock, Finalize, Read, RequestFails, StartCheck, chain, vars
<1> QED BY <1>1, <1>2, <1>3, <1>4, <1>6 DEF Next, ChainStep

LEMMA StaysApartStep ==
  ASSUME DeploymentAssumption, Scripted, Recorded, StaysApart, [Next]_vars
  PROVE  StaysApart'
<1>1. CASE past' = past BY <1>1, ApartStep DEF StaysApart
<1>2. CASE SealBlock
  <2> DEFINE n == Len(past) + 1
  <2>1. /\ past' = Append(past, Snapshot) /\ UNCHANGED <<bound, member>>
        /\ Len(past) \in Nat
    BY <1>2 DEF SealBlock, Recorded
  <2>2. Snapshot.member = member BY DEF Snapshot
  <2>3. /\ Len(past') = n /\ n \in Nat /\ past'[n].member = member
        /\ \A b \in 1 .. Len(past) : past'[b] = past[b]
    BY <2>1, <2>2 DEF Recorded
  <2> HIDE DEF n
  <2>4. SUFFICES ASSUME NEW b \in 1 .. n, past'[b].member["sourceAdmin"] # {},
                        Apart(past'[b].member)
                 PROVE  bound /\ Apart(member) /\ \A c \in b .. n : Apart(past'[c].member)
    BY <2>1, <2>3 DEF StaysApart, Apart
  <2>5. \A c \in b .. n : c = n \/ (c \in b .. Len(past) /\ c \in 1 .. Len(past))
    BY <2>1 DEF n
  <2>6. CASE b = n
    <3>1. member["sourceAdmin"] # {} /\ Apart(member) BY <2>3, <2>4, <2>6
    <3>2. bound BY <3>1 DEF Scripted
    <3>3. \A c \in b .. n : c = n BY <2>3, <2>6
    <3> QED BY <2>3, <3>1, <3>2, <3>3
  <2>7. CASE b # n
    <3>1. b \in 1 .. Len(past) BY <2>1, <2>7 DEF n
    <3>2. bound /\ Apart(member) /\ \A c \in b .. Len(past) : Apart(past[c].member)
      BY <2>3, <2>4, <3>1 DEF StaysApart
    <3> QED BY <2>3, <2>5, <3>2
  <2> QED BY <2>6, <2>7
<1>3. past' = past \/ SealBlock
  BY DEF Next, ChainStep, StartCore, ResumeCore, StartHandOver, Deploy, BindFactory,
         HandOverStep, ScriptStops, ByHand, Change, Renounce, PauseCreation, CreateSource,
         UpdateSource, WriteSource, CreateAndFund, Finalize, StartCheck, Read,
         RequestFails, chain, vars
<1> QED BY <1>1, <1>2, <1>3

\* What a passed verification says of the separation of the roles does not age: each
\* contract asks the other before it grants, and the registry does so from the binding
\* on, which is past in a block where somebody is its source administrator. Whatever
\* was granted unchecked before the binding is then gone.
THEOREM VerifiedSeparationLasts ==
  ASSUME DeploymentAssumption, FinalRolesAreOthers, FinalRolesAreApart
  PROVE  Spec => []VerifiedRolesStayApart
<1>1. Init => Scripted /\ Recorded /\ Shown /\ StaysApart
  <2>1. Init => StaysApart
    <3> SUFFICES ASSUME Init PROVE StaysApart
      OBVIOUS
    <3>1. Len(past) = 0 BY DEF Init
    <3> QED BY <3>1 DEF StaysApart
  <2> QED BY <2>1, ScriptedInit, RecordedInit, ShownInit
<1>2. Scripted /\ Recorded /\ Shown /\ StaysApart /\ [Next]_vars
        => (Scripted /\ Recorded /\ Shown /\ StaysApart)'
  BY ScriptedStep, RecordedStep, ShownStep, StaysApartStep
<1>3. ASSUME Recorded, Shown, StaysApart PROVE VerifiedRolesStayApart
  <2> SUFFICES ASSUME check.verdict = "passed"
               PROVE  \A b \in check.block .. Len(past) : Apart(past[b].member)
    BY DEF VerifiedRolesStayApart
  <2>1. \A r \in Roles : past[check.block].member[r] = {Expected[r]}
    BY <1>3, ShownIsTrue DEF PassedIsTrueAtTheBlock
  <2>2. Apart(past[check.block].member) BY <2>1 DEF Apart, FinalRolesAreApart
  <2>3. past[check.block].member["sourceAdmin"] # {} BY <2>1 DEF Roles, RegistryRoles
  <2>4. check.block \in 1 .. Len(past) BY <1>3 DEF Shown
  <2> QED BY <1>3, <2>2, <2>3, <2>4 DEF StaysApart
<1> QED BY <1>1, <1>2, <1>3, PTL DEF Spec

================================================================================
